-------------------------- MODULE ContinuityProofs --------------------------
(* What keeps work going over limits, failures and restarts, and what      *)
(* orders its beginning, for any tables, limits, buffers, sets of keys,    *)
(* graphs and phases.                                                      *)
EXTENDS FiniteSetTheorems, SequenceTheorems, MCContinuity, TLAPS

(* Each keeper is left alone by the others: a step of the composition is a *)
(* step of it or leaves its state as it was.                               *)
continuityVars == <<workVars, meansVars, upVars, keeper>>

LEMMA EachKeepsItsOwn ==
  [ContinuityNext]_continuityVars =>
    /\ [PipelineNext]_pipelineVars /\ [SchedulingNext]_schedulingVars
    /\ [CheckpointNext]_checkpointVars /\ [FailureNext]_failureVars /\ [StateNext]_stateVars
    /\ [ResourceNext]_resourceVars /\ [DeviceNext]_deviceVars
    /\ [StreamNext]_streams /\ [RouteNext]_routeVars
    /\ [DependencyNext]_dependencyVars /\ [BootNext]_bootVars
BY DEF ContinuityNext, WorkNext, MeansNext, UpNext, continuityVars, workVars, meansVars, upVars

-----------------------------------------------------------------------------
(* The state file                                                          *)

(* A save writes every entry when they all fit into the buffer it          *)
(* serializes them into; beyond that it leaves some out and calls them     *)
(* clean all the same.                                                     *)
EntriesFit == Cardinality(Keys) <= BufferRoom

(* What makes SavedForGood inductive: only entries that are there are      *)
(* dirty; the count covers them also while the manager is down, and        *)
(* exceeds its bound only by defaults that a failed save left dirty, which *)
(* no file holds then.                                                     *)
CountCovers ==
  /\ dirty \subseteq Present(mem)
  /\ Cardinality(dirty) <= dirtyCount
  /\ dirtyCount <= MaxDirtyCount + Cardinality(dirty \cap DefaultKeys)
  /\ disk.file \in Snapshots => dirtyCount <= MaxDirtyCount

StateTyped ==
  /\ mem \in Snapshots /\ dirtyCount \in Nat /\ waived \subseteq Keys
  /\ disk \in [file : Files, bak0 : Files, bak1 : Files]
  /\ known \in 0..2
  /\ running \in BOOLEAN /\ failed \in BOOLEAN /\ decayed \in BOOLEAN

StateInv == StateTyped /\ CountCovers /\ FileIsWhole /\ CleanIsSaved

LEMMA FilesApart == Missing \notin Snapshots /\ Torn \notin Snapshots /\ Missing # Torn
BY StateAssumption DEF Snapshots

LEMMA KeysFinite ==
  ASSUME NEW S \in SUBSET Keys
  PROVE  IsFiniteSet(S) /\ Cardinality(S) \in Nat /\ Cardinality(S) <= Cardinality(Keys)
BY StateAssumption, FS_Subset, FS_CardinalityType

LEMMA NothingIsEmpty == Cardinality({}) = 0
BY FS_EmptySet

LEMMA Disjoint ==
  ASSUME NEW S, NEW T, IsFiniteSet(S), IsFiniteSet(T), S \cap T = {}
  PROVE  IsFiniteSet(S \cup T) /\ Cardinality(S \cup T) = Cardinality(S) + Cardinality(T)
<1>1. Cardinality(S \cap T) = 0
  BY NothingIsEmpty
<1>2. Cardinality(S) \in Nat /\ Cardinality(T) \in Nat
  BY FS_CardinalityType
<1>3. IsFiniteSet(S \cup T)
      /\ Cardinality(S \cup T) = Cardinality(S) + Cardinality(T) - Cardinality(S \cap T)
  BY FS_Union
<1> QED BY <1>1, <1>2, <1>3

(* All the entries are serialized when they fit.                           *)
LEMMA SerializedIsAll ==
  ASSUME EntriesFit, NEW s \in Snapshots, NEW t \in Serialized(s)
  PROVE  t = s
<1>1. PICK K \in SUBSET Present(s) :
        /\ K = Present(s) \/ Cardinality(K) = BufferRoom
        /\ t = [k \in Keys |-> IF k \in K THEN s[k] ELSE 0]
  BY DEF Serialized
<1>2. Present(s) \in SUBSET Keys /\ K \in SUBSET Keys
  BY DEF Present
<1>3. IsFiniteSet(Present(s)) /\ Cardinality(Present(s)) \in Nat /\ Cardinality(K) \in Nat
      /\ Cardinality(Present(s)) <= Cardinality(Keys) /\ Cardinality(Keys) \in Nat
  BY <1>2, KeysFinite
<1>4. Cardinality(K) <= Cardinality(Present(s)) /\ (Cardinality(K) = Cardinality(Present(s)) => K = Present(s))
  BY <1>3, FS_Subset
<1>5. BufferRoom \in Nat
  BY StateAssumption
<1>6. K = Present(s)
  BY <1>1, <1>3, <1>4, <1>5 DEF EntriesFit
<1>7. \A k \in Keys : (IF k \in K THEN s[k] ELSE 0) = s[k]
  BY <1>6 DEF Present, Snapshots
<1> QED BY <1>1, <1>7 DEF Snapshots

(* A save leaves the file as it is or puts the entries into it.            *)
LEMMA SaveOutcome ==
  ASSUME EntriesFit, StateTyped, NEW s \in Snapshots, NEW o \in Outcomes(s)
  PROVE  /\ o.disk \in [file : Files, bak0 : Files, bak1 : Files] /\ o.known \in 0..2
         /\ \/ ~o.ok /\ o.disk.file = disk.file
            \/ o.ok /\ o.disk.file = s
<1> DEFINE Disks == [file : Files, bak0 : Files, bak1 : Files]
<1>1. BackedUp \in Disks /\ BackedUp.file = disk.file /\ KnownAfter \in 0..2
  <2>1. disk \in Disks /\ disk.file \in Files /\ Missing \in Files /\ disk.bak0 \in Files
    BY DEF StateTyped, Files
  <2>2. Shifted \in Disks /\ Shifted.file = disk.file
    BY <2>1 DEF Shifted
  <2>3. BackedUp \in Disks /\ BackedUp.file = disk.file
    BY <2>1, <2>2 DEF BackedUp
  <2> QED BY <2>3 DEF KnownAfter, StateTyped
<1>2. CASE ~o.ok /\ o.disk \in {disk, BackedUp} /\ o.known \in {known, KnownAfter}
  BY <1>1, <1>2 DEF StateTyped
<1>3. CASE o.ok /\ o.known = KnownAfter /\ \E t \in Serialized(s) : o.disk = [BackedUp EXCEPT !.file = t]
  <2>1. o.disk = [BackedUp EXCEPT !.file = s]
    BY <1>3, SerializedIsAll
  <2> QED BY <1>1, <1>3, <2>1 DEF Files
<1> QED BY <1>2, <1>3 DEF Outcomes

(* It calls them clean in the second case only.                            *)
LEMMA SaveEffect ==
  ASSUME EntriesFit, StateTyped, NEW s \in Snapshots, NEW d, NEW n, NEW w \in SUBSET Keys, SaveOf(s, d, n, w)
  PROVE  /\ mem' = s /\ known' \in 0..2 /\ decayed' \in BOOLEAN /\ waived' \subseteq Keys
         /\ disk' \in [file : Files, bak0 : Files, bak1 : Files]
         /\ \/ disk'.file = disk.file /\ dirty' = d /\ dirtyCount' = n /\ decayed' = decayed
               /\ waived' = w
            \/ disk'.file = s /\ dirty' = {} /\ dirtyCount' = n - Cardinality(d)
<1>1. PICK o \in Outcomes(s) :
        /\ disk' = o.disk /\ known' = o.known
        /\ dirty' = (IF o.ok THEN {} ELSE d)
        /\ dirtyCount' = (IF o.ok THEN n - Cardinality(d) ELSE n)
        /\ waived' = (IF o.ok THEN {} ELSE w)
        /\ decayed' = (decayed /\ ~o.ok)
  BY DEF SaveOf
<1>2. /\ o.disk \in [file : Files, bak0 : Files, bak1 : Files] /\ o.known \in 0..2
      /\ (~o.ok /\ o.disk.file = disk.file) \/ (o.ok /\ o.disk.file = s)
  BY <1>1, SaveOutcome, Zenon
<1>3. decayed' \in BOOLEAN /\ (~o.ok => decayed' = decayed)
  BY <1>1 DEF StateTyped
<1> QED BY <1>1, <1>2, <1>3 DEF SaveOf

(* Adding to and taking from the dirty entries, as the count follows it.   *)
LEMMA OneMore ==
  ASSUME NEW S \in SUBSET Keys, NEW k \in Keys
  PROVE  /\ Cardinality(S \cup {k}) <= Cardinality(S) + 1
         /\ k \in S => Cardinality(S \ {k}) = Cardinality(S) - 1
         /\ k \notin S => S \ {k} = S
         /\ Cardinality(S \cup {k}) \in Nat /\ Cardinality(S \ {k}) \in Nat
BY KeysFinite, FS_AddElement, FS_RemoveElement

LEMMA Monotone ==
  ASSUME NEW S \in SUBSET Keys, NEW T \in SUBSET S
  PROVE  Cardinality(T) <= Cardinality(S) /\ Cardinality(T) \in Nat /\ Cardinality(S) \in Nat
BY KeysFinite, FS_Subset

LEMMA StateInitHolds == StateInit => StateInv
<1> SUFFICES ASSUME StateInit PROVE StateInv OBVIOUS
<1>1. NoEntries \in Snapshots /\ Present(NoEntries) = {}
  BY StateAssumption DEF NoEntries, Snapshots, Present
<1>2. {} \cap DefaultKeys = {} /\ MaxDirtyCount \in Nat
  BY StateAssumption
<1>3. StateTyped
  <2>1. Missing \in Files
    BY DEF Files
  <2>2. disk \in [file : Files, bak0 : Files, bak1 : Files]
    BY <2>1 DEF StateInit
  <2>3. mem \in Snapshots /\ dirtyCount = 0 /\ known = 0 /\ failed = FALSE /\ waived = {}
    BY <1>1 DEF StateInit
  <2>4. running \in BOOLEAN /\ failed \in BOOLEAN /\ decayed \in BOOLEAN
    BY Zenon DEF StateInit
  <2>5. dirtyCount \in Nat /\ known \in 0..2
    BY <2>3
  <2> QED BY <2>2, <2>3, <2>4, <2>5 DEF StateTyped
<1>4. CountCovers
  BY <1>1, <1>2, NothingIsEmpty, FilesApart DEF StateInit, CountCovers
<1> QED BY <1>1, <1>3, <1>4, FilesApart DEF StateInit, StateInv, FileIsWhole, CleanIsSaved

(* What a save does to the invariant: of the entries s that memory then    *)
(* holds, d are dirty and counted as n, as they were before or with the    *)
(* defaults added.                                                         *)
LEMMA SaveKeeps ==
  ASSUME EntriesFit, StateInv, NEW s \in Snapshots, NEW d \in SUBSET Present(s), NEW n \in Nat,
         NEW w \in SUBSET Keys,
         Cardinality(d) <= n, n <= MaxDirtyCount + Cardinality(d \cap DefaultKeys),
         disk.file \in Snapshots => n <= MaxDirtyCount,
         disk.file # Torn => \A k \in Present(s) \ (d \cup w) : disk.file # Missing /\ disk.file[k] = s[k],
         SaveOf(s, d, n, w), running' \in BOOLEAN, failed' \in BOOLEAN
  PROVE  StateInv'
<1>1. StateTyped
  BY DEF StateInv
<1>2. /\ mem' = s /\ known' \in 0..2 /\ decayed' \in BOOLEAN /\ waived' \subseteq Keys
      /\ disk' \in [file : Files, bak0 : Files, bak1 : Files]
      /\ \/ disk'.file = disk.file /\ dirty' = d /\ dirtyCount' = n /\ decayed' = decayed
            /\ waived' = w
         \/ disk'.file = s /\ dirty' = {} /\ dirtyCount' = n - Cardinality(d)
  BY <1>1, SaveEffect, Zenon
<1>3. d \in SUBSET Keys /\ d \cap DefaultKeys \in SUBSET d /\ {} \cap DefaultKeys = {} /\ MaxDirtyCount \in Nat
  BY StateAssumption DEF Present
<1>4. Cardinality(d) \in Nat /\ Cardinality(d \cap DefaultKeys) \in Nat
      /\ Cardinality(d \cap DefaultKeys) <= Cardinality(d)
  BY <1>3, Monotone
<1>5. CASE disk'.file = disk.file /\ dirty' = d /\ dirtyCount' = n /\ decayed' = decayed /\ waived' = w
  <2>1. StateTyped'
    BY <1>2, <1>5 DEF StateTyped
  <2>2. CountCovers'
    BY <1>2, <1>5 DEF CountCovers
  <2> QED BY <1>2, <1>5, <2>1, <2>2 DEF StateInv, FileIsWhole, CleanIsSaved
<1>6. CASE disk'.file = s /\ dirty' = {} /\ dirtyCount' = n - Cardinality(d)
  <2>1. dirtyCount' \in Nat /\ dirtyCount' <= MaxDirtyCount
    BY <1>3, <1>4, <1>6
  <2>2. StateTyped'
    BY <1>2, <2>1 DEF StateTyped
  <2>3. CountCovers'
    BY <1>2, <1>3, <1>6, <2>1, NothingIsEmpty DEF CountCovers
  <2> QED BY <1>2, <1>6, <2>2, <2>3, FilesApart DEF StateInv, FileIsWhole, CleanIsSaved
<1> QED BY <1>2, <1>5, <1>6

LEMMA LoadDefaultsKeeps ==
  ASSUME EntriesFit, StateInv, running, LoadDefaults,
         disk.file \in Snapshots => dirtyCount + Cardinality(Defaults) <= MaxDirtyCount,
         running' \in BOOLEAN, failed' \in BOOLEAN
  PROVE  StateInv'
<1> DEFINE new == Defaults
           s == [k \in Keys |-> IF k \in new THEN 1 ELSE mem[k]]
<1>1. mem \in [Keys -> 0..MaxVersion] /\ MaxVersion \in Nat \ {0} /\ DefaultKeys \subseteq Keys
      /\ MaxDirtyCount \in Nat /\ dirty \subseteq Present(mem) /\ dirtyCount \in Nat
      /\ Cardinality(dirty) <= dirtyCount
      /\ dirtyCount <= MaxDirtyCount + Cardinality(dirty \cap DefaultKeys)
  BY StateAssumption DEF StateInv, StateTyped, CountCovers, Snapshots
<1>2. s \in Snapshots /\ Present(s) = Present(mem) \cup new
  BY <1>1 DEF Snapshots, Present, Defaults
<1>3. dirty \in SUBSET Keys /\ new \in SUBSET Keys /\ dirty \cap new = {}
      /\ (dirty \cup new) \cap DefaultKeys = (dirty \cap DefaultKeys) \cup new
      /\ (dirty \cap DefaultKeys) \cap new = {} /\ dirty \cap DefaultKeys \in SUBSET Keys
  BY <1>1 DEF Present, Defaults
<1>4. IsFiniteSet(dirty) /\ IsFiniteSet(new) /\ IsFiniteSet(dirty \cap DefaultKeys)
      /\ Cardinality(dirty) \in Nat /\ Cardinality(new) \in Nat /\ Cardinality(dirty \cap DefaultKeys) \in Nat
  BY <1>3, KeysFinite
<1>5. Cardinality(dirty \cup new) = Cardinality(dirty) + Cardinality(new)
  BY <1>3, <1>4, Disjoint
<1>6. Cardinality((dirty \cup new) \cap DefaultKeys) = Cardinality(dirty \cap DefaultKeys) + Cardinality(new)
  BY <1>3, <1>4, Disjoint
<1>7. SaveOf(s, dirty \cup new, dirtyCount + Cardinality(new), waived)
  BY DEF LoadDefaults
<1>8. disk.file # Torn => \A k \in Present(s) \ ((dirty \cup new) \cup waived) : disk.file # Missing /\ disk.file[k] = s[k]
  <2>1. \A k \in Present(s) \ ((dirty \cup new) \cup waived) :
          k \in Present(mem) \ (dirty \cup waived) /\ s[k] = mem[k]
    BY <1>2 DEF Present
  <2> QED BY <2>1 DEF StateInv, CleanIsSaved
<1>9. dirtyCount + Cardinality(new) \in Nat /\ dirty \cup new \in SUBSET Present(s)
      /\ waived \in SUBSET Keys /\ (disk.file \in Snapshots => dirtyCount + Cardinality(new) <= MaxDirtyCount)
  BY <1>1, <1>2, <1>4 DEF StateInv, StateTyped
<1> HIDE DEF new, s
<1> QED BY <1>1, <1>2, <1>4, <1>5, <1>6, <1>7, <1>8, <1>9, SaveKeeps

LEMMA RecoverKeeps ==
  ASSUME EntriesFit, StateInv, Recover, running' \in BOOLEAN
  PROVE  StateInv'
<1>1. PICK f \in Usable : Readable(f) /\ SaveOf(f, {}, 0, Present(f)) /\ failed' = FALSE
  BY DEF Recover
<1>2. f \in Snapshots /\ {} \in SUBSET Present(f) /\ {} \cap DefaultKeys = {} /\ MaxDirtyCount \in Nat
      /\ 0 \in Nat /\ failed' \in BOOLEAN /\ Present(f) \in SUBSET Keys
  BY <1>1, StateAssumption DEF Readable, StateInv, StateTyped, Present
<1>3. Present(f) \ ({} \cup Present(f)) = {}
  OBVIOUS
<1> QED BY <1>1, <1>2, <1>3, NothingIsEmpty, SaveKeeps

LEMMA LoadWholeKeeps ==
  ASSUME StateInv, LoadWhole, running' = running
  PROVE  StateInv'
<1>1. /\ disk.file \in Snapshots /\ disk' = disk /\ dirtyCount' = dirtyCount /\ known' = known
      /\ failed' = FALSE /\ decayed' = decayed
      /\ mem' = [k \in Keys |-> IF disk.file[k] > 0 THEN disk.file[k] ELSE mem[k]]
      /\ dirty' = dirty \ Present(disk.file) /\ waived' = waived \ Present(disk.file)
  BY DEF LoadWhole, Readable
<1>2. mem \in [Keys -> 0..MaxVersion] /\ disk.file \in [Keys -> 0..MaxVersion] /\ MaxVersion \in Nat
      /\ dirty \subseteq Present(mem) /\ dirty \subseteq Keys
  BY <1>1, StateAssumption DEF StateInv, StateTyped, CountCovers, Snapshots, Present
<1>3. mem' \in Snapshots /\ dirty' \subseteq Present(mem')
  BY <1>1, <1>2 DEF Snapshots, Present
<1>4. Cardinality(dirty') <= dirtyCount' /\ dirtyCount' <= MaxDirtyCount
  <2>1. dirty \in SUBSET Keys /\ dirty' \in SUBSET dirty
    BY <1>1, <1>2
  <2>2. Cardinality(dirty') <= Cardinality(dirty) /\ Cardinality(dirty') \in Nat /\ Cardinality(dirty) \in Nat
    BY <2>1, Monotone
  <2> QED BY <1>1, <2>2 DEF StateInv, CountCovers, StateTyped
<1>5. Cardinality(dirty' \cap DefaultKeys) \in Nat /\ MaxDirtyCount \in Nat
  <2>1. dirty' \cap DefaultKeys \in SUBSET Keys
    BY <1>1, <1>2
  <2> QED BY <2>1, KeysFinite, StateAssumption
<1>6. CountCovers'
  BY <1>1, <1>3, <1>4, <1>5 DEF CountCovers, StateInv, StateTyped
<1>7. StateTyped'
  BY <1>1, <1>3 DEF StateInv, StateTyped
<1>8. CleanIsSaved'
  <2> SUFFICES ASSUME running, NEW k \in Present(mem') \ (dirty' \cup waived')
               PROVE  disk.file # Missing /\ disk.file[k] = mem'[k]
    BY <1>1 DEF CleanIsSaved
  <2>1. k \in Keys /\ (k \in Present(disk.file) \/ k \notin dirty \cup waived) /\ disk.file # Missing
        /\ disk.file # Torn
    BY <1>1, FilesApart DEF Present
  <2>2. CASE disk.file[k] > 0
    BY <1>1, <2>1, <2>2
  <2>3. CASE ~(disk.file[k] > 0)
    <3>1. mem'[k] = mem[k] /\ k \in Present(mem) /\ k \notin dirty \cup waived
      BY <1>1, <2>1, <2>3 DEF Present
    <3> QED BY <2>1, <3>1 DEF StateInv, CleanIsSaved
  <2> QED BY <2>2, <2>3
<1> QED BY <1>1, <1>6, <1>7, <1>8 DEF StateInv, FileIsWhole

(* The entries of memory: one is created, changed or marked, or one goes.  *)
LEMMA DirtiedKeeps ==
  ASSUME StateInv, NEW k \in Keys, dirtyCount < MaxDirtyCount, running,
         mem' \in Snapshots, k \in Present(mem'), Present(mem) \subseteq Present(mem'),
         \A j \in Keys \ {k} : mem'[j] = mem[j],
         dirty' = dirty \cup {k}, dirtyCount' = dirtyCount + 1,
         waived \ {k} \subseteq waived', waived' \subseteq waived,
         UNCHANGED <<disk, known, running, decayed>> /\ failed' = FALSE
  PROVE  StateInv'
<1>1. dirty \in SUBSET Keys /\ dirty \subseteq Present(mem) /\ dirtyCount \in Nat /\ MaxDirtyCount \in Nat
  BY StateAssumption DEF StateInv, CountCovers, StateTyped, Present
<1>2. Cardinality(dirty') <= dirtyCount' /\ dirtyCount' <= MaxDirtyCount
  <2>1. Cardinality(dirty \cup {k}) <= Cardinality(dirty) + 1 /\ Cardinality(dirty \cup {k}) \in Nat
        /\ Cardinality(dirty) \in Nat
    BY <1>1, OneMore, KeysFinite
  <2> QED BY <1>1, <2>1 DEF StateInv, CountCovers
<1>3. Cardinality(dirty' \cap DefaultKeys) \in Nat
  <2>1. dirty' \cap DefaultKeys \in SUBSET Keys
    BY <1>1
  <2> QED BY <2>1, KeysFinite
<1>4. dirty' \subseteq Present(mem')
  BY <1>1
<1>5. StateTyped'
  <2>1. failed' \in BOOLEAN /\ running' \in BOOLEAN /\ decayed' \in BOOLEAN
    BY Zenon DEF StateInv, StateTyped
  <2> QED BY <1>1, <2>1 DEF StateInv, StateTyped
<1>6. CountCovers'
  BY <1>1, <1>2, <1>3, <1>4 DEF CountCovers
<1>7. CleanIsSaved'
  <2>1. \A j \in Present(mem') \ (dirty' \cup waived') :
          j \in Present(mem) \ (dirty \cup waived) /\ mem'[j] = mem[j]
    BY DEF Present
  <2> QED BY <2>1 DEF StateInv, CleanIsSaved
<1> QED BY <1>5, <1>6, <1>7 DEF StateInv, FileIsWhole

LEMMA DeleteKeeps == ASSUME StateInv, NEW k \in Keys, DeleteEntry(k) PROVE StateInv'
<1>1. /\ running /\ mem[k] > 0 /\ mem' = [mem EXCEPT ![k] = 0] /\ dirty' = dirty \ {k}
      /\ dirtyCount' = (IF k \in dirty THEN dirtyCount - 1 ELSE dirtyCount)
      /\ waived' = waived \ {k}
      /\ UNCHANGED <<disk, known, running, decayed>> /\ failed' = FALSE
  BY DEF DeleteEntry
<1>2. dirty \in SUBSET Keys /\ dirtyCount \in Nat /\ MaxDirtyCount \in Nat
      /\ mem \in [Keys -> 0..MaxVersion] /\ MaxVersion \in Nat
      /\ Cardinality(dirty) <= dirtyCount
      /\ dirtyCount <= MaxDirtyCount + Cardinality(dirty \cap DefaultKeys)
  BY StateAssumption DEF StateInv, CountCovers, StateTyped, Present, Snapshots
<1>3. mem' \in Snapshots /\ Present(mem') = Present(mem) \ {k} /\ \A j \in Keys \ {k} : mem'[j] = mem[j]
  BY <1>1, <1>2 DEF Snapshots, Present
<1>4. CASE k \notin dirty
  <2>1. dirty' = dirty /\ dirtyCount' = dirtyCount
    BY <1>1, <1>4
  <2>2. StateTyped' /\ CountCovers'
    BY <1>1, <1>3, <1>4, <2>1 DEF StateInv, StateTyped, CountCovers
  <2>3. \A j \in Present(mem') \ (dirty' \cup waived') :
          j \in Present(mem) \ (dirty \cup waived) /\ mem'[j] = mem[j]
    BY <1>1, <1>3, <2>1 DEF Present
  <2> QED BY <1>1, <2>2, <2>3 DEF StateInv, FileIsWhole, CleanIsSaved
<1>5. CASE k \in dirty
  <2>1. Cardinality(dirty \ {k}) = Cardinality(dirty) - 1 /\ Cardinality(dirty \ {k}) \in Nat
        /\ Cardinality(dirty) \in Nat
    BY <1>2, <1>5, OneMore, KeysFinite
  <2>2. dirtyCount' = dirtyCount - 1 /\ dirtyCount' \in Nat /\ Cardinality(dirty') <= dirtyCount'
    BY <1>1, <1>2, <1>5, <2>1
  <2>3. dirtyCount' <= MaxDirtyCount + Cardinality(dirty' \cap DefaultKeys)
    <3>1. dirty \cap DefaultKeys \in SUBSET Keys
          /\ dirty' \cap DefaultKeys = (dirty \cap DefaultKeys) \ {k}
      BY <1>1, <1>2
    <3>2. Cardinality(dirty' \cap DefaultKeys) >= Cardinality(dirty \cap DefaultKeys) - 1
          /\ Cardinality(dirty' \cap DefaultKeys) \in Nat /\ Cardinality(dirty \cap DefaultKeys) \in Nat
      <4> DEFINE S == dirty \cap DefaultKeys
      <4>1. /\ Cardinality(S) \in Nat /\ Cardinality(S \ {k}) \in Nat
            /\ k \in S => Cardinality(S \ {k}) = Cardinality(S) - 1
            /\ k \notin S => S \ {k} = S
        BY <3>1, OneMore, KeysFinite
      <4>2. Cardinality(dirty' \cap DefaultKeys) = Cardinality(S \ {k})
        BY <3>1
      <4> HIDE DEF S
      <4>3. Cardinality(S \ {k}) >= Cardinality(S) - 1
        BY <4>1
      <4> QED BY <4>1, <4>2, <4>3 DEF S
    <3> QED BY <1>2, <2>2, <3>2
  <2>4. dirty' \subseteq Present(mem')
    BY <1>1, <1>3 DEF StateInv, CountCovers
  <2>5. disk'.file \in Snapshots => dirtyCount' <= MaxDirtyCount
    BY <1>1, <1>2, <2>2 DEF StateInv, CountCovers
  <2>6. StateTyped' /\ CountCovers'
    BY <1>1, <1>3, <2>2, <2>3, <2>4, <2>5 DEF StateInv, StateTyped, CountCovers
  <2>7. \A j \in Present(mem') \ (dirty' \cup waived') :
          j \in Present(mem) \ (dirty \cup waived) /\ mem'[j] = mem[j]
    BY <1>1, <1>3 DEF Present
  <2> QED BY <1>1, <2>6, <2>7 DEF StateInv, FileIsWhole, CleanIsSaved
<1> QED BY <1>4, <1>5

LEMMA MarkCleanKeeps == ASSUME StateInv, NEW k \in Keys, MarkClean(k) PROVE StateInv'
<1>1. /\ running /\ k \in dirty /\ dirty' = dirty \ {k} /\ dirtyCount' = dirtyCount - 1
      /\ waived' = waived \cup {k}
      /\ UNCHANGED <<mem, disk, known, running, decayed>> /\ failed' = FALSE
  BY DEF MarkClean
<1>2. dirty \in SUBSET Keys /\ dirtyCount \in Nat /\ MaxDirtyCount \in Nat
      /\ Cardinality(dirty) <= dirtyCount
      /\ dirtyCount <= MaxDirtyCount + Cardinality(dirty \cap DefaultKeys)
  BY StateAssumption DEF StateInv, CountCovers, StateTyped, Present
<1>3. Cardinality(dirty \ {k}) = Cardinality(dirty) - 1 /\ Cardinality(dirty \ {k}) \in Nat
      /\ Cardinality(dirty) \in Nat
  BY <1>1, <1>2, OneMore, KeysFinite
<1>4. Cardinality(dirty' \cap DefaultKeys) >= Cardinality(dirty \cap DefaultKeys) - 1
      /\ Cardinality(dirty' \cap DefaultKeys) \in Nat /\ Cardinality(dirty \cap DefaultKeys) \in Nat
  <2> DEFINE S == dirty \cap DefaultKeys
  <2>1. S \in SUBSET Keys /\ dirty' \cap DefaultKeys = S \ {k}
    BY <1>1, <1>2
  <2>2. /\ Cardinality(S) \in Nat /\ Cardinality(S \ {k}) \in Nat
        /\ k \in S => Cardinality(S \ {k}) = Cardinality(S) - 1
        /\ k \notin S => S \ {k} = S
    BY <2>1, OneMore, KeysFinite
  <2>3. Cardinality(dirty' \cap DefaultKeys) = Cardinality(S \ {k})
    BY <2>1
  <2> HIDE DEF S
  <2>4. Cardinality(S \ {k}) >= Cardinality(S) - 1
    BY <2>2
  <2> QED BY <2>2, <2>3, <2>4 DEF S
<1>5. dirtyCount' \in Nat /\ Cardinality(dirty') <= dirtyCount'
      /\ dirtyCount' <= MaxDirtyCount + Cardinality(dirty' \cap DefaultKeys)
      /\ (disk'.file \in Snapshots => dirtyCount' <= MaxDirtyCount)
  BY <1>1, <1>2, <1>3, <1>4 DEF StateInv, CountCovers
<1>6. StateTyped' /\ CountCovers'
  BY <1>1, <1>5 DEF StateInv, StateTyped, CountCovers
<1>7. dirty' \cup waived' = dirty \cup waived
  BY <1>1
<1> QED BY <1>1, <1>6, <1>7 DEF StateInv, FileIsWhole, CleanIsSaved

LEMMA StateStepHolds ==
  ASSUME EntriesFit, StateInv, [StateNext]_stateVars
  PROVE  StateInv'
<1>1. /\ mem \in [Keys -> 0..MaxVersion] /\ MaxVersion \in Nat \ {0} /\ mem \in Snapshots
      /\ dirty \subseteq Present(mem) /\ dirtyCount \in Nat /\ Cardinality(dirty) <= dirtyCount
      /\ dirtyCount <= MaxDirtyCount + Cardinality(dirty \cap DefaultKeys)
      /\ disk.file \in Snapshots => dirtyCount <= MaxDirtyCount
      /\ running \in BOOLEAN /\ failed \in BOOLEAN
  BY StateAssumption DEF StateInv, StateTyped, CountCovers, Snapshots
<1>2. CASE \E k \in Keys : CreateEntry(k) \/ UpdateEntry(k) \/ MarkDirty(k)
  <2>1. PICK k \in Keys : CreateEntry(k) \/ UpdateEntry(k) \/ MarkDirty(k)
    BY <1>2
  <2>2. /\ mem' \in Snapshots /\ k \in Present(mem') /\ Present(mem) \subseteq Present(mem')
        /\ \A j \in Keys \ {k} : mem'[j] = mem[j]
    BY <1>1, <2>1 DEF CreateEntry, UpdateEntry, MarkDirty, Snapshots, Present
  <2>3. /\ running /\ dirtyCount < MaxDirtyCount
        /\ dirty' = dirty \cup {k} /\ dirtyCount' = dirtyCount + 1
        /\ waived \ {k} \subseteq waived' /\ waived' \subseteq waived
        /\ UNCHANGED <<disk, known, running, decayed>> /\ failed' = FALSE
    BY <2>1 DEF CreateEntry, UpdateEntry, MarkDirty
  <2> QED BY <2>2, <2>3, DirtiedKeeps
<1>3. CASE \E k \in Keys : DeleteEntry(k)
  BY <1>3, DeleteKeeps
<1>4. ASSUME SaveOf(mem, dirty, dirtyCount, waived), running, running' \in BOOLEAN, failed' \in BOOLEAN
      PROVE  StateInv'
  <2>1. disk.file # Torn => \A k \in Present(mem) \ (dirty \cup waived) : disk.file # Missing /\ disk.file[k] = mem[k]
    BY <1>4 DEF StateInv, CleanIsSaved
  <2>2. waived \in SUBSET Keys
    BY DEF StateInv, StateTyped
  <2> QED BY <1>1, <1>4, <2>1, <2>2, SaveKeeps
<1>5. CASE Save
  BY <1>1, <1>4, <1>5 DEF Save
<1>6. CASE Load
  <2>1. CASE disk.file = Missing /\ LoadDefaults /\ failed' = FALSE
    BY <1>1, <1>6, <2>1, FilesApart, LoadDefaultsKeeps DEF Load
  <2>2. CASE LoadTorn
    <3>1. CASE Recover
      BY <1>1, <1>6, <2>2, <3>1, RecoverKeeps DEF Load, LoadTorn
    <3>2. CASE LoadDefaults /\ failed' = TRUE
      BY <1>1, <1>6, <2>2, <3>2, FilesApart, LoadDefaultsKeeps DEF Load, LoadTorn
    <3> QED BY <2>2, <3>1, <3>2 DEF LoadTorn
  <2>3. CASE LoadWhole
    BY <1>6, <2>3, LoadWholeKeeps DEF Load
  <2> QED BY <1>6, <2>1, <2>2, <2>3 DEF Load
<1>8. /\ Shifted \in [file : Files, bak0 : Files, bak1 : Files] /\ Shifted.file = disk.file
      /\ BackedUp \in [file : Files, bak0 : Files, bak1 : Files] /\ BackedUp.file = disk.file
      /\ disk \in [file : Files, bak0 : Files, bak1 : Files] /\ Torn \in Files
  <2>1. Missing \in Files /\ Torn \in Files /\ disk.bak0 \in Files /\ disk.file \in Files
        /\ disk \in [file : Files, bak0 : Files, bak1 : Files]
    BY DEF Files, StateInv, StateTyped
  <2>2. Shifted \in [file : Files, bak0 : Files, bak1 : Files] /\ Shifted.file = disk.file
    BY <2>1 DEF Shifted
  <2>3. BackedUp \in [file : Files, bak0 : Files, bak1 : Files] /\ BackedUp.file = disk.file
    BY <2>1, <2>2 DEF BackedUp
  <2> QED BY <2>1, <2>2, <2>3
<1>17. ASSUME Forgotten, disk' \in [file : Files, bak0 : Files, bak1 : Files],
              disk'.file = Torn => decayed', running' \in BOOLEAN, decayed' \in BOOLEAN
       PROVE  StateInv'
  <2>1. NoEntries \in Snapshots /\ Present(NoEntries) = {} /\ {} \cap DefaultKeys = {} /\ MaxDirtyCount \in Nat
    BY <1>1, StateAssumption DEF NoEntries, Snapshots, Present
  <2>2. failed' \in BOOLEAN /\ decayed' \in BOOLEAN
    BY <1>17, Zenon DEF Forgotten
  <2>3. StateTyped'
    BY <1>17, <2>1, <2>2 DEF Forgotten, StateInv, StateTyped
  <2>4. CountCovers'
    BY <1>17, <2>1, NothingIsEmpty DEF Forgotten, CountCovers
  <2> QED BY <1>17, <2>1, <2>3, <2>4 DEF Forgotten, StateInv, FileIsWhole, CleanIsSaved
<1>7. CASE Shutdown
  <2>1. CASE UNCHANGED <<disk, decayed>>
    BY <1>7, <1>17, <2>1 DEF Shutdown, StateInv, StateTyped, FileIsWhole
  <2>2. CASE \E o \in Outcomes(mem) : disk' = o.disk /\ decayed' = (decayed /\ ~o.ok)
    <3>1. PICK o \in Outcomes(mem) : disk' = o.disk /\ decayed' = (decayed /\ ~o.ok)
      BY <2>2
    <3>4. /\ o.disk \in [file : Files, bak0 : Files, bak1 : Files]
          /\ (~o.ok /\ o.disk.file = disk.file) \/ (o.ok /\ o.disk.file = mem)
      BY <1>1, <3>1, SaveOutcome, Zenon DEF StateInv
    <3>2. /\ disk' \in [file : Files, bak0 : Files, bak1 : Files]
          /\ (~o.ok /\ disk'.file = disk.file) \/ (o.ok /\ disk'.file = mem)
      BY <3>1, <3>4
    <3>3. (disk'.file = Torn => decayed') /\ decayed' \in BOOLEAN
      BY <1>1, <3>1, <3>2, FilesApart DEF StateInv, StateTyped, FileIsWhole
    <3> QED BY <1>7, <1>17, <3>2, <3>3 DEF Shutdown
  <2> QED BY <1>7, <2>1, <2>2 DEF Shutdown
<1>9. CASE Crash
  <2>1. disk' \in [file : Files, bak0 : Files, bak1 : Files] /\ disk'.file = disk.file
    BY <1>8, <1>9 DEF Crash, CutShort
  <2> QED BY <1>9, <1>17, <2>1 DEF Crash, StateInv, StateTyped, FileIsWhole
<1>10. CASE Restart
  BY <1>10, <1>17 DEF Restart, StateInv, StateTyped, FileIsWhole
<1>11. CASE Decay
  <2>1. disk' \in [file : Files, bak0 : Files, bak1 : Files] /\ disk'.file = Torn
    BY <1>11 DEF Decay, StateInv, StateTyped, Files
  <2> QED BY <1>11, <2>1, FilesApart
        DEF Decay, StateInv, StateTyped, CountCovers, FileIsWhole, CleanIsSaved, Present
<1>12. CASE SaveBackup
  <2>1. disk' \in [file : Files, bak0 : Files, bak1 : Files] /\ disk'.file = disk.file /\ known' \in 0..2
    BY <1>8, <1>12 DEF SaveBackup, KnownAfter, StateInv, StateTyped
  <2> QED BY <1>12, <2>1 DEF SaveBackup, StateInv, StateTyped, CountCovers, FileIsWhole, CleanIsSaved, Present
<1>13. CASE CallDefaults
  BY <1>1, <1>13, LoadDefaultsKeeps DEF CallDefaults
<1>14. CASE CallRecover
  <2>1. CASE Recover
    BY <1>1, <1>14, <2>1, RecoverKeeps DEF CallRecover
  <2>2. CASE failed' = TRUE /\ UNCHANGED <<mem, dirty, dirtyCount, disk, known, decayed, waived>>
    BY <1>14, <2>2 DEF CallRecover, StateInv, StateTyped, CountCovers, FileIsWhole, CleanIsSaved, Present
  <2> QED BY <1>14, <2>1, <2>2 DEF CallRecover
<1>15. CASE \E k \in Keys : MarkClean(k)
  BY <1>15, MarkCleanKeeps
<1>16. CASE UNCHANGED stateVars
  BY <1>16 DEF stateVars, StateInv, StateTyped, CountCovers, FileIsWhole, CleanIsSaved, Present
<1> QED
  BY <1>2, <1>3, <1>5, <1>6, <1>7, <1>9, <1>10, <1>11, <1>12, <1>13, <1>14, <1>15, <1>16
  DEF StateNext

LEMMA StateInvSuffices == StateInv => SavedForGood
<1> SUFFICES ASSUME StateInv PROVE SavedForGood OBVIOUS
<1>1. dirty \in SUBSET Keys /\ dirty \cap DefaultKeys \in SUBSET DefaultKeys /\ DefaultKeys \in SUBSET Keys
      /\ MaxDirtyCount \in Nat
  BY StateAssumption DEF StateInv, CountCovers, Present
<1>2. Cardinality(dirty \cap DefaultKeys) <= Cardinality(DefaultKeys)
      /\ Cardinality(dirty \cap DefaultKeys) \in Nat /\ Cardinality(DefaultKeys) \in Nat
  BY <1>1, Monotone
<1>3. dirtyCount \in 0..(MaxDirtyCount + Cardinality(DefaultKeys))
  BY <1>1, <1>2 DEF StateInv, StateTyped, CountCovers
<1> QED BY <1>1, <1>3 DEF StateInv, StateTyped, CountCovers, SavedForGood, StateTypeOK, DirtyIsCounted

(* Over saves that fail or are cut short at any point, restarts, loads,    *)
(* defaults, recoveries from a backup and a disk that loses the file: the  *)
(* file is whole, an entry called clean by a save or a load is in it as it *)
(* is, and the count of dirty entries that shutdown goes by misses none    *)
(* (ozayn_state_save, ozayn_state_load) - as long as the entries fit into  *)
(* the buffer.  An entry called clean on a caller's word, or recovered by  *)
(* a recovery whose save fails, is not claimed to be in the file.          *)
THEOREM SavedIsForGood == ASSUME EntriesFit PROVE ContinuitySpec => []SavedForGood
<1>1. ContinuityInit => StateInv
  BY StateInitHolds DEF ContinuityInit
<1>2. StateInv /\ [ContinuityNext]_continuityVars => StateInv'
  BY EachKeepsItsOwn, StateStepHolds
<1>3. QED
  BY <1>1, <1>2, StateInvSuffices, PTL DEF ContinuitySpec, continuityVars

-----------------------------------------------------------------------------
(* Workflow checkpoints                                                    *)

LEMMA HasGreatest ==
  ASSUME NEW n \in Nat, NEW T \in SUBSET (0..n), T # {}
  PROVE  \E x \in T : \A y \in T : y <= x
<1> DEFINE before == OpToRel(<, Nat)
           short == {n - x : x \in T}
<1>1. IsWellFoundedOn(before, Nat)
  BY NatLessThanWellFounded
<1>2. \A x, y \in Nat : <<y, x>> \in before <=> y < x
  BY DEF OpToRel
<1>3. short \in SUBSET Nat /\ short # {}
  <2>1. \A x \in T : n - x \in Nat
    OBVIOUS
  <2> QED BY <2>1
<1> HIDE DEF before, short
<1>4. PICK m \in short : \A k \in short : <<k, m>> \notin before
  BY <1>1, <1>3, WFMin
<1>5. \A k \in short : ~(k < m)
  BY <1>2, <1>3, <1>4
<1>6. PICK x \in T : m = n - x
  BY DEF short
<1>7. \A y \in T : n - y \in short
  BY DEF short
<1> QED BY <1>5, <1>6, <1>7

Checkpoint == [workflow : Workflows, state : CpStates, age : 0..CheckpointAge + 1,
               commit : {"NO", "BEFORE", "AFTER"}]

(* What makes ReconciledFromCommitted inductive: what is valid was         *)
(* committed, what is on its way was not, and nothing of a workflow        *)
(* without a reconciliation was committed after it.                        *)
OnItsWay == {"CREATED", "VALIDATING"}
CommitsMarked ==
  \A n \in DOMAIN checkpoints :
    /\ checkpoints[n].state \in Valid => checkpoints[n].commit # "NO"
    /\ checkpoints[n].state \in OnItsWay => checkpoints[n].commit = "NO"
    /\ reconciliations[checkpoints[n].workflow] = 0 => checkpoints[n].commit # "AFTER"

CheckpointInv == CheckpointTypeOK /\ CommitsMarked /\ ReconciledFromCommitted

LEMMA TableOfCheckpoints ==
  ASSUME CheckpointTypeOK
  PROVE  /\ checkpoints \in Seq(Checkpoint) /\ Len(checkpoints) \in Nat
         /\ DOMAIN checkpoints = 1..Len(checkpoints) /\ Len(checkpoints) <= MaxCheckpoints
         /\ \A n \in DOMAIN checkpoints : checkpoints[n] \in Checkpoint
         /\ reconciliations \in [Workflows -> 0..MaxCheckpoints]
         /\ MaxCheckpoints \in Nat /\ CheckpointAge \in Nat
<1>1. checkpoints \in Seq(Checkpoint) /\ Len(checkpoints) <= MaxCheckpoints
      /\ reconciliations \in [Workflows -> 0..MaxCheckpoints]
  BY DEF CheckpointTypeOK, Checkpoint
<1>2. Len(checkpoints) \in Nat /\ DOMAIN checkpoints = 1..Len(checkpoints)
      /\ \A n \in DOMAIN checkpoints : checkpoints[n] \in Checkpoint
  BY <1>1
<1> QED BY <1>1, <1>2, CheckpointAssumption

(* The newest of the valid checkpoints of a workflow is one of them, and   *)
(* newer than the others.                                                  *)
LEMMA LatestIsNewest ==
  ASSUME CheckpointTypeOK, NEW w \in Workflows
  PROVE  /\ LatestValid(w) \in InState(w, Valid) \cup {0}
         /\ \A m \in InState(w, Valid) : m <= LatestValid(w)
<1> DEFINE valid == InState(w, Valid)
<1>1. valid \cup {0} \in SUBSET (0..Len(checkpoints)) /\ Len(checkpoints) \in Nat
  BY TableOfCheckpoints DEF InState, CpOf
<1>2. \E n \in valid \cup {0} : \A m \in valid \cup {0} : m <= n
  BY <1>1, HasGreatest
<1> QED BY <1>2 DEF LatestValid

(* What every step does to the checkpoints: the table grows at its end by  *)
(* one that is CREATED, or each of them stays, moves on or is committed,   *)
(* or all are gone.                                                        *)
NewCheckpoint(w) == [workflow |-> w, state |-> "CREATED", age |-> 0, commit |-> "NO"]
Onward(cp, new) ==
  /\ new.workflow = cp.workflow
  /\ \/ /\ cp.state = "VALIDATING" /\ new.state = "COMMITTED"
        /\ new.commit = (IF reconciliations[cp.workflow] = 0 THEN "BEFORE" ELSE "AFTER")
     \/ /\ new.commit = cp.commit
        /\ new.state \in Valid => cp.state \in Valid
        /\ new.state \in OnItsWay => cp.state \in OnItsWay
MovedOn ==
  /\ DOMAIN checkpoints' = DOMAIN checkpoints
  /\ checkpoints' = [n \in DOMAIN checkpoints |-> checkpoints'[n]]
  /\ \A n \in DOMAIN checkpoints :
       checkpoints'[n] \in Checkpoint /\ Onward(checkpoints[n], checkpoints'[n])
  /\ reconciliations' = reconciliations

LEMMA MoveMovesOn ==
  ASSUME CheckpointTypeOK, NEW n \in DOMAIN checkpoints, NEW to \in CpStates, MoveCheckpoint(n, to)
  PROVE  MovedOn
<1> DEFINE cp == checkpoints[n]
           com == CommitOf(n, to)
           new == [[cp EXCEPT !.state = to] EXCEPT !.commit = com]
<1>1. /\ checkpoints = [m \in DOMAIN checkpoints |-> checkpoints[m]]
      /\ \A m \in DOMAIN checkpoints : checkpoints[m] \in Checkpoint
  BY TableOfCheckpoints
<1>2. <<cp.state, to>> \in CpMoves /\ reconciliations' = reconciliations
      /\ checkpoints' = [checkpoints EXCEPT ![n] = new]
  BY <1>1 DEF MoveCheckpoint, Checkpoint
<1>3. com \in {"NO", "BEFORE", "AFTER"}
      /\ (to # "COMMITTED" => com = cp.commit)
      /\ (to = "COMMITTED" => com = (IF reconciliations[cp.workflow] = 0 THEN "BEFORE" ELSE "AFTER"))
  BY <1>1 DEF CommitOf, Checkpoint
<1>4. (to = "COMMITTED" => cp.state = "VALIDATING") /\ to \notin {"RECOVERY_REQUIRED", "CREATED"}
      /\ (to = "VALIDATING" => cp.state = "CREATED")
  BY <1>2 DEF CpMoves, CpStates, FinalStates
<1> HIDE DEF com
<1>5. new \in Checkpoint /\ new.state = to /\ new.commit = com /\ new.workflow = cp.workflow
  BY <1>1, <1>3 DEF Checkpoint
<1>6. Onward(cp, new)
  BY <1>3, <1>4, <1>5 DEF Onward, Valid, OnItsWay
<1>7. \A m \in DOMAIN checkpoints : Onward(checkpoints[m], checkpoints[m])
  BY DEF Onward
<1> HIDE DEF new
<1> QED BY <1>1, <1>2, <1>5, <1>6, <1>7 DEF MovedOn

(* The restart, the tick and time change no more than the state of a       *)
(* committed checkpoint, or an age.                                        *)
LEMMA AllMoveOn ==
  ASSUME CheckpointTypeOK, DetectRestart \/ CheckpointElapse \/ \E r, e \in BOOLEAN : Sweep(r, e)
  PROVE  MovedOn
<1>1. \A n \in DOMAIN checkpoints : checkpoints[n] \in Checkpoint
  BY TableOfCheckpoints
<1>2. CASE DetectRestart
  <2>1. \A n \in DOMAIN checkpoints :
          checkpoints'[n] \in Checkpoint /\ Onward(checkpoints[n], checkpoints'[n])
    BY <1>1, <1>2 DEF DetectRestart, Interrupted, Onward, Checkpoint, CpStates, Valid, OnItsWay
  <2> QED BY <1>2, <2>1 DEF DetectRestart, MovedOn
<1>3. CASE CheckpointElapse
  <2>1. \A n \in DOMAIN checkpoints :
          checkpoints'[n] \in Checkpoint /\ Onward(checkpoints[n], checkpoints'[n])
    BY <1>1, <1>3, CheckpointAssumption, SMTT(30) DEF CheckpointElapse, Checkpoint, Onward
  <2> QED BY <1>3, <2>1 DEF CheckpointElapse, MovedOn
<1>4. ASSUME NEW r \in BOOLEAN, NEW e \in BOOLEAN, Sweep(r, e)
      PROVE  MovedOn
  <2>1. \A n \in DOMAIN checkpoints :
          checkpoints'[n] \in Checkpoint /\ Onward(checkpoints[n], checkpoints'[n])
    <3> TAKE n \in DOMAIN checkpoints
    <3> DEFINE s == Swept(n, r, e)
    <3>1. checkpoints'[n] = [checkpoints[n] EXCEPT !.state = s]
      BY <1>4 DEF Sweep
    <3>2. s = checkpoints[n].state \/ s \in {"SUPERSEDED", "EXPIRED"}
      BY DEF Swept
    <3> HIDE DEF s
    <3>3. s \in CpStates
      BY <1>1, <3>2 DEF CpStates, FinalStates, Checkpoint
    <3> QED BY <1>1, <3>1, <3>2, <3>3 DEF Onward, Checkpoint, Valid, OnItsWay
  <2> QED BY <1>4, <2>1 DEF Sweep, MovedOn
<1> QED BY <1>2, <1>3, <1>4

LEMMA CheckpointSteps ==
  ASSUME CheckpointTypeOK, [CheckpointNext]_checkpointVars
  PROVE  \/ /\ \E w \in Workflows : checkpoints' = Append(checkpoints, NewCheckpoint(w))
            /\ HasRoom /\ reconciliations' = reconciliations
         \/ MovedOn
         \/ \E w \in Workflows : Reconcile(w)
         \/ CleanupCheckpoints
<1>1. CASE UNCHANGED checkpointVars
  <2>1. \A n \in DOMAIN checkpoints : checkpoints[n] \in Checkpoint /\ Onward(checkpoints[n], checkpoints[n])
    BY TableOfCheckpoints DEF Onward
  <2>2. checkpoints = [n \in DOMAIN checkpoints |-> checkpoints[n]]
    BY TableOfCheckpoints
  <2> QED BY <1>1, <2>1, <2>2 DEF checkpointVars, MovedOn
<1>2. CASE \E w \in Workflows : CreateCheckpoint(w)
  BY <1>2 DEF CreateCheckpoint, NewCheckpoint
<1>3. CASE \E n \in DOMAIN checkpoints : \E to \in CpStates : MoveCheckpoint(n, to)
  BY <1>3, MoveMovesOn
<1>4. CASE DetectRestart \/ CheckpointElapse \/ CheckpointTick \/ RetentionEnforce
           \/ CleanupExpiredCheckpoints
  BY <1>4, AllMoveOn DEF CheckpointTick, RetentionEnforce, CleanupExpiredCheckpoints
<1> QED BY <1>1, <1>2, <1>3, <1>4 DEF CheckpointNext

LEMMA CheckpointInitHolds == CheckpointInit => CheckpointInv
<1> SUFFICES ASSUME CheckpointInit PROVE CheckpointInv OBVIOUS
<1>1. checkpoints = <<>> /\ (\A w \in Workflows : reconciliations[w] = 0)
      /\ reconciliations \in [Workflows -> 0..MaxCheckpoints] /\ Len(checkpoints) <= MaxCheckpoints
  BY CheckpointAssumption DEF CheckpointInit
<1>2. CheckpointTypeOK
  <2>1. checkpoints \in Seq(Checkpoint)
    BY <1>1
  <2>2. Len(checkpoints) <= MaxCheckpoints /\ reconciliations \in [Workflows -> 0..MaxCheckpoints]
    BY <1>1
  <2> QED BY <2>1, <2>2 DEF CheckpointTypeOK, Checkpoint
<1> QED BY <1>1, <1>2 DEF CheckpointInv, ReconciledFromCommitted, CommitsMarked

LEMMA CheckpointStepHolds == CheckpointInv /\ [CheckpointNext]_checkpointVars => CheckpointInv'
<1> SUFFICES ASSUME CheckpointInv, [CheckpointNext]_checkpointVars PROVE CheckpointInv' OBVIOUS
<1>1. CheckpointTypeOK
  BY DEF CheckpointInv
<1>2. /\ checkpoints \in Seq(Checkpoint) /\ Len(checkpoints) \in Nat
      /\ DOMAIN checkpoints = 1..Len(checkpoints) /\ Len(checkpoints) <= MaxCheckpoints
      /\ \A n \in DOMAIN checkpoints : checkpoints[n] \in Checkpoint
      /\ reconciliations \in [Workflows -> 0..MaxCheckpoints]
      /\ MaxCheckpoints \in Nat /\ CheckpointAge \in Nat
  BY <1>1, TableOfCheckpoints
<1>3. \A w \in Workflows : reconciliations[w] # 0 =>
        /\ reconciliations[w] \in DOMAIN checkpoints
        /\ checkpoints[reconciliations[w]].workflow = w
        /\ checkpoints[reconciliations[w]].commit = "BEFORE"
        /\ \A n \in DOMAIN checkpoints :
             /\ checkpoints[n].workflow = w /\ checkpoints[n].state \in Valid
             /\ n > reconciliations[w]
             => checkpoints[n].commit = "AFTER"
  BY DEF CheckpointInv, ReconciledFromCommitted, CpOf, InState
<1>4. ASSUME NEW w \in Workflows, HasRoom, reconciliations' = reconciliations,
             checkpoints' = Append(checkpoints, NewCheckpoint(w))
      PROVE  CheckpointInv'
  <2>1. NewCheckpoint(w) \in Checkpoint /\ NewCheckpoint(w).state = "CREATED"
        /\ NewCheckpoint(w).commit = "NO"
    BY <1>2 DEF Checkpoint, CpStates, NewCheckpoint
  <2>2. /\ checkpoints' \in Seq(Checkpoint) /\ Len(checkpoints') = Len(checkpoints) + 1
        /\ DOMAIN checkpoints' = DOMAIN checkpoints \cup {Len(checkpoints) + 1}
        /\ \A n \in DOMAIN checkpoints : checkpoints'[n] = checkpoints[n]
        /\ checkpoints'[Len(checkpoints) + 1] = NewCheckpoint(w)
    BY <1>2, <1>4, <2>1
  <2>3. CheckpointTypeOK'
    BY <1>2, <1>4, <2>2 DEF CheckpointTypeOK, Checkpoint, HasRoom
  <2>4. ReconciledFromCommitted'
    BY <1>3, <1>4, <2>1, <2>2 DEF ReconciledFromCommitted, CpOf, InState, Valid
  <2>5. CommitsMarked'
    BY <1>4, <2>1, <2>2 DEF CheckpointInv, CommitsMarked, Valid
  <2> QED BY <2>3, <2>4, <2>5 DEF CheckpointInv
<1>5. ASSUME MovedOn PROVE CheckpointInv'
  <2>1. checkpoints' \in Seq(Checkpoint) /\ Len(checkpoints') = Len(checkpoints)
    BY <1>2, <1>5 DEF MovedOn
  <2>2. CheckpointTypeOK'
    BY <1>2, <1>5, <2>1 DEF CheckpointTypeOK, Checkpoint, MovedOn
  <2>3. /\ DOMAIN checkpoints' = DOMAIN checkpoints /\ reconciliations' = reconciliations
        /\ \A n \in DOMAIN checkpoints : Onward(checkpoints[n], checkpoints'[n])
    BY <1>5 DEF MovedOn
  <2>4. CommitsMarked'
    BY <2>3 DEF CheckpointInv, CommitsMarked, Onward, Valid, OnItsWay
  <2>5. ReconciledFromCommitted'
    <3> SUFFICES ASSUME NEW w \in Workflows, reconciliations[w] # 0
                 PROVE  /\ reconciliations[w] \in DOMAIN checkpoints
                        /\ checkpoints'[reconciliations[w]].workflow = w
                        /\ checkpoints'[reconciliations[w]].commit = "BEFORE"
                        /\ \A n \in DOMAIN checkpoints :
                             /\ checkpoints'[n].workflow = w /\ checkpoints'[n].state \in Valid
                             /\ n > reconciliations[w]
                             => checkpoints'[n].commit = "AFTER"
      BY <2>3 DEF ReconciledFromCommitted, CpOf, InState
    <3>1. checkpoints[reconciliations[w]].state \notin OnItsWay
      BY <1>3 DEF CheckpointInv, CommitsMarked
    <3> QED BY <1>3, <2>3, <3>1 DEF Onward, OnItsWay
  <2> QED BY <2>2, <2>4, <2>5 DEF CheckpointInv
<1>6. ASSUME NEW w \in Workflows, Reconcile(w) PROVE CheckpointInv'
  <2> DEFINE v == LatestValid(w)
  <2>1. v # 0 /\ reconciliations[w] = 0 /\ checkpoints' = checkpoints
        /\ reconciliations' = [reconciliations EXCEPT ![w] = v]
    BY <1>6 DEF Reconcile, Reconcilable
  <2>2. /\ v \in DOMAIN checkpoints /\ checkpoints[v].workflow = w /\ checkpoints[v].state \in Valid
        /\ \A n \in DOMAIN checkpoints :
             checkpoints[n].workflow = w /\ checkpoints[n].state \in Valid => n <= v
    BY <1>1, <2>1, LatestIsNewest DEF InState, CpOf
  <2> HIDE DEF v
  <2>3. v \in 0..MaxCheckpoints
    BY <1>2, <2>2
  <2>4. checkpoints[v].commit = "BEFORE"
    BY <1>2, <2>1, <2>2 DEF CheckpointInv, CommitsMarked, Checkpoint
  <2>5. CheckpointTypeOK'
    BY <1>2, <2>1, <2>3 DEF CheckpointTypeOK, Checkpoint
  <2>6. CommitsMarked'
    BY <1>2, <2>1 DEF CheckpointInv, CommitsMarked, Checkpoint
  <2>7. ReconciledFromCommitted'
    <3>1. \A u \in Workflows : reconciliations'[u] = IF u = w THEN v ELSE reconciliations[u]
      BY <1>2, <2>1
    <3>2. \A n \in DOMAIN checkpoints : n \in Nat
      BY <1>2
    <3> QED BY <1>3, <2>1, <2>2, <2>4, <3>1, <3>2 DEF ReconciledFromCommitted, CpOf, InState
  <2> QED BY <2>5, <2>6, <2>7 DEF CheckpointInv
<1>7. CASE CleanupCheckpoints
  <2>1. Len(checkpoints') = 0 /\ DOMAIN checkpoints' = {} /\ (\A w \in Workflows : reconciliations'[w] = 0)
        /\ reconciliations' \in [Workflows -> 0..MaxCheckpoints] /\ checkpoints' = <<>>
    BY <1>2, <1>7 DEF CleanupCheckpoints
  <2>2. CheckpointTypeOK'
    BY <1>2, <2>1 DEF CheckpointTypeOK
  <2> QED BY <2>1, <2>2 DEF CheckpointInv, ReconciledFromCommitted, CommitsMarked
<1> QED
  BY <1>1, <1>4, <1>5, <1>6, <1>7, CheckpointSteps

LEMMA WithdrawnStays ==
  ASSUME CheckpointInv, [CheckpointNext]_checkpointVars, NEW n \in DOMAIN checkpoints, Withdrawn(n)
  PROVE  CleanupCheckpoints \/ (Withdrawn(n)' /\ ~ReconciledTo(n))
<1>1. /\ CheckpointTypeOK /\ checkpoints[n].state \notin OnItsWay
      /\ checkpoints[n].commit # "NO" /\ checkpoints[n].state \notin Valid
  BY DEF CheckpointInv, CommitsMarked, Withdrawn
<1>2. /\ checkpoints \in Seq(Checkpoint) /\ DOMAIN checkpoints = 1..Len(checkpoints)
      /\ Len(checkpoints) \in Nat /\ reconciliations \in [Workflows -> 0..MaxCheckpoints]
  BY <1>1, TableOfCheckpoints
<1>3. ASSUME NEW w, checkpoints' = Append(checkpoints, NewCheckpoint(w)), reconciliations' = reconciliations
      PROVE  Withdrawn(n)' /\ ~ReconciledTo(n)
  <2>1. checkpoints'[n] = checkpoints[n]
    BY <1>2, <1>3
  <2> QED BY <1>1, <1>3, <2>1 DEF Withdrawn, ReconciledTo
<1>4. CASE MovedOn
  <2>1. Onward(checkpoints[n], checkpoints'[n]) /\ reconciliations' = reconciliations
    BY <1>4 DEF MovedOn
  <2> QED BY <1>1, <2>1 DEF Withdrawn, ReconciledTo, Onward, OnItsWay
<1>5. ASSUME NEW w \in Workflows, Reconcile(w) PROVE Withdrawn(n)' /\ ~ReconciledTo(n)
  <2> DEFINE v == LatestValid(w)
  <2>1. v # 0 /\ checkpoints' = checkpoints /\ reconciliations' = [reconciliations EXCEPT ![w] = v]
    BY <1>5 DEF Reconcile, Reconcilable
  <2>2. v # n
    BY <1>1, <2>1, LatestIsNewest DEF InState
  <2> HIDE DEF v
  <2> QED BY <1>1, <1>2, <2>1, <2>2 DEF Withdrawn, ReconciledTo
<1> QED BY <1>1, <1>3, <1>4, <1>5, CheckpointSteps

LEMMA RestartKeepsLatest ==
  ASSUME CheckpointInv, DetectRestart, NEW w \in Workflows
  PROVE  LatestValid(w)' = LatestValid(w)
<1>1. DOMAIN checkpoints' = DOMAIN checkpoints
      /\ \A n \in DOMAIN checkpoints :
           /\ checkpoints'[n].workflow = checkpoints[n].workflow
           /\ checkpoints'[n].state \in Valid <=> checkpoints[n].state \in Valid
  BY TableOfCheckpoints DEF CheckpointInv, DetectRestart, Interrupted, Valid, Checkpoint
<1>2. InState(w, Valid)' = InState(w, Valid)
  BY <1>1 DEF InState, CpOf
<1> QED BY <1>2, Zenon DEF LatestValid

LEMMA WaitingStays ==
  ASSUME CheckpointTypeOK, CheckpointTick \/ RetentionEnforce \/ CleanupExpiredCheckpoints,
         NEW n \in DOMAIN checkpoints, Waits(n)
  PROVE  Waits(n)'
<1>1. PICK r \in BOOLEAN, e \in BOOLEAN : Sweep(r, e)
  BY DEF CheckpointTick, RetentionEnforce, CleanupExpiredCheckpoints
<1>2. n \notin Retired(checkpoints[n].workflow) /\ ~AgedOut(checkpoints[n])
  BY DEF Retired, InState, AgedOut, Waits
<1>3. Swept(n, r, e) = "RECOVERY_REQUIRED"
  BY <1>2 DEF Swept, Waits
<1>4. checkpoints[n] \in Checkpoint
  BY TableOfCheckpoints
<1>5. n \in DOMAIN checkpoints' /\ checkpoints'[n].state = "RECOVERY_REQUIRED"
  BY <1>1, <1>3, <1>4 DEF Sweep, Checkpoint
<1> QED BY <1>5 DEF Waits

LEMMA KeptStep ==
  ASSUME CheckpointInv, [CheckpointNext]_checkpointVars
  PROVE  /\ \A n \in DOMAIN checkpoints :
              Withdrawn(n) => CleanupCheckpoints \/ (Withdrawn(n)' /\ ~ReconciledTo(n))
         /\ checkpoints # <<>> /\ DetectRestart => \A w \in Workflows : LatestValid(w)' = LatestValid(w)
         /\ \A n \in DOMAIN checkpoints :
              Waits(n) /\ ~Waits(n)' => ~(CheckpointTick \/ RetentionEnforce \/ CleanupExpiredCheckpoints)
<1>1. ASSUME NEW n \in DOMAIN checkpoints, Withdrawn(n)
      PROVE  CleanupCheckpoints \/ (Withdrawn(n)' /\ ~ReconciledTo(n))
  BY <1>1, WithdrawnStays
<1>2. ASSUME DetectRestart, NEW w \in Workflows PROVE LatestValid(w)' = LatestValid(w)
  BY <1>2, RestartKeepsLatest
<1>3. ASSUME NEW n \in DOMAIN checkpoints, Waits(n),
             CheckpointTick \/ RetentionEnforce \/ CleanupExpiredCheckpoints
      PROVE  Waits(n)'
  BY <1>3, WaitingStays DEF CheckpointInv
<1> QED BY <1>1, <1>2, <1>3

(* No checkpoint that was committed and then withdrawn is valid or newly   *)
(* reconciled with again, a restart leaves each workflow the one it has,   *)
(* and none that waits for its recovery is taken by the tick, the          *)
(* retention or its age (workflow_checkpoint.c), for any number of         *)
(* workflows, slots and limits.                                            *)
THEOREM CheckpointsAreKept == ContinuitySpec => CheckpointsKept
<1>1. ContinuityInit => CheckpointInv
  BY CheckpointInitHolds DEF ContinuityInit
<1>2. CheckpointInv /\ [ContinuityNext]_continuityVars => CheckpointInv'
  BY EachKeepsItsOwn, CheckpointStepHolds
<1>3. CheckpointInv /\ [ContinuityNext]_continuityVars
      => [/\ \A n \in DOMAIN checkpoints :
               Withdrawn(n) => CleanupCheckpoints \/ (Withdrawn(n)' /\ ~ReconciledTo(n))
          /\ checkpoints # <<>> /\ DetectRestart => \A w \in Workflows : LatestValid(w)' = LatestValid(w)
          /\ \A n \in DOMAIN checkpoints :
               Waits(n) /\ ~Waits(n)' => ~(CheckpointTick \/ RetentionEnforce \/ CleanupExpiredCheckpoints)
         ]_checkpointVars
  BY EachKeepsItsOwn, KeptStep
<1> QED
  BY <1>1, <1>2, <1>3, PTL DEF ContinuitySpec, continuityVars, CheckpointsKept

-----------------------------------------------------------------------------
(* Failures and recovery                                                   *)

Fault == [state : FsStates, category : Categories, critical : BOOLEAN,
          age : 0..EscalationLife + 1, serial : 1..MaxSerial]
Decision == [failure : FailureSlots, kind : Kinds, authorized : BOOLEAN, safe : BOOLEAN,
             life : {"FOREVER", "LIMITED", "OVER"}, effect : 0..MaxSerial, about : 1..MaxSerial]

LEMMA NoneApart == None \notin Fault /\ None \notin Decision
<1>1. DOMAIN None = {"state"}
  BY DEF None
<1>2. (\A r \in Fault : "age" \in DOMAIN r) /\ \A d \in Decision : "kind" \in DOMAIN d
  BY DEF Fault, Decision
<1> QED BY <1>1, <1>2

LEMMA Tables ==
  ASSUME FailureTypeOK
  PROVE  /\ failures \in [FailureSlots -> {None} \cup Fault]
         /\ decisions \in [DecisionSlots -> {None} \cup Decision]
         /\ \A f \in Failures : f \in FailureSlots /\ failures[f] \in Fault
         /\ \A d \in Decisions : d \in DecisionSlots /\ decisions[d] \in Decision
         /\ serial \in 0..MaxSerial
BY DEF FailureTypeOK, Fault, Decision, Failures, Decisions

(* Failures only go forward: every transition leads to a higher rank.      *)
Rank ==
  [DETECTED |-> 0, CLASSIFIED |-> 1, ASSESSING |-> 2, CONTAINING |-> 3, RECOVERING |-> 4,
   RECOVERED |-> 5, PARTIALLY_RECOVERED |-> 5, UNRECOVERABLE |-> 5,
   ESCALATED |-> 6, ACKNOWLEDGED |-> 7, CLOSED |-> 8]

LEMMA Ranks == DOMAIN Rank = FsStates /\ \A s \in FsStates : Rank[s] \in Nat
BY DEF Rank, FsStates

LEMMA MovesRise ==
  ASSUME NEW to \in DOMAIN EnteredFrom, NEW s \in EnteredFrom[to]
  PROVE  s \in FsStates /\ to \in FsStates /\ Rank[s] < Rank[to]
<1>1. to \in {"CLASSIFIED", "ASSESSING", "CONTAINING", "RECOVERING", "RECOVERED",
             "PARTIALLY_RECOVERED", "UNRECOVERABLE", "ESCALATED", "ACKNOWLEDGED", "CLOSED"}
  BY DEF EnteredFrom
<1>2. CASE to \in {"CLASSIFIED", "ASSESSING", "CONTAINING", "RECOVERING"}
  BY <1>2 DEF EnteredFrom, Rank, FsStates
<1>3. CASE to \in {"RECOVERED", "PARTIALLY_RECOVERED"}
  BY <1>3 DEF EnteredFrom, Rank, FsStates
<1>4. CASE to = "UNRECOVERABLE"
  BY <1>4 DEF EnteredFrom, Rank, FsStates
<1>5. CASE to = "ESCALATED"
  BY <1>5 DEF EnteredFrom, Rank, FsStates
<1>6. CASE to = "ACKNOWLEDGED"
  <2>1. s \in {"CLASSIFIED", "ASSESSING", "RECOVERING", "RECOVERED", "PARTIALLY_RECOVERED",
              "UNRECOVERABLE", "ESCALATED"}
    BY <1>6 DEF EnteredFrom, FsStates
  <2> QED BY <1>6, <2>1 DEF Rank, FsStates
<1>7. CASE to = "CLOSED"
  <2>1. s \in {"DETECTED", "CLASSIFIED", "ASSESSING", "CONTAINING", "RECOVERING", "RECOVERED",
              "PARTIALLY_RECOVERED", "UNRECOVERABLE", "ESCALATED", "ACKNOWLEDGED"}
    BY <1>7 DEF EnteredFrom, FsStates
  <2> QED BY <1>7, <2>1 DEF Rank, FsStates
<1> QED BY <1>1, <1>2, <1>3, <1>4, <1>5, <1>6, <1>7

LEMMA EntersAState ==
  ASSUME NEW s \in FsStates, NEW to \in DOMAIN EnteredFrom
  PROVE  /\ Enters(s, to) \in FsStates /\ Rank[Enters(s, to)] >= Rank[s]
         /\ Enters(s, to) # s => Enters(s, to) = to /\ Rank[s] < Rank[to]
         /\ s \in {"RECOVERED", "PARTIALLY_RECOVERED", "ACKNOWLEDGED"} /\ to \notin {"ACKNOWLEDGED", "CLOSED"}
              => Enters(s, to) = s
<1>1. s \in EnteredFrom[to] => to \in FsStates /\ Rank[s] < Rank[to]
  BY MovesRise
<1>2. ASSUME s \in {"RECOVERED", "PARTIALLY_RECOVERED", "ACKNOWLEDGED"},
             to \notin {"ACKNOWLEDGED", "CLOSED"}
      PROVE  s \notin EnteredFrom[to]
  BY <1>2 DEF EnteredFrom
<1> QED BY <1>1, <1>2, Ranks DEF Enters

(* What a step may do to one failure.                                      *)
Done == {"RECOVERED", "PARTIALLY_RECOVERED", "ACKNOWLEDGED"}
Treated(r, t) ==
  /\ r \in Fault /\ t \in Fault /\ t.serial = r.serial
  /\ Rank[t.state] >= Rank[r.state]
  /\ r.state \in Done => t.state = r.state

LEMMA TickedTreated == ASSUME NEW r \in Fault PROVE Treated(r, Ticked(r))
<1> DEFINE s == CASE r.state \in {"DETECTED", "CLASSIFIED"} -> "ASSESSING"
                  [] r.state = "RECOVERING" -> Recovering(r)
                  [] OTHER -> r.state
           t == IF s = "ESCALATED" /\ r.age > EscalationLife THEN "CLOSED" ELSE s
<1>1. r.state \in FsStates /\ Recovering(r) \in {"ESCALATED", "RECOVERED", "RECOVERING"}
  BY DEF Fault, Recovering
<1>2. s \in FsStates /\ Rank[s] >= Rank[r.state] /\ (r.state \in Done => s = r.state)
  <2>1. CASE r.state \in {"DETECTED", "CLASSIFIED"}
    BY <2>1 DEF Rank, FsStates, Done
  <2>2. CASE r.state = "RECOVERING"
    BY <1>1, <2>2 DEF Rank, FsStates, Done
  <2>3. CASE r.state \notin {"DETECTED", "CLASSIFIED", "RECOVERING"}
    BY <1>1, <2>3, Ranks
  <2> QED BY <2>1, <2>2, <2>3
<1> HIDE DEF s
<1>3. t \in FsStates /\ Rank[t] >= Rank[s] /\ (t # s => s = "ESCALATED")
  BY <1>2, Ranks DEF Rank, FsStates
<1>4. Rank[t] >= Rank[r.state] /\ (r.state \in Done => t = r.state)
  BY <1>1, <1>2, <1>3, Ranks DEF Done
<1> HIDE DEF t
<1>5. [r EXCEPT !.state = t] \in Fault /\ [r EXCEPT !.state = t].state = t
      /\ [r EXCEPT !.state = t].serial = r.serial
  BY <1>3 DEF Fault
<1>6. Ticked(r) = [r EXCEPT !.state = t]
  BY DEF Ticked, s, t
<1> QED BY <1>4, <1>5, <1>6 DEF Treated

LEMMA StaysTreated == ASSUME NEW r \in Fault PROVE Treated(r, r)
BY Ranks DEF Treated, Fault

LEMMA Becoming ==
  ASSUME FailureTypeOK, NEW f \in Failures, NEW s \in FsStates, Becomes(f, s),
         Rank[s] >= Rank[failures[f].state],
         failures[f].state \in Done => s = failures[f].state
  PROVE  /\ failures' \in [FailureSlots -> {None} \cup Fault]
         /\ \A g \in FailureSlots \ Failures : failures'[g] = None
         /\ \A g \in Failures : Treated(failures[g], failures'[g])
<1>1. /\ failures \in [FailureSlots -> {None} \cup Fault] /\ f \in FailureSlots
      /\ \A g \in Failures : g \in FailureSlots /\ failures[g] \in Fault
  BY Tables
<1>2. [failures[f] EXCEPT !.state = s] \in Fault /\ [failures[f] EXCEPT !.state = s].state = s
      /\ [failures[f] EXCEPT !.state = s].serial = failures[f].serial
  BY <1>1 DEF Fault
<1>3. failures' = [failures EXCEPT ![f] = [failures[f] EXCEPT !.state = s]]
  BY <1>1 DEF Becomes
<1>4. Treated(failures[f], failures'[f])
  BY <1>1, <1>2, <1>3 DEF Treated
<1>5. \A g \in FailureSlots \ {f} : failures'[g] = failures[g]
  BY <1>1, <1>3
<1>6. \A g \in FailureSlots \ Failures : failures[g] = None
  BY DEF Failures
<1> QED BY <1>1, <1>2, <1>3, <1>4, <1>5, <1>6, StaysTreated

(* A failure stays or goes forward, or its slot is freed; a slot that was  *)
(* free stays so or gets a failure with a serial number of its own.        *)
LEMMA FailureSteps ==
  ASSUME FailureTypeOK, [FailureNext]_failureVars
  PROVE  /\ failures' \in [FailureSlots -> {None} \cup Fault]
         /\ \A f \in Failures : \/ Treated(failures[f], failures'[f])
                               \/ (failures'[f] = None /\ (failures[f].state = "CLOSED" \/ CleanupRecovery))
         /\ \A f \in FailureSlots \ Failures :
              failures'[f] = None \/ (failures'[f].serial = serial + 1 /\ serial' = serial + 1)
<1> DEFINE Goal == /\ failures' \in [FailureSlots -> {None} \cup Fault]
                   /\ \A f \in Failures :
                        Treated(failures[f], failures'[f])
                          \/ (failures'[f] = None /\ (failures[f].state = "CLOSED" \/ CleanupRecovery))
                   /\ \A f \in FailureSlots \ Failures :
                        failures'[f] = None \/ (failures'[f].serial = serial + 1 /\ serial' = serial + 1)
<1>1. /\ failures \in [FailureSlots -> {None} \cup Fault]
      /\ decisions \in [DecisionSlots -> {None} \cup Decision]
      /\ \A f \in Failures : f \in FailureSlots /\ failures[f] \in Fault
      /\ \A d \in Decisions : d \in DecisionSlots /\ decisions[d] \in Decision
      /\ serial \in 0..MaxSerial
  BY Tables
<1>2. ASSUME failures' = failures PROVE Goal
  BY <1>1, <1>2, StaysTreated DEF Failures
<1>3. ASSUME NEW f \in Failures, NEW to \in DOMAIN EnteredFrom, Becomes(f, Enters(failures[f].state, to)),
             to \notin {"ACKNOWLEDGED", "CLOSED"}
      PROVE  Goal
  <2>1. failures[f].state \in FsStates
    BY <1>1 DEF Fault
  <2>2. Enters(failures[f].state, to) \in FsStates
        /\ Rank[Enters(failures[f].state, to)] >= Rank[failures[f].state]
        /\ (failures[f].state \in Done => Enters(failures[f].state, to) = failures[f].state)
    BY <1>3, <2>1, EntersAState DEF Done
  <2> QED BY <1>3, <2>2, Becoming
<1>4. ASSUME NEW f \in FailureSlots, NEW c \in Categories, NEW b \in BOOLEAN, RecordFault(f, c, b)
      PROVE  Goal
  <2>1. f \notin Failures /\ failures' = [failures EXCEPT ![f] =
          [state |-> "DETECTED", category |-> c, critical |-> b, age |-> 0, serial |-> serial + 1]]
    BY <1>4 DEF RecordFault
  <2>2. [state |-> "DETECTED", category |-> c, critical |-> b, age |-> 0, serial |-> serial + 1] \in Fault
    BY <1>1, <1>4, FailureAssumption DEF RecordFault, Fault, FsStates
  <2>3. failures' \in [FailureSlots -> {None} \cup Fault]
    BY <1>1, <2>1, <2>2
  <2>4. \A g \in FailureSlots \ {f} : failures'[g] = failures[g]
    BY <1>1, <2>1
  <2>5. failures'[f].serial = serial + 1 /\ serial' = serial + 1
    BY <1>1, <1>4, <2>1 DEF RecordFault
  <2>6. \A g \in FailureSlots \ Failures : failures[g] = None
    BY DEF Failures
  <2> QED BY <1>1, <2>1, <2>3, <2>4, <2>5, <2>6, StaysTreated
<1>5. ASSUME NEW f \in FailureSlots, NEW c \in Categories, NEW b \in BOOLEAN, ClassifyFault(f, c, b)
      PROVE  Goal
  <2>1. f \in Failures /\ failures[f].state = "DETECTED"
    BY <1>5 DEF ClassifyFault, Failures, None
  <2> DEFINE r == [[[failures[f] EXCEPT !.state = "CLASSIFIED"] EXCEPT !.category = c] EXCEPT !.critical = b]
  <2>2. failures' = [failures EXCEPT ![f] = r]
    BY <1>1, <1>5, <2>1 DEF ClassifyFault
  <2>3. r \in Fault /\ r.state = "CLASSIFIED" /\ r.serial = failures[f].serial
    BY <1>1, <2>1 DEF Fault, FsStates
  <2> HIDE DEF r
  <2>4. Treated(failures[f], r)
    BY <1>1, <2>1, <2>3 DEF Treated, Done, Rank
  <2>5. \A g \in FailureSlots : failures'[g] = IF g = f THEN r ELSE failures[g]
    BY <1>1, <2>2
  <2>6. \A g \in FailureSlots \ Failures : failures[g] = None
    BY DEF Failures
  <2> QED BY <1>1, <2>1, <2>2, <2>3, <2>4, <2>5, <2>6, StaysTreated
<1>6. ASSUME NEW f \in FailureSlots, NEW to \in {"CLOSED", "ACKNOWLEDGED"}, Settle(f, to) PROVE Goal
  <2>1. f \in Failures /\ failures[f].state \notin Done /\ to \in FsStates /\ Becomes(f, to)
    BY <1>6 DEF Settle, Settles, FsTerminal, Done, Failures, None, EnteredFrom, FsStates
  <2>2. to \in DOMAIN EnteredFrom /\ failures[f].state \in EnteredFrom[to]
    BY <1>6 DEF Settle, Settles, EnteredFrom
  <2>4. failures[f].state \in FsStates /\ Rank[failures[f].state] < Rank[to]
    BY <2>2, MovesRise
  <2>5. Rank[failures[f].state] \in Nat /\ Rank[to] \in Nat
    BY <2>1, <2>4, Ranks
  <2>3. Rank[to] >= Rank[failures[f].state]
    BY <2>4, <2>5
  <2> QED BY <2>1, <2>3, Becoming
<1>7. ASSUME NEW f \in FailureSlots, ContainFault(f) PROVE Goal
  <2>1. f \in Failures /\ failures[f].state \notin Done /\ "CONTAINING" \in FsStates /\ Becomes(f, "CONTAINING")
    BY <1>7 DEF ContainFault, Done, Failures, None, FsStates
  <2>2. Rank["CONTAINING"] >= Rank[failures[f].state]
    BY <1>7 DEF ContainFault, Rank
  <2> QED BY <2>1, <2>2, Becoming
<1>8. ASSUME NEW f \in FailureSlots, NEW d \in DecisionSlots, NEW kind \in Kinds,
             NEW life \in {"FOREVER", "LIMITED"}, Decide(f, d, kind, life)
      PROVE  Goal
  <2>1. f \in Failures /\ Becomes(f, Enters(Enters(failures[f].state, "CLASSIFIED"), "ASSESSING"))
    BY <1>8 DEF Decide
  <2>2. {"CLASSIFIED", "ASSESSING"} \subseteq DOMAIN EnteredFrom /\ failures[f].state \in FsStates
    BY <1>1, <2>1 DEF EnteredFrom, Fault
  <2> DEFINE s == Enters(failures[f].state, "CLASSIFIED")
  <2>3. s \in FsStates /\ Rank[s] >= Rank[failures[f].state]
        /\ (failures[f].state \in Done => s = failures[f].state)
    BY <2>2, EntersAState DEF Done
  <2> HIDE DEF s
  <2>5. Enters(s, "ASSESSING") \in FsStates /\ Rank[Enters(s, "ASSESSING")] >= Rank[s]
        /\ (s \in Done => Enters(s, "ASSESSING") = s)
    BY <2>2, <2>3, EntersAState DEF Done
  <2>4. Enters(s, "ASSESSING") \in FsStates /\ Rank[Enters(s, "ASSESSING")] >= Rank[failures[f].state]
        /\ (failures[f].state \in Done => Enters(s, "ASSESSING") = failures[f].state)
    BY <2>2, <2>3, <2>5, Ranks
  <2> QED BY <2>1, <2>4, Becoming DEF s
<1>9. ASSUME NEW d \in DecisionSlots, ExecuteDecision(d) PROVE Goal
  <2>1. d \in Decisions /\ decisions[d].failure \in Failures
        /\ Becomes(decisions[d].failure,
                   Enters(failures[decisions[d].failure].state, Outcome[decisions[d].kind]))
    BY <1>9 DEF ExecuteDecision
  <2>2. decisions[d].kind \in DOMAIN Outcome
    BY <1>1, <2>1 DEF Decision, Kinds
  <2>3. Outcome[decisions[d].kind] \in DOMAIN EnteredFrom
        /\ Outcome[decisions[d].kind] \notin {"ACKNOWLEDGED", "CLOSED"}
    BY <2>2 DEF Outcome, EnteredFrom
  <2> QED BY <1>3, <2>1, <2>3
<1>10. ASSUME NEW f \in FailureSlots, NEW c \in BOOLEAN, Redo(f, c) PROVE Goal
  <2>1. f \in Failures /\ Becomes(f, Enters(failures[f].state, "RECOVERING")) /\ "RECOVERING" \in DOMAIN EnteredFrom
    BY <1>10 DEF Redo, EnteredFrom
  <2> QED BY <1>3, <2>1
<1>11. CASE RecoveryTick
  <2>1. \A f \in Failures : Treated(failures[f], Ticked(failures[f]))
    BY <1>1, TickedTreated
  <2>2. \A f \in FailureSlots : failures'[f] = IF f \in Failures THEN Ticked(failures[f]) ELSE None
    BY <1>11 DEF RecoveryTick
  <2>3. failures' \in [FailureSlots -> {None} \cup Fault]
    BY <1>11, <2>1 DEF RecoveryTick, Treated
  <2>4. \A f \in Failures : Treated(failures[f], failures'[f])
    BY <1>1, <2>1, <2>2
  <2>5. \A f \in FailureSlots \ Failures : failures'[f] = None
    BY <2>2
  <2> QED BY <2>3, <2>4, <2>5
<1>12. CASE CleanupFaults
  <2>1. \A f \in FailureSlots : failures'[f] = IF failures[f].state = "CLOSED" THEN None ELSE failures[f]
    BY <1>12 DEF CleanupFaults
  <2>2. failures' \in [FailureSlots -> {None} \cup Fault]
    BY <1>1, <1>12 DEF CleanupFaults
  <2>3. \A f \in FailureSlots \ Failures : failures'[f] = None
    BY <2>1 DEF Failures
  <2>4. ASSUME NEW f \in Failures
        PROVE  \/ Treated(failures[f], failures'[f])
               \/ failures'[f] = None /\ failures[f].state = "CLOSED"
    <3>1. f \in FailureSlots /\ failures[f] \in Fault
      BY <1>1
    <3>2. CASE failures[f].state = "CLOSED"
      BY <2>1, <3>1, <3>2
    <3>3. CASE failures[f].state # "CLOSED"
      <4>1. failures'[f] = failures[f]
        BY <2>1, <3>1, <3>3
      <4> QED BY <3>1, <4>1, StaysTreated
    <3> QED BY <3>2, <3>3
  <2> QED BY <2>2, <2>3, <2>4
<1>16. CASE CleanupRecovery
  BY <1>1, <1>16 DEF CleanupRecovery
<1>13. CASE FailureElapse
  <2>1. \A f \in Failures : failures[f].age <= EscalationLife
          => /\ [failures[f] EXCEPT !.age = @ + 1] \in Fault
             /\ [failures[f] EXCEPT !.age = @ + 1].state = failures[f].state
             /\ [failures[f] EXCEPT !.age = @ + 1].serial = failures[f].serial
    BY <1>1, FailureAssumption DEF Fault
  <2>2. \A f \in FailureSlots :
          failures'[f] = IF f \in Failures /\ failures[f].age <= EscalationLife
                         THEN [failures[f] EXCEPT !.age = @ + 1] ELSE failures[f]
    BY <1>13 DEF FailureElapse
  <2>3. failures' \in [FailureSlots -> {None} \cup Fault]
    BY <1>1, <1>13, <2>1 DEF FailureElapse
  <2>4. \A f \in FailureSlots \ Failures : failures[f] = None
    BY DEF Failures
  <2>5. \A f \in Failures : failures[f].age <= EscalationLife
          => Treated(failures[f], [failures[f] EXCEPT !.age = @ + 1])
    BY <1>1, <2>1, Ranks DEF Treated, Fault
  <2>6. \A f \in FailureSlots \ Failures : failures'[f] = None
    BY <2>2, <2>4
  <2>7. ASSUME NEW f \in Failures PROVE Treated(failures[f], failures'[f])
    <3>1. f \in FailureSlots /\ failures[f] \in Fault
      BY <1>1
    <3>2. CASE failures[f].age <= EscalationLife
      BY <2>2, <2>5, <3>1, <3>2
    <3>3. CASE ~(failures[f].age <= EscalationLife)
      <4>1. failures'[f] = failures[f]
        BY <2>2, <3>1, <3>3
      <4> QED BY <3>1, <4>1, StaysTreated
    <3> QED BY <3>2, <3>3
  <2> QED BY <2>3, <2>6, <2>7
<1>14. CASE UNCHANGED failureVars
  <2>1. failures' = failures
    BY <1>14 DEF failureVars
  <2> QED BY <1>2, <2>1
<1>15. ASSUME NEW d \in DecisionSlots, NEW flags \in SUBSET {"auth", "safety"}, AuthorizeDecision(d, flags) PROVE Goal
  <2>1. failures' = failures
    BY <1>15 DEF AuthorizeDecision
  <2> QED BY <1>2, <2>1
<1>17. CASE \E f \in FailureSlots :
         \/ \E c \in Categories, critical \in BOOLEAN :
              ClassifyFault(f, c, critical) \/ RecordFault(f, c, critical)
         \/ \E to \in {"CLOSED", "ACKNOWLEDGED"} : Settle(f, to)
         \/ ContainFault(f) \/ \E compensation \in BOOLEAN : Redo(f, compensation)
         \/ \E d \in DecisionSlots, kind \in Kinds, life \in {"FOREVER", "LIMITED"} : Decide(f, d, kind, life)
  <2>1. PICK f \in FailureSlots :
         \/ \E c \in Categories, critical \in BOOLEAN :
              ClassifyFault(f, c, critical) \/ RecordFault(f, c, critical)
         \/ \E to \in {"CLOSED", "ACKNOWLEDGED"} : Settle(f, to)
         \/ ContainFault(f) \/ \E compensation \in BOOLEAN : Redo(f, compensation)
         \/ \E d \in DecisionSlots, kind \in Kinds, life \in {"FOREVER", "LIMITED"} : Decide(f, d, kind, life)
    BY <1>17, Zenon
  <2> QED BY <2>1, <1>4, <1>5, <1>6, <1>7, <1>8, <1>10, Zenon
<1>18. CASE \E d \in DecisionSlots :
         ExecuteDecision(d) \/ \E flags \in SUBSET {"auth", "safety"} : AuthorizeDecision(d, flags)
  BY <1>9, <1>15, <1>18, Zenon
<1>19. Goal
  BY <1>11, <1>12, <1>13, <1>14, <1>16, <1>17, <1>18, Zenon DEF FailureNext
<1> QED BY <1>19

LEMMA SerialGrows ==
  ASSUME FailureTypeOK, [FailureNext]_failureVars
  PROVE  serial' = serial \/ serial' = serial + 1
BY DEF FailureNext, failureVars, RecordFault, ClassifyFault, Settle, ContainFault, Redo, CleanupFaults,
       ExecuteDecision, AuthorizeDecision, Decide, RecoveryTick, FailureElapse, CleanupRecovery

(* The decisions stay decisions, whatever becomes of the failures they are *)
(* about.                                                                  *)
LEMMA DecisionSteps ==
  ASSUME FailureTypeOK, [FailureNext]_failureVars
  PROVE  decisions' \in [DecisionSlots -> {None} \cup Decision] /\ serial' \in 0..MaxSerial
<1>1. /\ failures \in [FailureSlots -> {None} \cup Fault]
      /\ decisions \in [DecisionSlots -> {None} \cup Decision]
      /\ \A f \in Failures : f \in FailureSlots /\ failures[f] \in Fault
      /\ \A d \in Decisions : d \in DecisionSlots /\ decisions[d] \in Decision
      /\ serial \in 0..MaxSerial /\ MaxSerial \in Nat
  BY Tables, FailureAssumption
<1>2. CASE UNCHANGED <<decisions, serial>>
  BY <1>1, <1>2
<1>3. CASE \E f \in FailureSlots, c \in Categories, b \in BOOLEAN : RecordFault(f, c, b)
  BY <1>1, <1>3 DEF RecordFault
<1>4. ASSUME NEW f \in FailureSlots, NEW d \in DecisionSlots, NEW kind \in Kinds,
             NEW life \in {"FOREVER", "LIMITED"}, Decide(f, d, kind, life)
      PROVE  decisions' \in [DecisionSlots -> {None} \cup Decision] /\ serial' = serial
  <2>1. failures[f].serial \in 1..MaxSerial
    BY <1>1, <1>4 DEF Decide, Fault
  <2>2. [failure |-> f, kind |-> kind, authorized |-> FALSE, safe |-> FALSE, life |-> life,
         effect |-> 0, about |-> failures[f].serial] \in Decision
    BY <1>1, <2>1 DEF Decision
  <2> QED BY <1>1, <1>4, <2>2 DEF Decide
<1>5. ASSUME NEW d \in DecisionSlots, NEW flags, AuthorizeDecision(d, flags)
      PROVE  decisions' \in [DecisionSlots -> {None} \cup Decision] /\ serial' = serial
  <2> DEFINE a == decisions[d].authorized \/ "auth" \in flags
             b == decisions[d].safe \/ "safety" \in flags
             r == [[decisions[d] EXCEPT !.authorized = a] EXCEPT !.safe = b]
  <2>1. decisions[d] \in Decision
    BY <1>1, <1>5 DEF AuthorizeDecision
  <2>2. a \in BOOLEAN /\ b \in BOOLEAN
    OBVIOUS
  <2>3. decisions' = [decisions EXCEPT ![d] = r] /\ serial' = serial
    BY <1>1, <1>5, <2>1 DEF AuthorizeDecision, Decision
  <2> HIDE DEF a, b
  <2>4. r \in Decision
    BY <2>1, <2>2 DEF Decision
  <2> HIDE DEF r
  <2> QED BY <1>1, <2>3, <2>4
<1>6. CASE RecoveryTick
  BY <1>1, <1>6 DEF RecoveryTick
<1>7. CASE FailureElapse
  <2>1. \A d \in Decisions : [decisions[d] EXCEPT !.life = "OVER"] \in Decision
    BY <1>1 DEF Decision
  <2> QED BY <1>1, <1>7, <2>1 DEF FailureElapse
<1>9. ASSUME NEW d \in DecisionSlots, ExecuteDecision(d)
      PROVE  decisions' \in [DecisionSlots -> {None} \cup Decision] /\ serial' = serial
  <2> DEFINE f == decisions[d].failure
             n == IF Enters(failures[f].state, Outcome[decisions[d].kind]) # failures[f].state
                  THEN failures[f].serial ELSE decisions[d].effect
             r == [decisions[d] EXCEPT !.effect = n]
  <2>1. d \in Decisions /\ f \in Failures /\ decisions[d] \in Decision /\ failures[f] \in Fault
    BY <1>1, <1>9 DEF ExecuteDecision
  <2>2. n \in 0..MaxSerial
    BY <1>1, <2>1 DEF Fault, Decision
  <2>3. decisions' = [decisions EXCEPT ![d] = r] /\ serial' = serial
    BY <1>1, <1>9, <2>1 DEF ExecuteDecision
  <2> HIDE DEF n
  <2>4. r \in Decision
    BY <2>1, <2>2 DEF Decision
  <2> HIDE DEF r
  <2> QED BY <1>1, <2>3, <2>4
<1>10. CASE CleanupRecovery
  BY <1>1, <1>10 DEF CleanupRecovery
<1>8. \/ UNCHANGED <<decisions, serial>> \/ RecoveryTick \/ FailureElapse \/ CleanupRecovery
      \/ \E d \in DecisionSlots : ExecuteDecision(d)
      \/ \E f \in FailureSlots, c \in Categories, b \in BOOLEAN : RecordFault(f, c, b)
      \/ \E d \in DecisionSlots, flags \in SUBSET {"auth", "safety"} : AuthorizeDecision(d, flags)
      \/ \E f \in FailureSlots, d \in DecisionSlots, kind \in Kinds, life \in {"FOREVER", "LIMITED"} :
           Decide(f, d, kind, life)
  BY DEF FailureNext, failureVars, ClassifyFault, Settle, ContainFault, Redo, CleanupFaults
<1> QED BY <1>1, <1>2, <1>3, <1>4, <1>5, <1>6, <1>7, <1>8, <1>9, <1>10

LEMMA FailureTypeStep == FailureTypeOK /\ [FailureNext]_failureVars => FailureTypeOK'
BY FailureSteps, DecisionSteps DEF FailureTypeOK, Fault, Decision

(* What the decisions did.  A failure that a decision changed is at least  *)
(* where that brought it, and no number was given to a failure before it   *)
(* was recorded.                                                           *)
EffectsLast ==
  /\ \A f \in Failures : failures[f].serial <= serial
  /\ \A d \in Decisions :
       /\ decisions[d].effect <= serial
       /\ decisions[d].failure \in Failures
          /\ failures[decisions[d].failure].serial = decisions[d].effect
          => Rank[failures[decisions[d].failure].state] >= Rank[Outcome[decisions[d].kind]]

FailureInv == FailureTypeOK /\ EffectsLast

LEMMA FailureInitHolds == FailureInit => FailureInv
BY FailureAssumption DEF FailureInit, FailureInv, FailureTypeOK, EffectsLast, Failures, Decisions

(* A decision stays as it is, is a new one, or is carried out.             *)
Remains(d) ==
  /\ d \in Decisions /\ decisions'[d].failure = decisions[d].failure
  /\ decisions'[d].kind = decisions[d].kind /\ decisions'[d].effect = decisions[d].effect

LEMMA EachDecision ==
  ASSUME FailureTypeOK, [FailureNext]_failureVars, NEW d \in DecisionSlots, decisions'[d] # None
  PROVE  Remains(d) \/ decisions'[d].effect = 0 \/ ExecuteDecision(d)
<1>1. /\ decisions \in [DecisionSlots -> {None} \cup Decision]
      /\ \A e \in Decisions : e \in DecisionSlots /\ decisions[e] \in Decision
  BY Tables
<1>2. ASSUME decisions'[d] = decisions[d] PROVE Remains(d)
  BY <1>2 DEF Remains, Decisions
<1>3. CASE UNCHANGED decisions
  BY <1>2, <1>3
<1>4. ASSUME NEW f \in FailureSlots, NEW e \in DecisionSlots, NEW kind \in Kinds, NEW life,
             Decide(f, e, kind, life)
      PROVE  Remains(d) \/ decisions'[d].effect = 0
  <2>1. CASE d = e
    BY <1>1, <1>4, <2>1 DEF Decide
  <2>2. CASE d # e
    BY <1>1, <1>2, <1>4, <2>2 DEF Decide
  <2> QED BY <2>1, <2>2
<1>5. ASSUME NEW e \in DecisionSlots, NEW flags, AuthorizeDecision(e, flags)
      PROVE  Remains(d)
  <2>1. CASE d = e
    <3>1. decisions[d] \in Decision /\ d \in Decisions
      BY <1>1, <1>5, <2>1 DEF AuthorizeDecision
    <3> QED BY <1>1, <1>5, <2>1, <3>1 DEF AuthorizeDecision, Remains, Decision
  <2>2. CASE d # e
    BY <1>1, <1>2, <1>5, <2>2 DEF AuthorizeDecision
  <2> QED BY <2>1, <2>2
<1>6. ASSUME NEW e \in DecisionSlots, ExecuteDecision(e)
      PROVE  Remains(d) \/ ExecuteDecision(d)
  <2>1. CASE d # e
    BY <1>1, <1>2, <1>6, <2>1 DEF ExecuteDecision
  <2> QED BY <1>6, <2>1
<1>7. CASE RecoveryTick
  BY <1>1, <1>2, <1>7 DEF RecoveryTick
<1>8. CASE FailureElapse
  <2>1. CASE d \in Decisions /\ decisions[d].life = "LIMITED"
    <3>1. decisions'[d] = [decisions[d] EXCEPT !.life = "OVER"]
      BY <1>8, <2>1 DEF FailureElapse
    <3> QED BY <1>1, <2>1, <3>1 DEF Remains, Decision
  <2>2. CASE ~(d \in Decisions /\ decisions[d].life = "LIMITED")
    BY <1>2, <1>8, <2>2 DEF FailureElapse
  <2> QED BY <2>1, <2>2
<1>9. CASE CleanupRecovery
  BY <1>9 DEF CleanupRecovery
<1>10. \/ UNCHANGED decisions \/ RecoveryTick \/ FailureElapse \/ CleanupRecovery
       \/ \E e \in DecisionSlots : ExecuteDecision(e)
       \/ \E e \in DecisionSlots, flags \in SUBSET {"auth", "safety"} : AuthorizeDecision(e, flags)
       \/ \E f \in FailureSlots, e \in DecisionSlots, kind \in Kinds, life \in {"FOREVER", "LIMITED"} :
            Decide(f, e, kind, life)
  BY DEF FailureNext, failureVars, RecordFault, ClassifyFault, Settle, ContainFault, Redo, CleanupFaults
<1> QED BY <1>3, <1>4, <1>5, <1>6, <1>7, <1>8, <1>9, <1>10

(* What carrying out a decision does to its failure, if anything: it gets  *)
(* there from lower down.                                                  *)
LEMMA CarriedOut ==
  ASSUME FailureTypeOK, NEW d \in DecisionSlots, ExecuteDecision(d)
  PROVE  LET f == decisions[d].failure
             to == Outcome[decisions[d].kind]
         IN /\ d \in Decisions /\ f \in Failures
            /\ decisions'[d].failure = f /\ decisions'[d].kind = decisions[d].kind
            /\ \/ decisions'[d].effect = decisions[d].effect /\ failures' = failures
               \/ /\ decisions'[d].effect = failures[f].serial /\ failures'[f].state = to
                  /\ failures'[f].serial = failures[f].serial
                  /\ Rank[failures[f].state] < Rank[to]
<1> DEFINE f == decisions[d].failure
           to == Outcome[decisions[d].kind]
           s == Enters(failures[f].state, to)
<1>1. /\ d \in Decisions /\ f \in Failures /\ f \in FailureSlots
      /\ decisions[d] \in Decision /\ failures[f] \in Fault
      /\ failures \in [FailureSlots -> {None} \cup Fault]
      /\ decisions \in [DecisionSlots -> {None} \cup Decision]
  BY Tables DEF ExecuteDecision
<1>2. /\ failures' = [failures EXCEPT ![f] = [failures[f] EXCEPT !.state = s]]
      /\ decisions' = [decisions EXCEPT ![d] =
           [decisions[d] EXCEPT !.effect = IF s # failures[f].state THEN failures[f].serial
                                           ELSE decisions[d].effect]]
  BY <1>1 DEF ExecuteDecision, Becomes
<1>3. to \in DOMAIN EnteredFrom /\ failures[f].state \in FsStates
  BY <1>1 DEF Outcome, EnteredFrom, Decision, Kinds, Fault
<1>4. s # failures[f].state => s = to /\ Rank[failures[f].state] < Rank[to]
  BY <1>3, EntersAState
<1>5. decisions'[d].failure = f /\ decisions'[d].kind = decisions[d].kind
      /\ decisions'[d].effect = IF s # failures[f].state THEN failures[f].serial ELSE decisions[d].effect
  BY <1>1, <1>2 DEF Decision
<1>6. failures'[f].state = s /\ failures'[f].serial = failures[f].serial
  BY <1>1, <1>2 DEF Fault
<1>7. s = failures[f].state => failures' = failures
  <2> SUFFICES ASSUME s = failures[f].state PROVE failures' = failures
    OBVIOUS
  <2>1. [failures[f] EXCEPT !.state = s] = failures[f]
    BY <1>1 DEF Fault
  <2> QED BY <1>1, <1>2, <2>1
<1> HIDE DEF s, to
<1> QED BY <1>1, <1>4, <1>5, <1>6, <1>7 DEF to

LEMMA FailureStepHolds == FailureInv /\ [FailureNext]_failureVars => FailureInv'
<1> SUFFICES ASSUME FailureInv, [FailureNext]_failureVars PROVE FailureInv'
  OBVIOUS
<1>1. FailureTypeOK /\ FailureTypeOK' /\ serial \in 0..MaxSerial /\ MaxSerial \in Nat
  BY FailureTypeStep, FailureAssumption DEF FailureInv, FailureTypeOK
<1>2. serial' >= serial /\ serial' \in Nat
  BY <1>1, SerialGrows
<1>3. ASSUME NEW f \in FailureSlots, failures'[f] # None
      PROVE  \/ f \in Failures /\ Treated(failures[f], failures'[f])
             \/ failures'[f].serial = serial + 1 /\ serial' = serial + 1
  BY <1>1, <1>3, FailureSteps
<1>4. ASSUME NEW f \in FailureSlots, failures'[f] # None
      PROVE  failures'[f].serial <= serial'
  <2>1. CASE f \in Failures /\ Treated(failures[f], failures'[f])
    BY <1>1, <1>2, <2>1 DEF FailureInv, EffectsLast, Treated, Fault
  <2> QED BY <1>1, <1>3, <1>4, <2>1
<1>5. ASSUME NEW d \in DecisionSlots, decisions'[d] # None
      PROVE  /\ decisions'[d].effect <= serial'
             /\ decisions'[d].failure \in Failures'
                /\ failures'[decisions'[d].failure].serial = decisions'[d].effect
                => Rank[failures'[decisions'[d].failure].state] >= Rank[Outcome[decisions'[d].kind]]
  <2>1. CASE decisions'[d].effect = 0
    <3>1. \A f \in FailureSlots : failures'[f] # None => failures'[f].serial # 0
      BY <1>1 DEF FailureTypeOK
    <3> QED BY <1>2, <2>1, <3>1 DEF Failures
  <2>2. CASE Remains(d)
    <3> DEFINE f == decisions[d].failure
               e == decisions[d].effect
    <3>1. d \in Decisions /\ decisions'[d].failure = f /\ decisions'[d].kind = decisions[d].kind
          /\ decisions'[d].effect = e /\ e <= serial /\ e \in Nat
          /\ decisions[d].kind \in DOMAIN Outcome
      BY <1>1, <2>2, Tables DEF Remains, FailureInv, EffectsLast, Decision, Kinds
    <3>2. ASSUME f \in Failures', failures'[f].serial = e
          PROVE  Rank[failures'[f].state] >= Rank[Outcome[decisions[d].kind]]
      <4>1. f \in FailureSlots /\ failures'[f] # None
        BY <3>2 DEF Failures
      <4>2. f \in Failures /\ Treated(failures[f], failures'[f])
        BY <1>1, <1>3, <3>1, <3>2, <4>1
      <4>3. Rank[failures[f].state] >= Rank[Outcome[decisions[d].kind]]
        BY <3>1, <3>2, <4>2 DEF FailureInv, EffectsLast, Treated
      <4>4. {failures[f].state, failures'[f].state, Outcome[decisions[d].kind]} \subseteq FsStates
        BY <3>1, <4>2 DEF Treated, Fault, Outcome, FsStates
      <4> QED BY <4>2, <4>3, <4>4, Ranks DEF Treated
    <3> QED BY <1>1, <1>2, <3>1, <3>2
  <2>3. CASE ExecuteDecision(d)
    <3> DEFINE f == decisions[d].failure
               to == Outcome[decisions[d].kind]
    <3>1. /\ d \in Decisions /\ f \in Failures
          /\ decisions'[d].failure = f /\ decisions'[d].kind = decisions[d].kind
          /\ \/ decisions'[d].effect = decisions[d].effect /\ failures' = failures
             \/ /\ decisions'[d].effect = failures[f].serial /\ failures'[f].state = to
                /\ failures'[f].serial = failures[f].serial
                /\ Rank[failures[f].state] < Rank[to]
      BY <1>1, <2>3, CarriedOut
    <3>2. failures[f].serial <= serial /\ failures[f].serial \in Nat /\ to \in FsStates
          /\ decisions[d].effect <= serial /\ decisions[d].effect \in Nat
      BY <1>1, <3>1, Tables DEF FailureInv, EffectsLast, Fault, Decision, Kinds, Outcome, FsStates
    <3>3. CASE decisions'[d].effect = decisions[d].effect /\ failures' = failures
      BY <1>1, <1>2, <3>1, <3>2, <3>3 DEF FailureInv, EffectsLast, Failures
    <3>4. CASE decisions'[d].effect = failures[f].serial /\ failures'[f].state = to
      BY <1>1, <1>2, <3>1, <3>2, <3>4, Ranks
    <3> QED BY <3>1, <3>3, <3>4
  <2> QED BY <1>1, <1>5, <2>1, <2>2, <2>3, EachDecision
<1>6. EffectsLast'
  BY <1>4, <1>5 DEF EffectsLast, Failures, Decisions
<1> QED BY <1>1, <1>6 DEF FailureInv

LEMMA HonestStep ==
  ASSUME FailureTypeOK, [FailureNext]_failureVars, NEW f \in Failures
  PROVE  /\ failures[f].state \in Done => CleanupRecovery \/ failures'[f].state = failures[f].state
         /\ RecoveryTick /\ failures[f].critical /\ failures[f].state = "RECOVERING"
              => failures'[f].state \in {"ESCALATED", "CLOSED"}
<1>1. f \in FailureSlots /\ failures[f] \in Fault
  BY Tables
<1>2. failures[f].state \in Done => CleanupRecovery \/ failures'[f].state = failures[f].state
  BY FailureSteps DEF Done, Treated
<1>3. ASSUME RecoveryTick, failures[f].critical, failures[f].state = "RECOVERING"
      PROVE  failures'[f].state \in {"ESCALATED", "CLOSED"}
  <2>1. failures'[f] = Ticked(failures[f])
    BY <1>1, <1>3 DEF RecoveryTick
  <2>2. Recovering(failures[f]) = "ESCALATED"
    BY <1>3 DEF Recovering
  <2> QED BY <1>1, <1>3, <2>1, <2>2 DEF Ticked, Fault
<1> QED BY <1>2, <1>3

LEMMA OnceStep ==
  ASSUME FailureInv, NEW d \in Decisions, ExecuteDecision(d), failures' # failures
  PROVE  decisions[d].effect # failures[decisions[d].failure].serial
<1> DEFINE f == decisions[d].failure
           to == Outcome[decisions[d].kind]
<1>1. FailureTypeOK /\ d \in DecisionSlots
  BY DEF FailureInv, Decisions
<1>2. f \in Failures /\ Rank[failures[f].state] < Rank[to]
  BY <1>1, CarriedOut
<1>3. failures[f].state \in FsStates /\ to \in FsStates
  BY <1>1, <1>2, Tables DEF Fault, Decision, Kinds, Outcome, FsStates
<1>4. Rank[failures[f].state] \in Nat /\ Rank[to] \in Nat
  BY <1>3, Ranks
<1>5. ~(Rank[failures[f].state] >= Rank[to])
  BY <1>2, <1>4
<1> QED BY <1>2, <1>5 DEF FailureInv, EffectsLast

(* What the two services that recover workflows hold is well typed, and a  *)
(* reconciliation names the newest checkpoint of its own workflow that had *)
(* been committed and was valid when it was made                           *)
(* (ozayn_prs_reconcile_workflow), for any number of workflows, slots and  *)
(* limits.                                                                 *)
THEOREM RecoveryIsSafe == ContinuitySpec => []RecoverySafe
<1>1. ContinuityInit => CheckpointInv /\ FailureInv
  BY CheckpointInitHolds, FailureInitHolds DEF ContinuityInit
<1>2. CheckpointInv /\ FailureInv /\ [ContinuityNext]_continuityVars => CheckpointInv' /\ FailureInv'
  BY EachKeepsItsOwn, CheckpointStepHolds, FailureStepHolds
<1>3. CheckpointInv /\ FailureInv => RecoverySafe
  BY DEF CheckpointInv, FailureInv, RecoverySafe
<1> QED
  BY <1>1, <1>2, <1>3, PTL DEF ContinuitySpec, continuityVars

(* No decision left over, retry, compensation, containment or tick takes   *)
(* up again what was recovered from or acknowledged, until all are cleaned *)
(* up; the tick never calls a critical failure recovered; and no decision  *)
(* changes the same failure twice (workflow_recovery.c), for any number of *)
(* failures and decisions.                                                 *)
THEOREM RecoveryIsHonest == ContinuitySpec => RecoveryHonest
<1>1. ContinuityInit => FailureInv
  BY FailureInitHolds DEF ContinuityInit
<1>2. FailureInv /\ [ContinuityNext]_continuityVars => FailureInv'
  BY EachKeepsItsOwn, FailureStepHolds
<1>3. FailureInv /\ [ContinuityNext]_continuityVars
      => [/\ \A f \in Failures :
               /\ failures[f].state \in {"RECOVERED", "PARTIALLY_RECOVERED", "ACKNOWLEDGED"}
                    => CleanupRecovery \/ failures'[f].state = failures[f].state
               /\ RecoveryTick /\ failures[f].critical /\ failures[f].state = "RECOVERING"
                    => failures'[f].state \in {"ESCALATED", "CLOSED"}
          /\ \A d \in Decisions : ExecuteDecision(d) /\ failures' # failures
               => decisions[d].effect # failures[decisions[d].failure].serial]_failureVars
  BY EachKeepsItsOwn, HonestStep, OnceStep DEF Done, FailureInv
<1> QED
  BY <1>1, <1>2, <1>3, PTL DEF ContinuitySpec, continuityVars, RecoveryHonest

-----------------------------------------------------------------------------
(* Pipelines                                                               *)

PipeRecord == [state : PipeStates, title : Titles \cup {""}, age : 0..PipelineTtl + 1,
               flow : {"NORMAL", "BLOCKED", "DRAINING"}, edges : 0..EdgeBudget]

(* An id that was not handed out has nothing: what makes a new pipeline    *)
(* start without the stages and edges of another.                          *)
NothingAhead ==
  \A i \in Pipes : i > issued => pipe[i].state = "NONE" /\ stagesOf[i] = {} /\ edgesOf[i] = {}

PipelineInv == PipelinesSafe /\ NothingAhead

LEMMA PipesFinite ==
  ASSUME NEW S \in SUBSET Pipes
  PROVE  IsFiniteSet(S) /\ Cardinality(S) \in Nat
<1>1. IsFiniteSet(Pipes)
  BY PipelineAssumption, FS_Interval DEF Pipes
<1> QED BY <1>1, FS_Subset, FS_CardinalityType

LEMMA EdgesFinite ==
  ASSUME NEW E \in SUBSET (Stages \X Stages)
  PROVE  IsFiniteSet(E) /\ Cardinality(E) \in Nat
<1>1. IsFiniteSet(Stages \X Stages)
  BY PipelineAssumption, FS_Product
<1> QED BY <1>1, FS_Subset, FS_CardinalityType

LEMMA PipelinesTyped ==
  ASSUME PipelineTypeOK
  PROVE  /\ pipe \in [Pipes -> PipeRecord] /\ issued \in Nat
         /\ stagesOf \in [Pipes -> SUBSET Stages] /\ edgesOf \in [Pipes -> SUBSET (Stages \X Stages)]
         /\ pipelineCount \in Int /\ pausedCount \in Int
         /\ Live \in SUBSET Pipes /\ Paused \in SUBSET Live
         /\ MaxConcurrent \in Nat /\ EdgeBudget \in Nat /\ PipelineTtl \in Nat /\ MaxIssued \in Nat
<1>1. /\ pipe \in [Pipes -> PipeRecord]
      /\ stagesOf \in [Pipes -> SUBSET Stages] /\ edgesOf \in [Pipes -> SUBSET (Stages \X Stages)]
      /\ pipelineCount \in Int /\ pausedCount \in Int
  BY DEF PipelineTypeOK, PipeRecord
<1>2. MaxConcurrent \in Nat /\ EdgeBudget \in Nat /\ PipelineTtl \in Nat /\ MaxIssued \in Nat
  BY PipelineAssumption
<1>3. issued \in Nat
  <2>1. issued \in Pipes \cup {0}
    BY DEF PipelineTypeOK
  <2> QED BY <1>2, <2>1 DEF Pipes
<1>4. Live \in SUBSET Pipes /\ Paused \in SUBSET Live
  BY DEF Live, Paused, Terminal
<1> QED BY <1>1, <1>2, <1>3, <1>4

(* A step that gives one pipeline the record r: who is active and who is   *)
(* paused then.                                                            *)
LEMMA OneChanges ==
  ASSUME NEW i \in Pipes, NEW r, DOMAIN pipe = Pipes, pipe' = [pipe EXCEPT ![i] = r]
  PROVE  /\ Live' = IF r.state \in Terminal THEN Live \ {i} ELSE Live \cup {i}
         /\ Paused' = IF r.state = "PAUSED" THEN Paused \cup {i} ELSE Paused \ {i}
BY DEF Live, Paused

LEMMA CountOne ==
  ASSUME NEW S \in SUBSET Pipes, NEW i \in Pipes
  PROVE  /\ Cardinality(S) \in Nat
         /\ Cardinality(S \cup {i}) = IF i \in S THEN Cardinality(S) ELSE Cardinality(S) + 1
         /\ Cardinality(S \ {i}) = IF i \in S THEN Cardinality(S) - 1 ELSE Cardinality(S)
BY PipesFinite, FS_AddElement, FS_RemoveElement

(* What a change of one record, and of the counters, must meet.            *)
LEMMA RecordKeeps ==
  ASSUME PipelineInv, NEW i \in Pipes, NEW r \in PipeRecord, pipe' = [pipe EXCEPT ![i] = r],
         UNCHANGED <<issued, stagesOf, edgesOf>>, i <= issued, pipelineCount' \in Int, pausedCount' \in Int,
         r.state \notin Terminal => i \in Live /\ r.edges = pipe[i].edges,
         \/ pipelineCount' = pipelineCount
         \/ pipelineCount' = pipelineCount - 1 /\ i \in Live /\ r.state \in Terminal,
         \/ pausedCount' = pausedCount /\ r.state # "PAUSED"
         \/ pausedCount' = pausedCount /\ pipe[i].state = "PAUSED"
         \/ pausedCount' = pausedCount + 1
         \/ pausedCount' = pausedCount - 1 /\ pipe[i].state = "PAUSED" /\ r.state # "PAUSED"
  PROVE  PipelineInv'
<1>1. /\ pipe \in [Pipes -> PipeRecord] /\ issued \in Nat
      /\ stagesOf \in [Pipes -> SUBSET Stages] /\ edgesOf \in [Pipes -> SUBSET (Stages \X Stages)]
      /\ pipelineCount \in Int /\ pausedCount \in Int
      /\ Live \in SUBSET Pipes /\ Paused \in SUBSET Pipes /\ Paused \in SUBSET Live
      /\ MaxConcurrent \in Nat
  BY PipelinesTyped DEF PipelineInv, PipelinesSafe
<1>2. /\ Live' = IF r.state \in Terminal THEN Live \ {i} ELSE Live \cup {i}
      /\ Paused' = IF r.state = "PAUSED" THEN Paused \cup {i} ELSE Paused \ {i}
  BY <1>1, OneChanges
<1>3. PipelineTypeOK'
  BY <1>1 DEF PipelineInv, PipelinesSafe, PipelineTypeOK, PipeRecord
<1>4. Cardinality(Live') <= pipelineCount' /\ pipelineCount' <= MaxConcurrent
  <2>1. Cardinality(Live) <= pipelineCount /\ pipelineCount <= MaxConcurrent /\ Cardinality(Live) \in Nat
    BY <1>1, PipesFinite DEF PipelineInv, PipelinesSafe, CountsCover
  <2>2. CASE r.state \in Terminal
    <3>1. Live' = Live \ {i}
      BY <1>2, <2>2
    <3>2. Cardinality(Live \ {i}) = IF i \in Live THEN Cardinality(Live) - 1 ELSE Cardinality(Live)
      BY <1>1, CountOne
    <3>3. Cardinality(Live') = IF i \in Live THEN Cardinality(Live) - 1 ELSE Cardinality(Live)
      BY <3>1, <3>2
    <3> QED BY <1>1, <2>1, <2>2, <3>3
  <2>3. CASE r.state \notin Terminal
    <3>1. Live' = Live
      BY <1>1, <1>2, <2>3
    <3> QED BY <1>1, <2>1, <2>3, <3>1
  <2> QED BY <2>2, <2>3
<1>5. Cardinality(Paused') <= pausedCount'
  <2>1. Cardinality(Paused) <= pausedCount /\ Cardinality(Paused) \in Nat
    BY <1>1, PipesFinite DEF PipelineInv, PipelinesSafe, CountsCover
  <2>2. i \in Paused <=> pipe[i].state = "PAUSED"
    BY DEF Paused
  <2>3. /\ Cardinality(Paused \cup {i}) = IF i \in Paused THEN Cardinality(Paused) ELSE Cardinality(Paused) + 1
        /\ Cardinality(Paused \ {i}) = IF i \in Paused THEN Cardinality(Paused) - 1 ELSE Cardinality(Paused)
    BY <1>1, CountOne
  <2>4. CASE r.state = "PAUSED"
    <3>1. Cardinality(Paused') = IF i \in Paused THEN Cardinality(Paused) ELSE Cardinality(Paused) + 1
      BY <1>2, <2>3, <2>4
    <3> QED BY <1>1, <2>1, <2>2, <2>4, <3>1
  <2>5. CASE r.state # "PAUSED"
    <3>1. Cardinality(Paused') = IF i \in Paused THEN Cardinality(Paused) - 1 ELSE Cardinality(Paused)
      BY <1>2, <2>3, <2>5
    <3> QED BY <1>1, <2>1, <2>2, <2>5, <3>1
  <2> QED BY <2>4, <2>5
<1>6. GraphJoinsStages'
  <2>1. \A j \in Live' : j \in Live /\ pipe'[j].edges = pipe[j].edges
    BY <1>1, <1>2
  <2> QED BY <2>1 DEF PipelineInv, PipelinesSafe, GraphJoinsStages
<1>7. NothingAhead'
  <2>1. \A j \in Pipes : j > issued => j # i
    BY <1>1 DEF Pipes
  <2> QED BY <1>1, <2>1 DEF PipelineInv, NothingAhead
<1> QED BY <1>3, <1>4, <1>5, <1>6, <1>7 DEF PipelineInv, PipelinesSafe, CountsCover

LEMMA PipelineInitHolds == PipelineInit => PipelineInv
<1> SUFFICES ASSUME PipelineInit PROVE PipelineInv OBVIOUS
<1>1. NoPipe \in PipeRecord /\ NoPipe.state = "NONE"
  BY PipelineAssumption DEF NoPipe, PipeRecord, PipeStates, Terminal
<1>2. pipe \in [Pipes -> PipeRecord] /\ \A i \in Pipes : pipe[i].state = "NONE"
  BY <1>1 DEF PipelineInit
<1>3. Live = {} /\ Paused = {} /\ Cardinality({}) = 0 /\ MaxConcurrent \in Nat
  BY <1>2, FS_EmptySet, PipelineAssumption DEF Live, Paused, Terminal
<1>4. PipelineTypeOK
  <2>1. issued \in Pipes \cup {0} /\ pipelineCount \in Int /\ pausedCount \in Int
    BY DEF PipelineInit
  <2>2. stagesOf \in [Pipes -> SUBSET Stages] /\ edgesOf \in [Pipes -> SUBSET (Stages \X Stages)]
    BY DEF PipelineInit
  <2> QED BY <1>2, <2>1, <2>2 DEF PipelineTypeOK, PipeRecord
<1>5. CountsCover
  BY <1>3 DEF PipelineInit, CountsCover
<1> QED BY <1>2, <1>3, <1>4, <1>5
      DEF PipelineInit, PipelineInv, PipelinesSafe, GraphJoinsStages, NothingAhead

LEMMA CreateKeeps == ASSUME PipelineInv, NEW t \in Titles, CreatePipeline(t) PROVE PipelineInv'
<1> DEFINE n == issued + 1
           r == [[NoPipe EXCEPT !.state = "CREATED"] EXCEPT !.title = t]
<1>1. /\ pipe \in [Pipes -> PipeRecord] /\ issued \in Nat
      /\ stagesOf \in [Pipes -> SUBSET Stages] /\ edgesOf \in [Pipes -> SUBSET (Stages \X Stages)]
      /\ pipelineCount \in Int /\ pausedCount \in Int
      /\ Live \in SUBSET Pipes /\ Paused \in SUBSET Pipes /\ Paused \in SUBSET Live
      /\ MaxConcurrent \in Nat /\ EdgeBudget \in Nat
  BY PipelinesTyped DEF PipelineInv, PipelinesSafe
<1>2. /\ n \in Pipes /\ pipelineCount < MaxConcurrent /\ issued' = n
      /\ pipe' = [pipe EXCEPT ![n] = r] /\ pipelineCount' = pipelineCount + 1
      /\ UNCHANGED <<stagesOf, edgesOf, pausedCount>>
  BY DEF CreatePipeline
<1>3. r \in PipeRecord /\ r.state = "CREATED" /\ r.edges = 0
  <2>1. NoPipe \in PipeRecord /\ NoPipe.edges = 0 /\ "CREATED" \in PipeStates
    BY PipelineAssumption DEF NoPipe, PipeRecord, PipeStates, Terminal
  <2> QED BY <2>1 DEF PipeRecord
<1>4. pipe[n].state = "NONE" /\ stagesOf[n] = {} /\ edgesOf[n] = {}
  BY <1>1, <1>2 DEF PipelineInv, NothingAhead
<1>5. n \notin Live /\ n \notin Paused
  BY <1>4 DEF Live, Paused, Terminal
<1> HIDE DEF r
<1>6. Live' = Live \cup {n} /\ Paused' = Paused
  <2>1. /\ Live' = IF r.state \in Terminal THEN Live \ {n} ELSE Live \cup {n}
        /\ Paused' = IF r.state = "PAUSED" THEN Paused \cup {n} ELSE Paused \ {n}
    BY <1>1, <1>2, OneChanges
  <2> QED BY <1>3, <1>5, <2>1 DEF Terminal
<1>7. Cardinality(Live') <= pipelineCount' /\ pipelineCount' <= MaxConcurrent
  <2>1. Cardinality(Live \cup {n}) = Cardinality(Live) + 1 /\ Cardinality(Live) \in Nat
    BY <1>1, <1>2, <1>5, CountOne
  <2>2. Cardinality(Live') = Cardinality(Live) + 1
    BY <1>6, <2>1
  <2> QED BY <1>1, <1>2, <2>1, <2>2 DEF PipelineInv, PipelinesSafe, CountsCover
<1>8. PipelineTypeOK'
  <2>1. pipe' \in [Pipes -> PipeRecord] /\ issued' \in Pipes \cup {0}
    BY <1>1, <1>2, <1>3
  <2>2. pipelineCount' \in Int /\ pausedCount' \in Int
    BY <1>1, <1>2
  <2> QED BY <1>1, <1>2, <2>1, <2>2 DEF PipelineTypeOK, PipeRecord
<1>9. GraphJoinsStages'
  <2>1. \A j \in Live : pipe'[j] = pipe[j]
    BY <1>1, <1>2, <1>5
  <2>2. edgesOf'[n] = {} /\ pipe'[n].edges = 0 /\ Cardinality({}) = 0
    BY <1>1, <1>2, <1>3, <1>4, FS_EmptySet
  <2>3. \A j \in Live : edgesOf'[j] \subseteq stagesOf'[j] \X stagesOf'[j]
                         /\ Cardinality(edgesOf'[j]) <= pipe'[j].edges
    BY <1>2, <2>1 DEF PipelineInv, PipelinesSafe, GraphJoinsStages
  <2>4. edgesOf'[n] \subseteq stagesOf'[n] \X stagesOf'[n]
        /\ Cardinality(edgesOf'[n]) <= pipe'[n].edges
    BY <2>2
  <2> HIDE DEF n
  <2> QED BY <1>6, <2>3, <2>4 DEF GraphJoinsStages
<1>10. NothingAhead'
  <2>1. \A j \in Pipes : j > n => j > issued /\ j # n
    BY <1>1 DEF Pipes
  <2> QED BY <1>1, <1>2, <2>1 DEF PipelineInv, NothingAhead
<1> QED BY <1>1, <1>2, <1>6, <1>7, <1>8, <1>9, <1>10 DEF PipelineInv, PipelinesSafe, CountsCover

(* The graph of one pipeline changes, and with it what its budget says.    *)
LEMMA GraphKeeps ==
  ASSUME PipelineInv, NEW i \in Live, NEW S \in SUBSET Stages, NEW E \in SUBSET (S \X S), NEW n \in 0..EdgeBudget,
         stagesOf' = [stagesOf EXCEPT ![i] = S], edgesOf' = [edgesOf EXCEPT ![i] = E],
         pipe' = [pipe EXCEPT ![i].edges = n], Cardinality(E) <= n,
         UNCHANGED <<issued, pipelineCount, pausedCount>>
  PROVE  PipelineInv'
<1>1. /\ pipe \in [Pipes -> PipeRecord] /\ issued \in Nat /\ i \in Pipes
      /\ stagesOf \in [Pipes -> SUBSET Stages] /\ edgesOf \in [Pipes -> SUBSET (Stages \X Stages)]
      /\ Live \in SUBSET Pipes /\ Paused \in SUBSET Pipes
  BY PipelinesTyped DEF PipelineInv, PipelinesSafe
<1> DEFINE r == [pipe[i] EXCEPT !.edges = n]
<1>2. r \in PipeRecord /\ r.state = pipe[i].state /\ r.edges = n /\ pipe' = [pipe EXCEPT ![i] = r]
  BY <1>1 DEF PipeRecord
<1> HIDE DEF r
<1>3. Live' = Live /\ Paused' = Paused
  BY <1>1, <1>2 DEF Live, Paused
<1>4. PipelineTypeOK'
  <2>1. pipe' \in [Pipes -> PipeRecord]
    BY <1>1, <1>2
  <2>2. stagesOf' \in [Pipes -> SUBSET Stages] /\ edgesOf' \in [Pipes -> SUBSET (Stages \X Stages)]
    BY <1>1
  <2> QED BY <2>1, <2>2 DEF PipelineInv, PipelinesSafe, PipelineTypeOK, PipeRecord
<1>5. GraphJoinsStages'
  <2>1. \A j \in Live : j # i => pipe'[j] = pipe[j] /\ edgesOf'[j] = edgesOf[j] /\ stagesOf'[j] = stagesOf[j]
    BY <1>1, <1>2
  <2>2. pipe'[i].edges = n /\ edgesOf'[i] = E /\ stagesOf'[i] = S
    BY <1>1, <1>2
  <2> QED BY <1>3, <2>1, <2>2 DEF PipelineInv, PipelinesSafe, GraphJoinsStages
<1>6. NothingAhead'
  <2>1. i <= issued
    BY <1>1 DEF PipelineInv, NothingAhead, Live, Terminal, Pipes
  <2>2. \A j \in Pipes : j > issued => j # i
    BY <1>1, <2>1 DEF Pipes
  <2> QED BY <1>1, <1>2, <2>2 DEF PipelineInv, NothingAhead
<1> QED BY <1>3, <1>4, <1>5, <1>6 DEF PipelineInv, PipelinesSafe, CountsCover

LEMMA ExpireKeeps == ASSUME PipelineInv, ExpirePipelines PROVE PipelineInv'
<1> DEFINE gone == {i \in Live : Past(i)}
           r == [NoPipe EXCEPT !.state = "EXPIRED"]
<1>1. /\ pipe \in [Pipes -> PipeRecord] /\ issued \in Nat
      /\ pipelineCount \in Int /\ pausedCount \in Int
      /\ Live \in SUBSET Pipes /\ Paused \in SUBSET Pipes
  BY PipelinesTyped DEF PipelineInv, PipelinesSafe
<1>2. /\ pipe' = [i \in Pipes |-> IF i \in gone THEN r ELSE pipe[i]]
      /\ pipelineCount' = pipelineCount - Cardinality(gone)
      /\ UNCHANGED <<issued, stagesOf, edgesOf, pausedCount>>
  BY DEF ExpirePipelines
<1>3. r \in PipeRecord /\ r.state = "EXPIRED"
  <2>1. NoPipe \in PipeRecord /\ "EXPIRED" \in PipeStates
    BY PipelineAssumption DEF NoPipe, PipeRecord, PipeStates, Terminal
  <2> QED BY <2>1 DEF PipeRecord
<1>4. gone \in SUBSET Live /\ gone \in SUBSET Pipes
  BY <1>1
<1> HIDE DEF r, gone
<1>5. Live' = Live \ gone /\ Paused' = Paused \ gone /\ Paused' \in SUBSET Paused
  BY <1>1, <1>2, <1>3, <1>4 DEF Live, Paused, Terminal
<1>6. Cardinality(Live') <= pipelineCount' /\ pipelineCount' <= MaxConcurrent
  <2>1. IsFiniteSet(Live) /\ IsFiniteSet(gone) /\ IsFiniteSet(Live') /\ Cardinality(Live) \in Nat
        /\ Cardinality(gone) \in Nat /\ Cardinality(Live') \in Nat
    BY <1>1, <1>4, <1>5, PipesFinite
  <2>2. Live' \cup gone = Live /\ Live' \cap gone = {}
    BY <1>4, <1>5
  <2>3. Cardinality(Live' \cup gone) = Cardinality(Live') + Cardinality(gone)
    BY <2>1, <2>2, Disjoint
  <2>4. Cardinality(Live) = Cardinality(Live') + Cardinality(gone)
    BY <2>2, <2>3
  <2> QED BY <1>1, <1>2, <2>1, <2>4, PipelineAssumption DEF PipelineInv, PipelinesSafe, CountsCover
<1>7. Cardinality(Paused') <= pausedCount'
  <2>1. IsFiniteSet(Paused) /\ Cardinality(Paused) \in Nat
    BY <1>1, PipesFinite
  <2>2. Cardinality(Paused') <= Cardinality(Paused) /\ Cardinality(Paused') \in Nat
    BY <1>5, <2>1, FS_Subset, FS_CardinalityType
  <2> QED BY <1>1, <1>2, <2>1, <2>2 DEF PipelineInv, PipelinesSafe, CountsCover
<1>8. PipelineTypeOK'
  <2>1. pipe' \in [Pipes -> PipeRecord]
    BY <1>1, <1>2, <1>3
  <2>2. pipelineCount' \in Int
    BY <1>1, <1>2, <1>4, PipesFinite
  <2> QED BY <1>2, <2>1, <2>2 DEF PipelineInv, PipelinesSafe, PipelineTypeOK, PipeRecord
<1>9. GraphJoinsStages'
  <2>1. \A i \in Live' : i \in Live /\ pipe'[i] = pipe[i]
    BY <1>1, <1>2, <1>5
  <2> QED BY <1>2, <2>1 DEF PipelineInv, PipelinesSafe, GraphJoinsStages
<1>10. NothingAhead'
  <2>1. \A i \in Pipes : i > issued => i \notin Live
    BY DEF PipelineInv, NothingAhead, Live, Terminal
  <2> QED BY <1>1, <1>2, <1>4, <2>1 DEF PipelineInv, NothingAhead
<1> QED BY <1>6, <1>7, <1>8, <1>9, <1>10 DEF PipelineInv, PipelinesSafe, CountsCover

(* The stages and the edges of a pipeline that ends go, all or the stages  *)
(* only: nothing is asked of them any more.                                *)
LEMMA EndingKeeps ==
  ASSUME PipelineInv, NEW i \in Pipes, i <= issued, NEW r \in PipeRecord, r.state \in Terminal,
         pipe' = [pipe EXCEPT ![i] = r], stagesOf' = [stagesOf EXCEPT ![i] = {}],
         edgesOf' \in {edgesOf, [edgesOf EXCEPT ![i] = {}]}, issued' = issued,
         \/ UNCHANGED <<pipelineCount, pausedCount>>
         \/ i \in Live /\ pipelineCount' = pipelineCount - 1 /\ pausedCount' = Unpaused(i)
  PROVE  PipelineInv'
<1>1. /\ pipe \in [Pipes -> PipeRecord] /\ issued \in Nat
      /\ stagesOf \in [Pipes -> SUBSET Stages] /\ edgesOf \in [Pipes -> SUBSET (Stages \X Stages)]
      /\ pipelineCount \in Int /\ pausedCount \in Int
      /\ Live \in SUBSET Pipes /\ Paused \in SUBSET Pipes
  BY PipelinesTyped DEF PipelineInv, PipelinesSafe
<1>2. Live' = Live \ {i} /\ Paused' = Paused \ {i}
  BY <1>1, OneChanges DEF Terminal
<1>3. /\ Cardinality(Live) \in Nat /\ Cardinality(Paused) \in Nat
      /\ Cardinality(Live') = IF i \in Live THEN Cardinality(Live) - 1 ELSE Cardinality(Live)
      /\ Cardinality(Paused') = IF i \in Paused THEN Cardinality(Paused) - 1 ELSE Cardinality(Paused)
  <2>1. /\ Cardinality(Live \ {i}) = IF i \in Live THEN Cardinality(Live) - 1 ELSE Cardinality(Live)
        /\ Cardinality(Paused \ {i}) = IF i \in Paused THEN Cardinality(Paused) - 1 ELSE Cardinality(Paused)
    BY <1>1, CountOne
  <2> QED BY <1>1, <1>2, <2>1, PipesFinite
<1>4. CountsCover'
  <2>1. pausedCount' = pausedCount \/ (pausedCount' = pausedCount - 1 /\ i \in Paused)
    <3>1. pipe[i].state = "PAUSED" => i \in Paused
      BY DEF Paused
    <3>2. Unpaused(i) = pausedCount \/ (Unpaused(i) = pausedCount - 1 /\ i \in Paused)
      BY <3>1 DEF Unpaused
    <3> QED BY <3>2
  <2>2. MaxConcurrent \in Nat
    BY PipelineAssumption
  <2> QED BY <1>1, <1>3, <2>1, <2>2 DEF PipelineInv, PipelinesSafe, CountsCover
<1>5. PipelineTypeOK'
  <2>1. pipe' \in [Pipes -> PipeRecord] /\ stagesOf' \in [Pipes -> SUBSET Stages]
    BY <1>1
  <2>2. edgesOf' \in [Pipes -> SUBSET (Stages \X Stages)]
    BY <1>1
  <2>3. pipelineCount' \in Int /\ pausedCount' \in Int
    BY <1>1 DEF Unpaused
  <2> QED BY <2>1, <2>2, <2>3 DEF PipelineInv, PipelinesSafe, PipelineTypeOK, PipeRecord
<1>6. GraphJoinsStages'
  <2>1. \A j \in Live' : j \in Live /\ j # i
                         /\ pipe'[j] = pipe[j] /\ stagesOf'[j] = stagesOf[j] /\ edgesOf'[j] = edgesOf[j]
    BY <1>1, <1>2
  <2> QED BY <2>1 DEF PipelineInv, PipelinesSafe, GraphJoinsStages
<1>7. NothingAhead'
  <2>1. \A j \in Pipes : j > issued => j # i
    BY <1>1 DEF Pipes
  <2>2. \A j \in Pipes : j > issued =>
          pipe'[j] = pipe[j] /\ stagesOf'[j] = stagesOf[j] /\ edgesOf'[j] = edgesOf[j]
    BY <1>1, <2>1
  <2> QED BY <2>2 DEF PipelineInv, NothingAhead
<1> QED BY <1>4, <1>5, <1>6, <1>7 DEF PipelineInv, PipelinesSafe

LEMMA PipelineStepHolds == PipelineInv /\ [PipelineNext]_pipelineVars => PipelineInv'
<1> SUFFICES ASSUME PipelineInv, [PipelineNext]_pipelineVars PROVE PipelineInv' OBVIOUS
<1>1. /\ pipe \in [Pipes -> PipeRecord] /\ issued \in Nat
      /\ stagesOf \in [Pipes -> SUBSET Stages] /\ edgesOf \in [Pipes -> SUBSET (Stages \X Stages)]
      /\ pipelineCount \in Int /\ pausedCount \in Int
      /\ Live \in SUBSET Pipes /\ Paused \in SUBSET Live /\ EdgeBudget \in Nat
  BY PipelinesTyped DEF PipelineInv, PipelinesSafe
<1>2. NoPipe \in PipeRecord /\ NoPipe.edges = 0
  BY PipelineAssumption DEF NoPipe, PipeRecord, PipeStates, Terminal
<1>3. \A i \in Live : i \in Pipes /\ i <= issued /\ pipe[i] \in PipeRecord
  BY <1>1 DEF PipelineInv, NothingAhead, Live, Terminal, Pipes
<1>4. \A i \in Pipes : pipe[i].state \notin Terminal => i \in Live
  BY DEF Live
<1>5. \A i \in Live : /\ edgesOf[i] \in SUBSET (stagesOf[i] \X stagesOf[i])
                      /\ Cardinality(edgesOf[i]) <= pipe[i].edges /\ pipe[i].edges \in 0..EdgeBudget
                      /\ stagesOf[i] \in SUBSET Stages /\ edgesOf[i] \in SUBSET (Stages \X Stages)
  BY <1>1, <1>3 DEF PipelineInv, PipelinesSafe, GraphJoinsStages, PipeRecord
<1>6. ASSUME NEW i \in Live, NEW s \in PipeStates, NEW f \in {"NORMAL", "BLOCKED", "DRAINING"}
      PROVE  /\ [[pipe[i] EXCEPT !.state = s] EXCEPT !.flow = f] \in PipeRecord
             /\ [[pipe[i] EXCEPT !.state = s] EXCEPT !.flow = f].state = s
             /\ [[pipe[i] EXCEPT !.state = s] EXCEPT !.flow = f].edges = pipe[i].edges
             /\ [pipe[i] EXCEPT !.state = s] \in PipeRecord /\ [pipe[i] EXCEPT !.state = s].state = s
             /\ [pipe[i] EXCEPT !.state = s].edges = pipe[i].edges
             /\ [pipe[i] EXCEPT !.flow = f] \in PipeRecord
             /\ [pipe[i] EXCEPT !.flow = f].state = pipe[i].state
             /\ [pipe[i] EXCEPT !.flow = f].edges = pipe[i].edges
  BY <1>3, <1>6 DEF PipeRecord
<1>7. ASSUME NEW s \in Terminal
      PROVE  [NoPipe EXCEPT !.state = s] \in PipeRecord /\ [NoPipe EXCEPT !.state = s].state = s
  BY <1>2, <1>7 DEF PipeRecord, PipeStates
<1>8. CASE \E t \in Titles : CreatePipeline(t)
  BY <1>8, CreateKeeps
<1>9. ASSUME NEW i \in Pipes, ValidatePipeline(i) PROVE PipelineInv'
  <2>1. PICK s \in {"EXPIRED", "FAILED", "AUTHORIZED"} :
          /\ i \in Live /\ pipe' = Entered(i, s)
          /\ s # "EXPIRED" => pipe[i].state = "CREATED"
          /\ pipelineCount' = IF s = "AUTHORIZED" THEN pipelineCount ELSE pipelineCount - 1
          /\ UNCHANGED <<issued, stagesOf, edgesOf, pausedCount>>
    BY <1>9 DEF ValidatePipeline
  <2>2. CASE s = "AUTHORIZED"
    <3>1. pipe' = [pipe EXCEPT ![i] = [pipe[i] EXCEPT !.state = s]] /\ s \in PipeStates
      BY <1>1, <2>1, <2>2 DEF Entered, Terminal, PipeStates
    <3> QED BY <1>1, <1>3, <1>6, <2>1, <2>2, <3>1, RecordKeeps
  <2>3. CASE s \in Terminal
    <3>1. pipe' = [pipe EXCEPT ![i] = [NoPipe EXCEPT !.state = s]]
      BY <1>1, <2>1, <2>3 DEF Entered
    <3>2. pipelineCount' = pipelineCount - 1 /\ pausedCount' = pausedCount /\ s # "PAUSED"
      BY <2>1, <2>3 DEF Terminal
    <3> DEFINE r == [NoPipe EXCEPT !.state = s]
    <3>3. r \in PipeRecord /\ r.state = s /\ pipe' = [pipe EXCEPT ![i] = r]
      BY <1>7, <2>3, <3>1
    <3> HIDE DEF r
    <3>4. i \in Live /\ i <= issued /\ UNCHANGED <<issued, stagesOf, edgesOf>>
      BY <1>3, <2>1
    <3>5. pipelineCount' \in Int /\ pausedCount' \in Int
      BY <1>1, <3>2
    <3> QED BY <2>3, <3>2, <3>3, <3>4, <3>5, RecordKeeps
  <2> QED BY <2>2, <2>3 DEF Terminal
<1>10. ASSUME NEW i \in Pipes, StartPipeline(i) \/ PausePipeline(i) PROVE PipelineInv'
  <2>1. PICK s \in {"ACTIVE", "PAUSED"} :
          /\ pipe[i].state \in {"AUTHORIZED", "ACTIVE"} /\ pipe' = Entered(i, s)
          /\ pausedCount' = IF s = "PAUSED" THEN pausedCount + 1 ELSE pausedCount
          /\ UNCHANGED <<issued, stagesOf, edgesOf, pipelineCount>>
    BY <1>10 DEF StartPipeline, PausePipeline
  <2>2. i \in Live /\ s \in PipeStates /\ s \notin Terminal
    BY <1>4, <2>1 DEF Terminal, PipeStates
  <2>3. pipe' = [pipe EXCEPT ![i] = [pipe[i] EXCEPT !.state = s]]
    BY <1>1, <2>1, <2>2 DEF Entered
  <2> DEFINE r == [pipe[i] EXCEPT !.state = s]
  <2>4. r \in PipeRecord /\ r.state = s /\ r.edges = pipe[i].edges /\ pipe' = [pipe EXCEPT ![i] = r]
    BY <1>6, <2>2, <2>3
  <2> HIDE DEF r
  <2>5. pausedCount' \in Int /\ ((pausedCount' = pausedCount /\ r.state # "PAUSED") \/ pausedCount' = pausedCount + 1)
    BY <1>1, <2>1, <2>4
  <2> QED BY <1>1, <1>3, <2>1, <2>2, <2>4, <2>5, RecordKeeps
<1>11. ASSUME NEW i \in Pipes, ResumePipeline(i) PROVE PipelineInv'
  <2>1. i \in Live /\ "ACTIVE" \in PipeStates /\ "ACTIVE" \notin Terminal /\ pipe[i].state = "PAUSED"
    BY <1>4, <1>11 DEF ResumePipeline, Terminal, PipeStates
  <2>2. pipe' = [pipe EXCEPT ![i] = [[pipe[i] EXCEPT !.state = "ACTIVE"] EXCEPT !.flow = "NORMAL"]]
    BY <1>1, <1>11 DEF ResumePipeline
  <2>3. pausedCount' = pausedCount - 1 /\ UNCHANGED <<issued, stagesOf, edgesOf, pipelineCount>>
    BY <1>11 DEF ResumePipeline
  <2> DEFINE r == [[pipe[i] EXCEPT !.state = "ACTIVE"] EXCEPT !.flow = "NORMAL"]
  <2>4. r \in PipeRecord /\ r.state = "ACTIVE" /\ r.edges = pipe[i].edges /\ pipe' = [pipe EXCEPT ![i] = r]
    BY <1>6, <2>1, <2>2
  <2> HIDE DEF r
  <2>5. pausedCount' \in Int
    BY <1>1, <2>3
  <2> QED BY <1>1, <1>3, <2>1, <2>3, <2>4, <2>5, RecordKeeps
<1>12. ASSUME NEW i \in Pipes, DrainPipeline(i) PROVE PipelineInv'
  <2>1. i \in Live /\ "DRAINING" \in PipeStates /\ "DRAINING" \notin Terminal
    BY <1>4, <1>12 DEF DrainPipeline, Terminal, PipeStates
  <2>2. pipe' = [pipe EXCEPT ![i] = [[pipe[i] EXCEPT !.state = "DRAINING"] EXCEPT !.flow = "DRAINING"]]
    BY <1>1, <1>12 DEF DrainPipeline
  <2>3. UNCHANGED <<issued, stagesOf, edgesOf, pipelineCount, pausedCount>>
    BY <1>12 DEF DrainPipeline
  <2> QED BY <1>1, <1>3, <1>6, <2>1, <2>2, <2>3, RecordKeeps
<1>13. ASSUME NEW i \in Pipes, NEW f \in {"NORMAL", "BLOCKED"}, SetFlow(i, f) PROVE PipelineInv'
  <2>1. i \in Live /\ UNCHANGED <<issued, stagesOf, edgesOf, pipelineCount, pausedCount>>
    BY <1>13 DEF SetFlow
  <2>2. pipe' = [pipe EXCEPT ![i] = [pipe[i] EXCEPT !.flow = f]]
    BY <1>1, <1>13 DEF SetFlow
  <2>3. pipe[i].state \in PipeStates
    BY <1>3, <2>1 DEF PipeRecord
  <2>4. f \in {"NORMAL", "BLOCKED", "DRAINING"}
    OBVIOUS
  <2> QED BY <1>1, <1>3, <1>6, <2>1, <2>2, <2>3, <2>4, RecordKeeps
<1>14. ASSUME NEW i \in Pipes, EndPipeline(i) PROVE PipelineInv'
  <2>1. "STOPPED" \in Terminal
    BY DEF Terminal
  <2>2. /\ i \in Live /\ pipe' = [pipe EXCEPT ![i] = [NoPipe EXCEPT !.state = "STOPPED"]]
        /\ stagesOf' = [stagesOf EXCEPT ![i] = {}] /\ edgesOf' = edgesOf /\ issued' = issued
        /\ pipelineCount' = pipelineCount - 1 /\ pausedCount' = Unpaused(i)
    BY <1>14, <2>1 DEF EndPipeline, Entered
  <2> QED BY <1>3, <1>7, <2>1, <2>2, EndingKeeps
<1>15. ASSUME NEW i \in Pipes, RemovePipeline(i) PROVE PipelineInv'
  <2>1. NoPipe.state \in Terminal
    BY DEF NoPipe, Terminal
  <2> QED BY <1>2, <1>15, <2>1, EndingKeeps DEF RemovePipeline
<1>16. ASSUME NEW i \in Pipes, NEW s \in Stages, AddStage(i, s) PROVE PipelineInv'
  <2>1. i \in Live /\ stagesOf' = [stagesOf EXCEPT ![i] = stagesOf[i] \cup {s}]
        /\ UNCHANGED <<pipe, issued, edgesOf, pipelineCount, pausedCount>>
    BY <1>16 DEF AddStage
  <2>2. /\ edgesOf' = [edgesOf EXCEPT ![i] = edgesOf[i]] /\ pipe' = [pipe EXCEPT ![i].edges = pipe[i].edges]
        /\ edgesOf[i] \in SUBSET ((stagesOf[i] \cup {s}) \X (stagesOf[i] \cup {s}))
        /\ stagesOf[i] \cup {s} \in SUBSET Stages
    BY <1>1, <1>3, <1>5, <2>1 DEF PipeRecord
  <2> QED BY <1>5, <2>1, <2>2, GraphKeeps
<1>17. ASSUME NEW i \in Pipes, NEW s \in Stages, RemoveStage(i, s) PROVE PipelineInv'
  <2> DEFINE S == stagesOf[i] \ {s}
             E == edgesOf[i] \ EdgesAt(i, s)
  <2>1. i \in Live /\ stagesOf' = [stagesOf EXCEPT ![i] = S] /\ edgesOf' = [edgesOf EXCEPT ![i] = E]
        /\ UNCHANGED <<pipe, issued, pipelineCount, pausedCount>>
    BY <1>17 DEF RemoveStage
  <2>2. S \in SUBSET Stages /\ E \in SUBSET (S \X S) /\ E \in SUBSET edgesOf[i]
    BY <1>5, <2>1 DEF EdgesAt
  <2>3. Cardinality(E) <= pipe[i].edges /\ pipe' = [pipe EXCEPT ![i].edges = pipe[i].edges]
    <3>1. IsFiniteSet(edgesOf[i]) /\ Cardinality(edgesOf[i]) \in Nat
      BY <1>5, <2>1, EdgesFinite
    <3>2. Cardinality(E) <= Cardinality(edgesOf[i]) /\ Cardinality(E) \in Nat
      BY <2>2, <3>1, FS_Subset, FS_CardinalityType
    <3>3. pipe' = [pipe EXCEPT ![i].edges = pipe[i].edges]
      BY <1>1, <1>3, <2>1 DEF PipeRecord
    <3>4. Cardinality(edgesOf[i]) <= pipe[i].edges /\ pipe[i].edges \in Nat
      BY <1>1, <1>5, <2>1
    <3> HIDE DEF E
    <3>5. Cardinality(E) <= pipe[i].edges
      BY <3>1, <3>2, <3>4
    <3> QED BY <3>3, <3>5
  <2> HIDE DEF S, E
  <2> QED BY <1>5, <2>1, <2>2, <2>3, GraphKeeps
<1>18. ASSUME NEW i \in Pipes, NEW s \in Stages, NEW t \in Stages, AddEdge(i, s, t) PROVE PipelineInv'
  <2> DEFINE E == edgesOf[i] \cup {<<s, t>>}
             n == pipe[i].edges + 1
  <2>1. /\ i \in Live /\ {s, t} \subseteq stagesOf[i] /\ pipe[i].edges < EdgeBudget
        /\ edgesOf' = [edgesOf EXCEPT ![i] = E] /\ pipe' = [pipe EXCEPT ![i].edges = n]
        /\ UNCHANGED <<issued, stagesOf, pipelineCount, pausedCount>>
    BY <1>18 DEF AddEdge, EdgeRoom
  <2>2. E \in SUBSET (stagesOf[i] \X stagesOf[i]) /\ n \in 0..EdgeBudget
        /\ stagesOf' = [stagesOf EXCEPT ![i] = stagesOf[i]]
    BY <1>1, <1>5, <2>1
  <2>3. Cardinality(E) <= n
    <3>1. IsFiniteSet(edgesOf[i]) /\ Cardinality(edgesOf[i]) \in Nat
      BY <1>5, <2>1, EdgesFinite
    <3>2. Cardinality(E) = Cardinality(edgesOf[i]) \/ Cardinality(E) = Cardinality(edgesOf[i]) + 1
      BY <3>1, FS_AddElement
    <3>3. Cardinality(edgesOf[i]) <= pipe[i].edges /\ pipe[i].edges \in Nat
      BY <1>1, <1>5, <2>1
    <3> HIDE DEF E
    <3> QED BY <3>1, <3>2, <3>3
  <2> HIDE DEF E, n
  <2> QED BY <1>5, <2>1, <2>2, <2>3, GraphKeeps
<1>19. ASSUME NEW i \in Pipes, NEW e \in edgesOf[i], RemoveEdge(i, e) PROVE PipelineInv'
  <2> DEFINE E == edgesOf[i] \ {e}
             n == pipe[i].edges - 1
  <2>1. /\ i \in Live /\ edgesOf' = [edgesOf EXCEPT ![i] = E] /\ pipe' = [pipe EXCEPT ![i].edges = n]
        /\ UNCHANGED <<issued, stagesOf, pipelineCount, pausedCount>>
    BY <1>19 DEF RemoveEdge
  <2>2. Cardinality(E) <= n /\ n \in 0..EdgeBudget
    <3>1. IsFiniteSet(edgesOf[i]) /\ Cardinality(edgesOf[i]) \in Nat
      BY <1>5, <2>1, EdgesFinite
    <3>2. Cardinality(E) = Cardinality(edgesOf[i]) - 1 /\ Cardinality(E) \in Nat
      BY <3>1, FS_RemoveElement, FS_CardinalityType
    <3>3. Cardinality(edgesOf[i]) <= pipe[i].edges /\ pipe[i].edges \in 0..EdgeBudget
      BY <1>1, <1>5, <2>1
    <3> HIDE DEF E
    <3> QED BY <1>1, <3>1, <3>2, <3>3
  <2>3. E \in SUBSET (stagesOf[i] \X stagesOf[i]) /\ stagesOf' = [stagesOf EXCEPT ![i] = stagesOf[i]]
    BY <1>1, <1>5, <2>1
  <2> HIDE DEF E, n
  <2> QED BY <1>5, <2>1, <2>2, <2>3, GraphKeeps
<1>20. CASE ExpirePipelines
  BY <1>20, ExpireKeeps
<1>21. CASE PipelineElapse
  <2>1. \A i \in Live : ~Past(i) =>
          /\ [pipe[i] EXCEPT !.age = @ + 1] \in PipeRecord
          /\ [pipe[i] EXCEPT !.age = @ + 1].state = pipe[i].state
          /\ [pipe[i] EXCEPT !.age = @ + 1].edges = pipe[i].edges
    <3>1. PipelineTtl \in Nat
      BY PipelineAssumption
    <3> SUFFICES ASSUME NEW i \in Live, ~Past(i)
                 PROVE  /\ [pipe[i] EXCEPT !.age = @ + 1] \in PipeRecord
                        /\ [pipe[i] EXCEPT !.age = @ + 1].state = pipe[i].state
                        /\ [pipe[i] EXCEPT !.age = @ + 1].edges = pipe[i].edges
      OBVIOUS
    <3>2. pipe[i] \in PipeRecord /\ pipe[i].age \in 0..PipelineTtl + 1
      BY <1>3 DEF PipeRecord
    <3> DEFINE a == pipe[i].age
    <3>4. ~(a > PipelineTtl) /\ a \in 0..PipelineTtl + 1
      BY <3>2 DEF Past
    <3> HIDE DEF a
    <3>5. a + 1 \in 0..PipelineTtl + 1
      BY <3>1, <3>4
    <3>3. pipe[i].age + 1 \in 0..PipelineTtl + 1
      BY <3>5 DEF a
    <3> QED BY <3>2, <3>3 DEF PipeRecord
  <2>2. /\ pipe' \in [Pipes -> PipeRecord]
        /\ \A i \in Pipes : pipe'[i].state = pipe[i].state /\ pipe'[i].edges = pipe[i].edges
        /\ UNCHANGED <<issued, stagesOf, edgesOf, pipelineCount, pausedCount>>
    BY <1>1, <1>21, <2>1 DEF PipelineElapse
  <2>3. Live' = Live /\ Paused' = Paused
    BY <2>2 DEF Live, Paused
  <2>4. PipelineTypeOK'
    BY <2>2 DEF PipelineInv, PipelinesSafe, PipelineTypeOK, PipeRecord
  <2>5. GraphJoinsStages' /\ NothingAhead'
    <3>1. \A i \in Live : i \in Pipes
      BY DEF Live
    <3> QED BY <2>2, <2>3, <3>1 DEF PipelineInv, PipelinesSafe, GraphJoinsStages, NothingAhead
  <2> QED BY <2>2, <2>3, <2>4, <2>5 DEF PipelineInv, PipelinesSafe, CountsCover
<1>22. CASE UNCHANGED pipelineVars
  BY <1>22 DEF pipelineVars, PipelineInv, PipelinesSafe, PipelineTypeOK, CountsCover, GraphJoinsStages,
               NothingAhead, Live, Paused
<1> QED
  BY <1>8, <1>9, <1>10, <1>11, <1>12, <1>13, <1>14, <1>15, <1>16, <1>17, <1>18, <1>19, <1>20, <1>21, <1>22
  DEF PipelineNext

(* pipeline_count covers the active pipelines and holds them to its limit, *)
(* and no edge outlives a stage it joined, in whatever order pipelines are *)
(* made, paused, ended, expired and removed and their graphs changed       *)
(* (pipeline.c), for any tables and limits.                                *)
THEOREM PipelinesAreSafe == ContinuitySpec => []PipelinesSafe
<1>1. ContinuityInit => PipelineInv
  BY PipelineInitHolds DEF ContinuityInit
<1>2. PipelineInv /\ [ContinuityNext]_continuityVars => PipelineInv'
  BY EachKeepsItsOwn, PipelineStepHolds
<1> QED
  BY <1>1, <1>2, PTL DEF ContinuitySpec, continuityVars, PipelineInv

-----------------------------------------------------------------------------
(* Devices                                                                 *)

LEMMA HasLeast ==
  ASSUME NEW T \in SUBSET Nat, T # {}
  PROVE  \E x \in T : \A y \in T : x <= y
<1> DEFINE before == OpToRel(<, Nat)
<1>1. IsWellFoundedOn(before, Nat)
  BY NatLessThanWellFounded
<1>2. \A x, y \in Nat : <<y, x>> \in before <=> y < x
  BY DEF OpToRel
<1> HIDE DEF before
<1>3. PICK x \in T : \A y \in T : <<y, x>> \notin before
  BY <1>1, WFMin
<1>4. \A y \in T : ~(y < x)
  BY <1>2, <1>3
<1> QED BY <1>4

DeviceEntry == [state : DeviceStates, reachable : BOOLEAN]
Reservation == [device : DeviceIds, state : {"REQUESTED", "RESERVED", "ACTIVE"}]

(* A device that was lost is not reachable, if it is there at all: what    *)
(* keeps it from being reserved while it is lost.                          *)
LostOutOfReach == \A d \in lost : devices[d] = NoDevice \/ ~ devices[d].reachable

DeviceInv == DevicesSafe /\ LostOutOfReach

LEMMA DevicesTyped ==
  ASSUME DeviceTypeOK
  PROVE  /\ devices \in [DeviceIds -> {NoDevice} \cup DeviceEntry]
         /\ held \in [HeldSlots -> {NotHeld} \cup Reservation]
         /\ lost \subseteq DeviceIds /\ DeviceSlots \in Nat
         /\ \A d \in Attached : d \in DeviceIds /\ devices[d] \in DeviceEntry
         /\ \A n \in Occupied : n \in HeldSlots /\ held[n] \in Reservation
BY DeviceAssumption DEF DeviceTypeOK, DeviceEntry, Reservation, Attached, Occupied

LEMMA NoneIsNoEntry == NoDevice \notin DeviceEntry /\ NotHeld \notin Reservation
<1>1. (\A e \in DeviceEntry : e.state \in DeviceStates) /\ NoDevice.state \notin DeviceStates
  BY DEF DeviceEntry, DeviceStates, NoDevice
<1>2. \A r \in Reservation : r.state \in {"REQUESTED", "RESERVED", "ACTIVE"}
  BY DEF Reservation
<1>3. NotHeld.state \notin {"REQUESTED", "RESERVED", "ACTIVE"}
  BY DEF NotHeld
<1> QED BY <1>1, <1>2, <1>3

LEMMA SlotsFinite ==
  ASSUME NEW S \in SUBSET HeldSlots
  PROVE  /\ IsFiniteSet(S) /\ Cardinality(S) \in Nat
         /\ \A n \in HeldSlots : n \notin S => Cardinality(S \cup {n}) = Cardinality(S) + 1
         /\ \A T \in SUBSET S : Cardinality(S \ T) = Cardinality(S) - Cardinality(T)
<1>1. IsFiniteSet(HeldSlots)
  BY DeviceAssumption, FS_Interval DEF HeldSlots
<1>2. IsFiniteSet(S) /\ Cardinality(S) \in Nat
  BY <1>1, FS_Subset, FS_CardinalityType
<1>3. \A n \in HeldSlots : n \notin S => Cardinality(S \cup {n}) = Cardinality(S) + 1
  BY <1>2, FS_AddElement
<1>4. ASSUME NEW T \in SUBSET S PROVE Cardinality(S \ T) = Cardinality(S) - Cardinality(T)
  <2>1. IsFiniteSet(T) /\ IsFiniteSet(S \ T) /\ Cardinality(T) \in Nat /\ Cardinality(S \ T) \in Nat
    BY <1>2, FS_Subset, FS_CardinalityType
  <2>2. T \cap (S \ T) = {} /\ T \cup (S \ T) = S
    OBVIOUS
  <2>3. Cardinality(S) = Cardinality(T) + Cardinality(S \ T)
    BY <2>1, <2>2, Disjoint
  <2> QED BY <2>1, <2>3
<1> QED BY <1>2, <1>3, <1>4

(* The reservations ns end: they leave the table, and nothing else does.   *)
LEMMA HeldEnds ==
  ASSUME DeviceInv, NEW ns \in SUBSET Occupied,
         held' = [n \in HeldSlots |-> IF n \in ns THEN NotHeld ELSE held[n]],
         heldCount' = heldCount - Cardinality(ns)
  PROVE  /\ held' \in [HeldSlots -> {NotHeld} \cup Reservation] /\ HeldIsCounted'
         /\ \A d \in DeviceIds : Holding(d)' = Holding(d) \ ns
<1>1. held \in [HeldSlots -> {NotHeld} \cup Reservation] /\ Occupied \subseteq HeldSlots
  BY DevicesTyped DEF DeviceInv, DevicesSafe, Occupied
<1>2. /\ held' \in [HeldSlots -> {NotHeld} \cup Reservation]
      /\ \A n \in HeldSlots : held'[n] = IF n \in ns THEN NotHeld ELSE held[n]
  BY <1>1
<1>3. Occupied' = Occupied \ ns
  BY <1>2 DEF Occupied
<1>4. Cardinality(Occupied \ ns) = Cardinality(Occupied) - Cardinality(ns)
  BY <1>1, SlotsFinite
<1>5. HeldIsCounted'
  BY <1>3, <1>4 DEF DeviceInv, DevicesSafe, HeldIsCounted
<1>6. \A d \in DeviceIds : Holding(d)' = Holding(d) \ ns
  BY <1>1, <1>2, <1>3 DEF Holding
<1> QED BY <1>2, <1>5, <1>6

LEMMA HeldExpires ==
  ASSUME DeviceInv, NEW n \in Occupied, held' = [held EXCEPT ![n] = NotHeld],
         heldCount' = heldCount - 1
  PROVE  /\ held' \in [HeldSlots -> {NotHeld} \cup Reservation] /\ HeldIsCounted'
         /\ \A d \in DeviceIds : Holding(d)' \subseteq Holding(d)
<1>1. DOMAIN held = HeldSlots
  BY DevicesTyped DEF DeviceInv, DevicesSafe
<1>2. PICK ns \in SUBSET Occupied : ns = {n}
  OBVIOUS
<1>3. Cardinality(ns) = 1
  BY <1>2, FS_Singleton
<1>4. /\ held' = [m \in HeldSlots |-> IF m \in ns THEN NotHeld ELSE held[m]]
      /\ heldCount' = heldCount - Cardinality(ns)
  BY <1>1, <1>2, <1>3
<1>5. /\ held' \in [HeldSlots -> {NotHeld} \cup Reservation] /\ HeldIsCounted'
      /\ \A d \in DeviceIds : Holding(d)' = Holding(d) \ ns
  BY <1>4, HeldEnds
<1> QED BY <1>5

(* A reservation is activated: nobody holds another device by that.        *)
LEMMA HeldActivates ==
  ASSUME DeviceInv, NEW n \in Occupied, held[n].state = "RESERVED",
         held' = [held EXCEPT ![n].state = "ACTIVE"], UNCHANGED heldCount
  PROVE  /\ held' \in [HeldSlots -> {NotHeld} \cup Reservation] /\ HeldIsCounted'
         /\ \A d \in DeviceIds : Holding(d)' = Holding(d)
<1>1. /\ held \in [HeldSlots -> {NotHeld} \cup Reservation] /\ n \in HeldSlots
      /\ held[n] \in Reservation
  BY DevicesTyped DEF DeviceInv, DevicesSafe
<1> DEFINE r == [held[n] EXCEPT !.state = "ACTIVE"]
<1>2. r \in Reservation /\ r.device = held[n].device /\ r.state = "ACTIVE"
  BY <1>1 DEF Reservation
<1>3. /\ held' \in [HeldSlots -> {NotHeld} \cup Reservation]
      /\ \A m \in HeldSlots : held'[m] = IF m = n THEN r ELSE held[m]
  BY <1>1, <1>2
<1> HIDE DEF r
<1>4. Occupied' = Occupied
  BY <1>1, <1>2, <1>3, NoneIsNoEntry DEF Occupied
<1>5. \A d \in DeviceIds : Holding(d)' = Holding(d)
  BY <1>1, <1>2, <1>3, <1>4 DEF Holding, Occupied
<1> QED BY <1>3, <1>4, <1>5 DEF DeviceInv, DevicesSafe, HeldIsCounted

(* A reservation is made: whoever asked holds what was reachable.          *)
LEMMA HeldBegins ==
  ASSUME DeviceInv, NEW d \in DeviceIds, NEW state \in {"REQUESTED", "RESERVED"},
         Request(d, state)
  PROVE  /\ held' \in [HeldSlots -> {NotHeld} \cup Reservation] /\ HeldIsCounted'
         /\ \A e \in DeviceIds : e # d => Holding(e)' = Holding(e)
         /\ devices[d] # NoDevice /\ devices[d].reachable
<1>1. held \in [HeldSlots -> {NotHeld} \cup Reservation] /\ Occupied \subseteq HeldSlots
  BY DevicesTyped DEF DeviceInv, DevicesSafe, Occupied
<1> DEFINE n == CHOOSE f \in HeldSlots \ Occupied : \A g \in HeldSlots \ Occupied : f <= g
           r == [device |-> d, state |-> state]
<1>2. n \in HeldSlots \ Occupied
  <2>1. HeldSlots \ Occupied \in SUBSET Nat /\ HeldSlots \ Occupied # {}
    <3>1. Occupied # HeldSlots
      BY DEF Request
    <3>2. HeldSlots \in SUBSET Nat
      BY DeviceAssumption DEF HeldSlots
    <3> QED BY <1>1, <3>1, <3>2
  <2>2. \E f \in HeldSlots \ Occupied : \A g \in HeldSlots \ Occupied : f <= g
    BY <2>1, HasLeast
  <2> QED BY <2>2
<1>3. held' = [held EXCEPT ![n] = r] /\ heldCount' = heldCount + 1
  BY DEF Request
<1>4. r \in Reservation /\ r.device = d
  BY DEF Reservation
<1> HIDE DEF n, r
<1>5. /\ held' \in [HeldSlots -> {NotHeld} \cup Reservation]
      /\ \A m \in HeldSlots : held'[m] = IF m = n THEN r ELSE held[m]
  BY <1>1, <1>2, <1>3, <1>4
<1>6. Occupied' = Occupied \cup {n}
  BY <1>1, <1>2, <1>4, <1>5, NoneIsNoEntry DEF Occupied
<1>7. Cardinality(Occupied \cup {n}) = Cardinality(Occupied) + 1
  BY <1>1, <1>2, SlotsFinite
<1>8. HeldIsCounted'
  BY <1>3, <1>6, <1>7 DEF DeviceInv, DevicesSafe, HeldIsCounted
<1>9. \A e \in DeviceIds : e # d => Holding(e)' = Holding(e)
  BY <1>1, <1>2, <1>4, <1>5, <1>6 DEF Holding, Occupied
<1> QED BY <1>5, <1>8, <1>9 DEF Request, Attached

(* What a step that turns devices to other states, reachable as they were, *)
(* and gives nobody a device that is lost, keeps of the invariant.         *)
Touched(before, after) ==
  /\ after \in {NoDevice} \cup DeviceEntry
  /\ before = NoDevice => after = NoDevice
  /\ after = NoDevice \/ after.reachable = before.reachable

LEMMA DeviceKeeps ==
  ASSUME DeviceInv,
         devices' \in [DeviceIds -> {NoDevice} \cup DeviceEntry],
         held' \in [HeldSlots -> {NotHeld} \cup Reservation], HeldIsCounted',
         lost' \subseteq DeviceIds,
         \A d \in lost' : d \in lost /\ Touched(devices[d], devices'[d]),
         \A d \in lost' : Holding(d)' \subseteq Holding(d)
  PROVE  DeviceInv'
<1>1. DeviceTypeOK'
  BY DEF DeviceTypeOK, DeviceEntry, Reservation
<1>2. LostIsFree'
  BY DEF DeviceInv, DevicesSafe, LostIsFree
<1>3. LostOutOfReach'
  BY DEF DeviceInv, LostOutOfReach, Touched
<1> QED BY <1>1, <1>2, <1>3 DEF DeviceInv, DevicesSafe

LEMMA TurnsTo ==
  ASSUME NEW devs \in [DeviceIds -> {NoDevice} \cup DeviceEntry], NEW d \in DeviceIds,
         NEW state \in DeviceStates
  PROVE  /\ Turned(devs, d, state) \in [DeviceIds -> {NoDevice} \cup DeviceEntry]
         /\ devs[d] # NoDevice => [devs EXCEPT ![d].state = state] = Turned(devs, d, state)
         /\ \A e \in DeviceIds : Touched(devs[e], Turned(devs, d, state)[e])
<1> DEFINE r == [devs[d] EXCEPT !.state = state]
<1>1. devs[d] # NoDevice => r \in DeviceEntry /\ r.reachable = devs[d].reachable
  BY DEF DeviceEntry
<1>2. devs[d] # NoDevice => Turned(devs, d, state) = [devs EXCEPT ![d] = r]
  BY DEF Turned
<1>3. devs[d] = NoDevice => Turned(devs, d, state) = devs
  BY DEF Turned
<1>4. devs[d] # NoDevice => [devs EXCEPT ![d].state = state] = Turned(devs, d, state)
  BY DEF Turned
<1> HIDE DEF r
<1>5. CASE devs[d] = NoDevice
  BY <1>3, <1>4, <1>5 DEF Touched
<1>6. CASE devs[d] # NoDevice
  <2>1. /\ Turned(devs, d, state) \in [DeviceIds -> {NoDevice} \cup DeviceEntry]
        /\ \A e \in DeviceIds : Turned(devs, d, state)[e] = IF e = d THEN r ELSE devs[e]
    BY <1>1, <1>2, <1>6
  <2> QED BY <1>1, <1>4, <1>6, <2>1 DEF Touched
<1> QED BY <1>5, <1>6

(* Devices that come, go and are turned by name.                           *)
LEMMA DeviceCalls ==
  ASSUME DeviceInv, NEW d \in DeviceIds,
         \/ RegisterDevice(d) \/ UnregisterDevice(d) \/ Reconnect(d)
         \/ \E state \in DeviceStates : UpdateDevice(d, state)
         \/ \E reachable \in BOOLEAN : UpdateAvailability(d, reachable)
  PROVE  DeviceInv'
<1>1. /\ devices \in [DeviceIds -> {NoDevice} \cup DeviceEntry]
      /\ held \in [HeldSlots -> {NotHeld} \cup Reservation]
      /\ lost \subseteq DeviceIds /\ (d \in Attached => devices[d] \in DeviceEntry)
  BY DevicesTyped DEF DeviceInv, DevicesSafe
<1>2. UNCHANGED <<held, heldCount>>
  BY DEF RegisterDevice, UnregisterDevice, Reconnect, UpdateDevice, UpdateAvailability
<1>3. /\ held' \in [HeldSlots -> {NotHeld} \cup Reservation] /\ HeldIsCounted'
      /\ \A e \in DeviceIds : Holding(e)' = Holding(e)
  BY <1>1, <1>2 DEF DeviceInv, DevicesSafe, HeldIsCounted, Occupied, Holding
<1>4. CASE RegisterDevice(d) \/ Reconnect(d)
  <2>1. /\ devices' = [devices EXCEPT ![d] = [state |-> "AVAILABLE", reachable |-> TRUE]]
        /\ lost' = lost \ {d}
    BY <1>4 DEF RegisterDevice, Reconnect
  <2>2. [state |-> "AVAILABLE", reachable |-> TRUE] \in DeviceEntry
    BY DEF DeviceEntry, DeviceStates
  <2>3. /\ devices' \in [DeviceIds -> {NoDevice} \cup DeviceEntry]
        /\ \A e \in lost' : e \in lost /\ devices'[e] = devices[e]
    BY <1>1, <2>1, <2>2
  <2>4. \A e \in lost' : Touched(devices[e], devices'[e])
    BY <1>1, <2>1, <2>3 DEF Touched
  <2> QED BY <1>1, <1>3, <2>1, <2>3, <2>4, DeviceKeeps
<1>5. CASE UnregisterDevice(d)
  <2>1. devices' = [devices EXCEPT ![d] = NoDevice] /\ lost' = lost
    BY <1>5 DEF UnregisterDevice
  <2>2. devices' \in [DeviceIds -> {NoDevice} \cup DeviceEntry]
    BY <1>1, <2>1
  <2>3. \A e \in lost' : e \in lost /\ Touched(devices[e], devices'[e])
    BY <1>1, <2>1 DEF Touched
  <2> QED BY <1>1, <1>3, <2>1, <2>2, <2>3, DeviceKeeps
<1>6. ASSUME NEW state \in DeviceStates, UpdateDevice(d, state) PROVE DeviceInv'
  <2>1. devices' = Turned(devices, d, state) /\ lost' = lost
    BY <1>6 DEF UpdateDevice, Turned, Attached
  <2>2. /\ Turned(devices, d, state) \in [DeviceIds -> {NoDevice} \cup DeviceEntry]
        /\ \A e \in DeviceIds : Touched(devices[e], Turned(devices, d, state)[e])
    BY <1>1, TurnsTo
  <2>3. /\ devices' \in [DeviceIds -> {NoDevice} \cup DeviceEntry]
        /\ \A e \in lost' : e \in lost /\ Touched(devices[e], devices'[e])
    BY <1>1, <2>1, <2>2
  <2> QED BY <1>1, <1>3, <2>1, <2>3, DeviceKeeps
<1>7. ASSUME NEW reachable \in BOOLEAN, UpdateAvailability(d, reachable) PROVE DeviceInv'
  <2> DEFINE r == [devices[d] EXCEPT !.reachable = reachable]
  <2>1. devices' = [devices EXCEPT ![d] = r] /\ lost' = lost \ {d} /\ r \in DeviceEntry
    BY <1>1, <1>7 DEF UpdateAvailability, DeviceEntry
  <2> HIDE DEF r
  <2>2. /\ devices' \in [DeviceIds -> {NoDevice} \cup DeviceEntry]
        /\ \A e \in lost' : e \in lost /\ devices'[e] = devices[e]
    BY <1>1, <2>1
  <2>3. \A e \in lost' : Touched(devices[e], devices'[e])
    BY <1>1, <2>1, <2>2 DEF Touched
  <2> QED BY <1>1, <1>3, <2>1, <2>2, <2>3, DeviceKeeps
<1> QED BY <1>4, <1>5, <1>6, <1>7

LEMMA RequestKeeps ==
  ASSUME DeviceInv, NEW d \in DeviceIds, CreateReservation(d) \/ ReserveDevice(d)
  PROVE  DeviceInv'
<1>1. /\ devices \in [DeviceIds -> {NoDevice} \cup DeviceEntry]
      /\ lost \subseteq DeviceIds /\ lost' = lost
  BY DevicesTyped DEF DeviceInv, DevicesSafe, CreateReservation, ReserveDevice
<1>2. PICK state \in {"REQUESTED", "RESERVED"} : Request(d, state)
  BY DEF CreateReservation, ReserveDevice
<1>3. /\ held' \in [HeldSlots -> {NotHeld} \cup Reservation] /\ HeldIsCounted'
      /\ \A e \in DeviceIds : e # d => Holding(e)' = Holding(e)
      /\ devices[d] # NoDevice /\ devices[d].reachable
  BY <1>2, HeldBegins
<1>4. d \notin lost
  BY <1>3 DEF DeviceInv, LostOutOfReach
<1>5. devices' = devices \/ devices' = Turned(devices, d, "RESERVED")
  BY <1>3 DEF CreateReservation, ReserveDevice, Turned
<1>6. /\ Turned(devices, d, "RESERVED") \in [DeviceIds -> {NoDevice} \cup DeviceEntry]
      /\ \A e \in DeviceIds : Touched(devices[e], Turned(devices, d, "RESERVED")[e])
  BY <1>1, TurnsTo DEF DeviceStates
<1>7. \A e \in DeviceIds : Touched(devices[e], devices[e])
  BY <1>1 DEF Touched
<1>8. /\ devices' \in [DeviceIds -> {NoDevice} \cup DeviceEntry]
      /\ \A e \in lost' : e \in lost /\ Touched(devices[e], devices'[e])
  BY <1>1, <1>5, <1>6, <1>7
<1>9. \A e \in lost' : Holding(e)' \subseteq Holding(e)
  BY <1>1, <1>3, <1>4
<1> QED BY <1>1, <1>3, <1>8, <1>9, DeviceKeeps

LEMMA ActivateKeeps ==
  ASSUME DeviceInv, NEW n, ActivateHeld(n)
  PROVE  DeviceInv'
<1>1. /\ devices \in [DeviceIds -> {NoDevice} \cup DeviceEntry]
      /\ lost \subseteq DeviceIds /\ lost' = lost
      /\ n \in Occupied /\ held[n] \in Reservation
  BY DevicesTyped DEF DeviceInv, DevicesSafe, ActivateHeld
<1>2. CASE ExpireReservation(n) /\ UNCHANGED devices
  <2>1. /\ held' \in [HeldSlots -> {NotHeld} \cup Reservation] /\ HeldIsCounted'
        /\ \A e \in DeviceIds : Holding(e)' \subseteq Holding(e)
    BY <1>1, <1>2, HeldExpires DEF ExpireReservation
  <2>2. \A e \in lost' : e \in lost /\ Touched(devices[e], devices'[e])
    BY <1>1, <1>2 DEF Touched
  <2> QED BY <1>1, <1>2, <2>1, <2>2, DeviceKeeps
<1>3. CASE /\ held[n].state = "RESERVED"
           /\ held' = [held EXCEPT ![n].state = "ACTIVE"]
           /\ devices' = Turned(devices, held[n].device, "ACTIVE")
           /\ UNCHANGED heldCount
  <2>1. /\ held' \in [HeldSlots -> {NotHeld} \cup Reservation] /\ HeldIsCounted'
        /\ \A e \in DeviceIds : Holding(e)' = Holding(e)
    BY <1>1, <1>3, HeldActivates
  <2>2. PICK d \in DeviceIds : d = held[n].device
    BY <1>1 DEF Reservation
  <2>3. /\ Turned(devices, d, "ACTIVE") \in [DeviceIds -> {NoDevice} \cup DeviceEntry]
        /\ \A e \in DeviceIds : Touched(devices[e], Turned(devices, d, "ACTIVE")[e])
    BY <1>1, TurnsTo DEF DeviceStates
  <2>4. /\ devices' \in [DeviceIds -> {NoDevice} \cup DeviceEntry]
        /\ \A e \in lost' : e \in lost /\ Touched(devices[e], devices'[e])
    BY <1>1, <1>3, <2>2, <2>3
  <2> QED BY <1>1, <2>1, <2>4, DeviceKeeps
<1> QED BY <1>2, <1>3 DEF ActivateHeld

LEMMA TouchedTwice ==
  ASSUME NEW a, NEW b, NEW c, Touched(a, b), Touched(b, c)
  PROVE  Touched(a, c)
BY DEF Touched

LEMMA ActivateDeviceKeeps ==
  ASSUME DeviceInv, NEW d \in DeviceIds, NEW n, ActivateDevice(d, n)
  PROVE  DeviceInv'
<1>1. /\ devices \in [DeviceIds -> {NoDevice} \cup DeviceEntry]
      /\ held \in [HeldSlots -> {NotHeld} \cup Reservation]
      /\ lost \subseteq DeviceIds /\ lost' = lost /\ devices[d] # NoDevice
      /\ (n \in Occupied => held[n] \in Reservation)
  BY DevicesTyped DEF DeviceInv, DevicesSafe, ActivateDevice, Attached
<1>2. PICK opening : opening = [devices EXCEPT ![d].state = "OPENING"]
  OBVIOUS
<1>3. \/ /\ n \in Occupied /\ held[n].state = "RESERVED"
         /\ held' = [held EXCEPT ![n].state = "ACTIVE"]
         /\ devices' = Turned(opening, held[n].device, "ACTIVE")
         /\ UNCHANGED heldCount
      \/ /\ \/ n \in Occupied /\ ExpireReservation(n)
            \/ UNCHANGED <<held, heldCount>>
         /\ devices' = [devices EXCEPT ![d].state = "ERROR"]
  BY <1>2 DEF ActivateDevice
<1>4. CASE /\ n \in Occupied /\ held[n].state = "RESERVED"
           /\ held' = [held EXCEPT ![n].state = "ACTIVE"]
           /\ devices' = Turned(opening, held[n].device, "ACTIVE")
           /\ UNCHANGED heldCount
  <2>1. /\ held' \in [HeldSlots -> {NotHeld} \cup Reservation] /\ HeldIsCounted'
        /\ \A e \in DeviceIds : Holding(e)' = Holding(e)
    BY <1>1, <1>4, HeldActivates
  <2>2. /\ opening \in [DeviceIds -> {NoDevice} \cup DeviceEntry]
        /\ \A e \in DeviceIds : Touched(devices[e], opening[e])
    <3>1. opening = Turned(devices, d, "OPENING")
      BY <1>1, <1>2 DEF Turned
    <3> QED BY <1>1, <3>1, TurnsTo DEF DeviceStates
  <2>3. PICK f \in DeviceIds : f = held[n].device
    BY <1>1, <1>4 DEF Reservation
  <2>4. /\ Turned(opening, f, "ACTIVE") \in [DeviceIds -> {NoDevice} \cup DeviceEntry]
        /\ \A e \in DeviceIds : Touched(opening[e], Turned(opening, f, "ACTIVE")[e])
    BY <2>2, TurnsTo DEF DeviceStates
  <2>5. \A e \in DeviceIds : Touched(devices[e], devices'[e])
    BY <1>4, <2>2, <2>3, <2>4, TouchedTwice
  <2>6. /\ devices' \in [DeviceIds -> {NoDevice} \cup DeviceEntry]
        /\ \A e \in lost' : e \in lost /\ Touched(devices[e], devices'[e])
    BY <1>1, <1>4, <2>3, <2>4, <2>5
  <2> QED BY <1>1, <2>1, <2>6, DeviceKeeps
<1>5. CASE /\ \/ n \in Occupied /\ ExpireReservation(n)
              \/ UNCHANGED <<held, heldCount>>
           /\ devices' = [devices EXCEPT ![d].state = "ERROR"]
  <2>1. /\ held' \in [HeldSlots -> {NotHeld} \cup Reservation] /\ HeldIsCounted'
        /\ \A e \in DeviceIds : Holding(e)' \subseteq Holding(e)
    <3>1. CASE n \in Occupied /\ ExpireReservation(n)
      BY <3>1, HeldExpires DEF ExpireReservation
    <3>2. CASE UNCHANGED <<held, heldCount>>
      BY <1>1, <3>2 DEF DeviceInv, DevicesSafe, HeldIsCounted, Occupied, Holding
    <3> QED BY <1>5, <3>1, <3>2
  <2>2. /\ devices' \in [DeviceIds -> {NoDevice} \cup DeviceEntry]
        /\ \A e \in DeviceIds : Touched(devices[e], devices'[e])
    <3>1. devices' = Turned(devices, d, "ERROR")
      BY <1>1, <1>5 DEF Turned
    <3> QED BY <1>1, <3>1, TurnsTo DEF DeviceStates
  <2>3. \A e \in lost' : e \in lost /\ Touched(devices[e], devices'[e])
    BY <1>1, <2>2
  <2> QED BY <1>1, <2>1, <2>2, <2>3, DeviceKeeps
<1> QED BY <1>3, <1>4, <1>5

LEMMA ReleaseKeeps ==
  ASSUME DeviceInv, NEW n, NEW freed, ReleaseHeld(n, freed)
  PROVE  DeviceInv'
<1>1. /\ devices \in [DeviceIds -> {NoDevice} \cup DeviceEntry]
      /\ lost \subseteq DeviceIds /\ lost' = lost /\ n \in Occupied
      /\ \A e \in DeviceIds : e \in Attached <=> devices[e] # NoDevice
  BY DevicesTyped DEF DeviceInv, DevicesSafe, ReleaseHeld, Attached
<1>2. /\ held' \in [HeldSlots -> {NotHeld} \cup Reservation] /\ HeldIsCounted'
      /\ \A e \in DeviceIds : Holding(e)' \subseteq Holding(e)
  BY <1>1, HeldExpires DEF ReleaseHeld
<1> DEFINE back(e) == e \in Attached /\ e \in freed \cup {held[n].device}
           free(e) == [devices[e] EXCEPT !.state = "AVAILABLE"]
<1>3. devices' = [e \in DeviceIds |-> IF back(e) THEN free(e) ELSE devices[e]]
  BY DEF ReleaseHeld
<1>4. ASSUME NEW e \in DeviceIds
      PROVE  /\ back(e) => devices[e] # NoDevice
             /\ devices[e] # NoDevice
                  => free(e) \in DeviceEntry /\ free(e).reachable = devices[e].reachable
  BY <1>1 DEF DeviceEntry, DeviceStates
<1> HIDE DEF back, free
<1>5. devices' \in [DeviceIds -> {NoDevice} \cup DeviceEntry]
  BY <1>1, <1>3, <1>4
<1>6. \A e \in lost' : e \in lost /\ Touched(devices[e], devices'[e])
  BY <1>1, <1>3, <1>4, <1>5 DEF Touched
<1> QED BY <1>1, <1>2, <1>5, <1>6, DeviceKeeps

LEMMA DropKeeps ==
  ASSUME DeviceInv, NEW ns \in SUBSET Occupied, DropHeld(ns)
  PROVE  DeviceInv'
<1>1. /\ devices \in [DeviceIds -> {NoDevice} \cup DeviceEntry]
      /\ lost \subseteq DeviceIds /\ lost' = lost /\ devices' = devices
  BY DevicesTyped DEF DeviceInv, DevicesSafe, DropHeld
<1>2. /\ held' \in [HeldSlots -> {NotHeld} \cup Reservation] /\ HeldIsCounted'
      /\ \A e \in DeviceIds : Holding(e)' = Holding(e) \ ns
  BY HeldEnds DEF DropHeld
<1>3. \A e \in lost' : e \in lost /\ Touched(devices[e], devices'[e])
  BY <1>1 DEF Touched
<1>4. \A e \in lost' : Holding(e)' \subseteq Holding(e)
  BY <1>1, <1>2
<1> QED BY <1>1, <1>2, <1>3, <1>4, DeviceKeeps

(* Losing a device takes it from whoever holds it.                         *)
LEMMA DisconnectKeeps ==
  ASSUME DeviceInv, NEW d \in DeviceIds, Disconnect(d)
  PROVE  DeviceInv'
<1>1. /\ devices \in [DeviceIds -> {NoDevice} \cup DeviceEntry]
      /\ lost \subseteq DeviceIds /\ lost' = lost \cup {d} /\ Holding(d) \subseteq Occupied
  BY DevicesTyped DEF DeviceInv, DevicesSafe, Disconnect, Holding
<1>2. PICK ns \in SUBSET Occupied : ns = Holding(d)
  BY <1>1
<1>3. /\ held' = [m \in HeldSlots |-> IF m \in ns THEN NotHeld ELSE held[m]]
      /\ heldCount' = heldCount - Cardinality(ns)
  BY <1>2 DEF Disconnect, FailedWith
<1>4. /\ held' \in [HeldSlots -> {NotHeld} \cup Reservation] /\ HeldIsCounted'
      /\ \A e \in DeviceIds : Holding(e)' = Holding(e) \ ns
  BY <1>3, HeldEnds
<1> DEFINE r == [state |-> "UNAVAILABLE", reachable |-> FALSE]
<1>5. devices' = [devices EXCEPT ![d] = r] /\ r \in DeviceEntry /\ ~ r.reachable
  BY DEF Disconnect, DeviceEntry, DeviceStates
<1> HIDE DEF r
<1>6. /\ devices' \in [DeviceIds -> {NoDevice} \cup DeviceEntry]
      /\ devices'[d] = r /\ \A e \in DeviceIds : e # d => devices'[e] = devices[e]
  BY <1>1, <1>5
<1>7. DeviceTypeOK'
  BY <1>1, <1>4, <1>6 DEF DeviceTypeOK, DeviceEntry, Reservation
<1>8. LostIsFree'
  <2>1. ASSUME NEW e \in lost' PROVE Holding(e)' = {}
    <3>1. CASE e = d
      BY <1>2, <1>4, <3>1
    <3>2. CASE e # d
      BY <1>1, <1>4, <2>1, <3>2 DEF DeviceInv, DevicesSafe, LostIsFree
    <3> QED BY <3>1, <3>2
  <2> QED BY <2>1 DEF LostIsFree
<1>9. LostOutOfReach'
  BY <1>1, <1>5, <1>6 DEF DeviceInv, LostOutOfReach
<1> QED BY <1>4, <1>7, <1>8, <1>9 DEF DeviceInv, DevicesSafe

LEMMA DeviceInitHolds == DeviceInit => DeviceInv
<1> SUFFICES ASSUME DeviceInit PROVE DeviceInv OBVIOUS
<1>1. Occupied = {} /\ Cardinality({}) = 0
  BY FS_EmptySet DEF DeviceInit, Occupied
<1>2. DeviceTypeOK
  BY DEF DeviceInit, DeviceTypeOK
<1>3. HeldIsCounted /\ LostIsFree /\ LostOutOfReach
  BY <1>1 DEF DeviceInit, HeldIsCounted, LostIsFree, LostOutOfReach
<1> QED BY <1>2, <1>3 DEF DeviceInv, DevicesSafe

LEMMA DeviceStepHolds == DeviceInv /\ [DeviceNext]_deviceVars => DeviceInv'
<1> SUFFICES ASSUME DeviceInv, [DeviceNext]_deviceVars PROVE DeviceInv' OBVIOUS
<1>1. CASE UNCHANGED deviceVars
  BY <1>1 DEF deviceVars, DeviceInv, DevicesSafe, DeviceTypeOK, HeldIsCounted, LostIsFree,
              LostOutOfReach, Occupied, Holding
<1>2. ASSUME NEW d \in DeviceIds,
             \/ RegisterDevice(d) \/ UnregisterDevice(d) \/ Reconnect(d)
             \/ \E state \in DeviceStates : UpdateDevice(d, state)
             \/ \E reachable \in BOOLEAN : UpdateAvailability(d, reachable)
      PROVE  DeviceInv'
  BY <1>2, DeviceCalls
<1>3. ASSUME NEW d \in DeviceIds, Disconnect(d) PROVE DeviceInv'
  BY <1>3, DisconnectKeeps
<1>4. ASSUME NEW d \in DeviceIds, CreateReservation(d) \/ ReserveDevice(d) PROVE DeviceInv'
  BY <1>4, RequestKeeps
<1>5. ASSUME NEW d \in DeviceIds, NEW n \in 0..DeviceSlots, ActivateDevice(d, n) PROVE DeviceInv'
  BY <1>5, ActivateDeviceKeeps
<1>6. ASSUME NEW n \in HeldSlots, ActivateHeld(n) PROVE DeviceInv'
  BY <1>6, ActivateKeeps
<1>7. ASSUME NEW n \in HeldSlots, \E freed \in {{}} \cup {{d} : d \in Attached} : ReleaseHeld(n, freed)
      PROVE  DeviceInv'
  BY <1>7, ReleaseKeeps
<1>8. ASSUME \E ns \in SUBSET Occupied : DropHeld(ns) PROVE DeviceInv'
  BY <1>8, DropKeeps
<1> QED BY <1>1, <1>2, <1>3, <1>4, <1>5, <1>6, <1>7, <1>8 DEF DeviceNext

-----------------------------------------------------------------------------
(* Capacity                                                                *)
(*                                                                         *)
(* First what a sum over the table of reservations is: it exists, it is a  *)
(* number, it adds up, and it grows with what it sums.                     *)

Weight(table, ns, n) == IF n \in ns THEN table[n].amount ELSE 0

Weighed(table, ns) == ns \subseteq 1..MaxReservations /\ \A n \in ns : table[n].amount \in Nat

(* The sum, entry by entry, as AmountOf takes it.                          *)
Summing(table, ns, f) ==
  f = [n \in 0..MaxReservations |->
         IF n = 0 THEN 0 ELSE f[n - 1] + (IF n \in ns THEN table[n].amount ELSE 0)]

SumsUpTo(table, ns, f, n) ==
  \A m \in 0..n : f[m] = IF m = 0 THEN 0 ELSE f[m - 1] + Weight(table, ns, m)

LEMMA SummingExists ==
  ASSUME NEW table, NEW ns
  PROVE  \E f : Summing(table, ns, f)
<1> DEFINE Short == {n \in Nat : ~ \E f : DOMAIN f = 0..n /\ SumsUpTo(table, ns, f, n)}
<1>1. Short = {}
  <2> SUFFICES ASSUME Short # {} PROVE FALSE OBVIOUS
  <2>1. PICK n \in Short : \A m \in Short : n <= m
    BY HasLeast
  <2>2. n # 0
    <3> DEFINE f == [m \in 0..0 |-> 0]
    <3>1. DOMAIN f = 0..0 /\ SumsUpTo(table, ns, f, 0)
      BY DEF SumsUpTo
    <3> HIDE DEF f
    <3> QED BY <2>1, <3>1
  <2>3. n - 1 \in Nat /\ n - 1 \notin Short
    BY <2>1, <2>2
  <2>4. PICK f : DOMAIN f = 0..(n - 1) /\ SumsUpTo(table, ns, f, n - 1)
    BY <2>3
  <2> DEFINE next == f[n - 1] + Weight(table, ns, n)
             g == [m \in 0..n |-> IF m = n THEN next ELSE f[m]]
  <2>5. DOMAIN g = 0..n /\ g[n] = next /\ \A m \in 0..(n - 1) : g[m] = f[m]
    BY <2>1
  <2>6. ASSUME NEW m \in 0..n
        PROVE  g[m] = IF m = 0 THEN 0 ELSE g[m - 1] + Weight(table, ns, m)
    <3>1. CASE m = n
      <4>1. n - 1 \in 0..(n - 1) /\ g[n - 1] = f[n - 1]
        BY <2>1, <2>3, <2>5
      <4> HIDE DEF g
      <4> QED BY <2>2, <2>5, <3>1, <4>1
    <3>2. CASE m # n
      <4>1. m \in 0..(n - 1) /\ (m # 0 => m - 1 \in 0..(n - 1))
        BY <2>1, <3>2
      <4> HIDE DEF g
      <4> QED BY <2>4, <2>5, <4>1 DEF SumsUpTo
    <3> QED BY <3>1, <3>2
  <2> HIDE DEF g
  <2>7. SumsUpTo(table, ns, g, n)
    BY <2>6 DEF SumsUpTo
  <2> QED BY <2>1, <2>5, <2>7
<1>2. PICK f : DOMAIN f = 0..MaxReservations /\ SumsUpTo(table, ns, f, MaxReservations)
  BY <1>1, ResourceAssumption
<1> DEFINE g == [m \in 0..MaxReservations |-> f[m]]
<1>3. ASSUME NEW m \in 0..MaxReservations
      PROVE  g[m] = f[m] /\ (m # 0 => m - 1 \in 0..MaxReservations /\ g[m - 1] = f[m - 1])
  BY ResourceAssumption
<1> HIDE DEF g
<1>4. g = [m \in 0..MaxReservations |-> g[m]]
  BY DEF g
<1>5. \A m \in 0..MaxReservations :
        g[m] = IF m = 0 THEN 0 ELSE g[m - 1] + (IF m \in ns THEN table[m].amount ELSE 0)
  BY <1>2, <1>3 DEF SumsUpTo, Weight
<1>6. Summing(table, ns, g)
  BY <1>4, <1>5 DEF Summing
<1> QED BY <1>6

(* The running sum of a table, whose last value is what AmountOf returns.  *)
Running(table, ns, f) ==
  /\ f[0] = 0
  /\ \A n \in 1..MaxReservations : f[n] = f[n - 1] + Weight(table, ns, n)
  /\ AmountOf(table, ns) = f[MaxReservations]

LEMMA AmountRuns ==
  ASSUME NEW table, NEW ns
  PROVE  \E f : Running(table, ns, f)
<1> DEFINE f == CHOOSE g : Summing(table, ns, g)
<1>1. AmountOf(table, ns) = f[MaxReservations]
  BY DEF AmountOf, Summing
<1>2. Summing(table, ns, f)
  BY SummingExists
<1> HIDE DEF f
<1>3. \A n \in 0..MaxReservations :
        f[n] = IF n = 0 THEN 0 ELSE f[n - 1] + (IF n \in ns THEN table[n].amount ELSE 0)
  BY <1>2 DEF Summing
<1>4. \A n \in 1..MaxReservations : n \in 0..MaxReservations /\ n # 0
  BY ResourceAssumption
<1>5. 0 \in 0..MaxReservations
  BY ResourceAssumption
<1>6. f[0] = 0
  BY <1>3, <1>5
<1>7. \A n \in 1..MaxReservations : f[n] = f[n - 1] + Weight(table, ns, n)
  BY <1>3, <1>4 DEF Weight
<1> QED BY <1>1, <1>6, <1>7 DEF Running

LEMMA RunningIsNatural ==
  ASSUME NEW table, NEW ns, Weighed(table, ns), NEW f, Running(table, ns, f)
  PROVE  \A n \in 0..MaxReservations : f[n] \in Nat
<1> DEFINE Wrong == {n \in 0..MaxReservations : f[n] \notin Nat}
<1>1. ASSUME Wrong # {} PROVE FALSE
  <2>1. Wrong \in SUBSET Nat
    BY ResourceAssumption
  <2>2. PICK n \in Wrong : \A m \in Wrong : n <= m
    BY <1>1, <2>1, HasLeast
  <2>3. n # 0
    BY <2>2 DEF Running
  <2>4. n \in 1..MaxReservations /\ n - 1 \in 0..MaxReservations /\ n - 1 \notin Wrong
    BY <2>1, <2>2, <2>3, ResourceAssumption
  <2>5. f[n - 1] \in Nat /\ Weight(table, ns, n) \in Nat
    BY <2>4 DEF Weighed, Weight
  <2>6. f[n] = f[n - 1] + Weight(table, ns, n)
    BY <2>4 DEF Running
  <2>7. f[n] \in Nat
    BY <2>5, <2>6
  <2> QED BY <2>2, <2>7
<1> QED BY <1>1

LEMMA AmountIsNatural ==
  ASSUME NEW table, NEW ns, Weighed(table, ns)
  PROVE  AmountOf(table, ns) \in Nat
<1>1. PICK f : Running(table, ns, f)
  BY AmountRuns
<1>2. MaxReservations \in 0..MaxReservations
  BY ResourceAssumption
<1> QED BY <1>1, <1>2, RunningIsNatural DEF Running

(* What weighs as much as two others, entry by entry, is their sum.        *)
LEMMA AmountsAdd ==
  ASSUME NEW table, NEW ns, Weighed(table, ns),
         NEW one, NEW ms, Weighed(one, ms), NEW two, NEW ks, Weighed(two, ks),
         \A n \in 1..MaxReservations :
           Weight(table, ns, n) = Weight(one, ms, n) + Weight(two, ks, n)
  PROVE  AmountOf(table, ns) = AmountOf(one, ms) + AmountOf(two, ks)
<1>1. PICK f : Running(table, ns, f)
  BY AmountRuns
<1>2. PICK g : Running(one, ms, g)
  BY AmountRuns
<1>3. PICK h : Running(two, ks, h)
  BY AmountRuns
<1>4. \A n \in 0..MaxReservations : f[n] \in Nat /\ g[n] \in Nat /\ h[n] \in Nat
  BY <1>1, <1>2, <1>3, RunningIsNatural
<1> DEFINE Wrong == {n \in 0..MaxReservations : f[n] # g[n] + h[n]}
<1>5. ASSUME Wrong # {} PROVE FALSE
  <2>1. Wrong \in SUBSET Nat
    BY ResourceAssumption
  <2>2. PICK n \in Wrong : \A m \in Wrong : n <= m
    BY <1>5, <2>1, HasLeast
  <2>3. n # 0
    BY <1>1, <1>2, <1>3, <2>2 DEF Running
  <2>4. n \in 1..MaxReservations /\ n - 1 \in 0..MaxReservations /\ n - 1 \notin Wrong
    BY <2>1, <2>2, <2>3, ResourceAssumption
  <2>5. f[n - 1] = g[n - 1] + h[n - 1]
    BY <2>4
  <2>6. /\ f[n] = f[n - 1] + Weight(table, ns, n) /\ g[n] = g[n - 1] + Weight(one, ms, n)
        /\ h[n] = h[n - 1] + Weight(two, ks, n)
        /\ Weight(table, ns, n) = Weight(one, ms, n) + Weight(two, ks, n)
    BY <1>1, <1>2, <1>3, <2>4 DEF Running
  <2>7. Weight(one, ms, n) \in Nat /\ Weight(two, ks, n) \in Nat
    BY DEF Weighed, Weight
  <2>8. f[n] = g[n] + h[n]
    BY <1>4, <2>4, <2>5, <2>6, <2>7
  <2> QED BY <2>2, <2>8
<1>6. MaxReservations \in 0..MaxReservations
  BY ResourceAssumption
<1>7. f[MaxReservations] = g[MaxReservations] + h[MaxReservations]
  BY <1>5, <1>6
<1> QED BY <1>1, <1>2, <1>3, <1>7 DEF Running

LEMMA AmountsEqual ==
  ASSUME NEW table, NEW ns, Weighed(table, ns), NEW one, NEW ms, Weighed(one, ms),
         \A n \in 1..MaxReservations : Weight(table, ns, n) = Weight(one, ms, n)
  PROVE  AmountOf(table, ns) = AmountOf(one, ms)
<1>1. /\ Weighed(one, {})
      /\ \A n \in 1..MaxReservations : Weight(one, {}, n) = 0 /\ Weight(one, ms, n) \in Nat
  BY DEF Weighed, Weight
<1>2. /\ \A n \in 1..MaxReservations : Weight(table, ns, n) = Weight(one, ms, n) + Weight(one, {}, n)
      /\ \A n \in 1..MaxReservations : Weight(one, ms, n) = Weight(one, ms, n) + Weight(one, {}, n)
  BY <1>1
<1>3. AmountOf(table, ns) = AmountOf(one, ms) + AmountOf(one, {})
  BY <1>1, <1>2, AmountsAdd
<1>4. AmountOf(one, ms) = AmountOf(one, ms) + AmountOf(one, {})
  BY <1>1, <1>2, AmountsAdd
<1> QED BY <1>3, <1>4

(* What weighs no more than two others, entry by entry, sums to no more.   *)
LEMMA AmountsBound ==
  ASSUME NEW table, NEW ns, Weighed(table, ns),
         NEW one, NEW ms, Weighed(one, ms), NEW two, NEW ks, Weighed(two, ks),
         \A n \in 1..MaxReservations :
           Weight(table, ns, n) <= Weight(one, ms, n) + Weight(two, ks, n)
  PROVE  AmountOf(table, ns) <= AmountOf(one, ms) + AmountOf(two, ks)
<1> DEFINE w(n) == Weight(table, ns, n)
           u(n) == Weight(one, ms, n) + Weight(two, ks, n)
<1>1. \A n \in 1..MaxReservations : w(n) \in Nat /\ u(n) \in Nat /\ w(n) <= u(n)
  BY DEF Weighed, Weight
<1> HIDE DEF w, u
<1> DEFINE all == 1..MaxReservations
           both == [n \in all |-> [amount |-> u(n)]]
           rest == [n \in all |-> [amount |-> u(n) - w(n)]]
<1>2. \A n \in all : /\ Weight(both, all, n) = u(n) /\ Weight(rest, all, n) = u(n) - w(n)
                     /\ both[n].amount \in Nat /\ rest[n].amount \in Nat
  BY <1>1 DEF Weight
<1>3. Weighed(both, all) /\ Weighed(rest, all)
  BY <1>2 DEF Weighed
<1> HIDE DEF both, rest, all
<1>4. all = 1..MaxReservations
  BY DEF all
<1>5. AmountOf(both, all) = AmountOf(one, ms) + AmountOf(two, ks)
  <2>1. \A n \in 1..MaxReservations :
          Weight(both, all, n) = Weight(one, ms, n) + Weight(two, ks, n)
    BY <1>2, <1>4 DEF u
  <2> QED BY <1>3, <2>1, AmountsAdd
<1>6. AmountOf(both, all) = AmountOf(table, ns) + AmountOf(rest, all)
  <2>1. \A n \in all : Weight(both, all, n) = w(n) + Weight(rest, all, n)
    BY <1>1, <1>2, <1>4
  <2>2. \A n \in 1..MaxReservations :
          Weight(both, all, n) = Weight(table, ns, n) + Weight(rest, all, n)
    BY <1>4, <2>1 DEF w
  <2> QED BY <1>3, <2>2, AmountsAdd
<1>7. AmountOf(rest, all) \in Nat /\ AmountOf(table, ns) \in Nat
  BY <1>3, AmountIsNatural
<1> QED BY <1>5, <1>6, <1>7

LEMMA AmountOfOne ==
  ASSUME NEW table, NEW k \in 1..MaxReservations, table[k].amount \in Nat
  PROVE  AmountOf(table, {k}) = table[k].amount
<1>1. PICK f : Running(table, {k}, f)
  BY AmountRuns
<1> DEFINE a == table[k].amount
           Wrong == {n \in 0..MaxReservations : f[n] # IF n < k THEN 0 ELSE a}
<1>2. ASSUME Wrong # {} PROVE FALSE
  <2>1. Wrong \in SUBSET Nat
    BY ResourceAssumption
  <2>2. PICK n \in Wrong : \A m \in Wrong : n <= m
    BY <1>2, <2>1, HasLeast
  <2>3. n # 0
    <3>1. f[0] = 0 /\ 0 < k
      BY <1>1 DEF Running
    <3> QED BY <2>2, <3>1
  <2>4. n \in 1..MaxReservations /\ n - 1 \in 0..MaxReservations /\ n - 1 \notin Wrong
    BY <2>1, <2>2, <2>3, ResourceAssumption
  <2>5. f[n - 1] = IF n - 1 < k THEN 0 ELSE a
    BY <2>4
  <2>6. f[n] = f[n - 1] + (IF n = k THEN a ELSE 0)
    BY <1>1, <2>4 DEF Running, Weight
  <2>7. f[n] = IF n < k THEN 0 ELSE a
    BY <2>4, <2>5, <2>6
  <2> QED BY <2>2, <2>7
<1>3. MaxReservations \in 0..MaxReservations /\ ~(MaxReservations < k)
  BY ResourceAssumption
<1>4. f[MaxReservations] = a
  BY <1>2, <1>3
<1> QED BY <1>1, <1>4 DEF Running

(* The reservations of a table that hold capacity of a resource.           *)
Capacity == [id : 1..MaxRegistered, name : ResourceNames, used : 0..Total, reserved : 0..Total]
Claim == [op : Operations, res : 1..MaxRegistered, amount : 1..Total,
          state : {"RESERVED", "ACTIVE", "RELEASED", "CANCELLED"}, overdue : BOOLEAN]
Claims == [1..MaxReservations -> {NoReservation} \cup Claim]

Backing(table, id) ==
  {n \in 1..MaxReservations :
     table[n] # NoReservation /\ Promised(table[n]) /\ table[n].res = id}
Owed(table, id) == AmountOf(table, Backing(table, id))

Backed(res, table) ==
  \A s \in 1..MaxResources : res[s] # NoResource =>
    Owed(table, res[s].id) <= res[s].reserved /\ res[s].reserved <= Total

(* An id is given to one resource, and nothing names one before it is      *)
(* given: what makes a new resource start without debts.                   *)
IdsGiven ==
  /\ \A s \in 1..MaxResources : resources[s] # NoResource =>
       /\ resources[s].id <= registered
       /\ \A t \in 1..MaxResources :
            resources[t] # NoResource /\ resources[t].id = resources[s].id => t = s
  /\ \A n \in 1..MaxReservations :
       reservations[n] # NoReservation => reservations[n].res <= registered

ResourceInv == ResourcesSafe /\ IdsGiven

LEMMA ResourcesTyped ==
  ASSUME ResourceTypeOK
  PROVE  /\ resources \in [1..MaxResources -> {NoResource} \cup Capacity]
         /\ reservations \in Claims
         /\ resourceCount \in 0..MaxResources /\ registered \in 0..MaxRegistered
         /\ reservationCount \in 0..MaxReservations
         /\ \A s \in Registered : s \in 1..MaxResources /\ resources[s] \in Capacity
         /\ \A n \in Known : n \in 1..MaxReservations /\ reservations[n] \in Claim
BY ResourceAssumption DEF ResourceTypeOK, Capacity, Claim, Claims, Registered, Known

LEMMA BackedIs ==
  ASSUME DOMAIN resources = 1..MaxResources, DOMAIN reservations = 1..MaxReservations
  PROVE  PromisedOnce <=> Backed(resources, reservations)
<1>1. \A s \in 1..MaxResources : PromisedOn(s) = Backing(reservations, resources[s].id)
  BY DEF PromisedOn, Backing
<1> QED BY <1>1 DEF PromisedOnce, Backed, Owed

LEMMA ResourceKeeps ==
  ASSUME resources' \in [1..MaxResources -> {NoResource} \cup Capacity],
         reservations' \in Claims,
         resourceCount' \in 0..MaxResources, registered' \in 0..MaxRegistered,
         reservationCount' \in 0..MaxReservations,
         Backed(resources', reservations'), IdsGiven'
  PROVE  ResourceInv'
<1>1. ResourceTypeOK'
  BY DEF ResourceTypeOK, Capacity, Claim, Claims
<1>2. PromisedOnce'
  <2>1. DOMAIN resources' = 1..MaxResources /\ DOMAIN reservations' = 1..MaxReservations
    BY DEF Claims
  <2>2. \A s \in 1..MaxResources : PromisedOn(s)' = Backing(reservations', resources'[s].id)
    BY <2>1 DEF PromisedOn, Backing
  <2> QED BY <2>1, <2>2 DEF PromisedOnce, Backed, Owed
<1> QED BY <1>1, <1>2 DEF ResourceInv, ResourcesSafe

LEMMA NoneIsNoCapacity == NoResource \notin Capacity
<1>1. \A r \in Capacity : r.id # 0
  BY DEF Capacity
<1> QED BY <1>1 DEF NoResource

LEMMA NoneIsNoClaim == NoReservation \notin Claim /\ ~ Promised(NoReservation)
<1>1. \A c \in Claim : c.state \in {"RESERVED", "ACTIVE", "RELEASED", "CANCELLED"}
  BY DEF Claim
<1>2. NoReservation.state \notin {"RESERVED", "ACTIVE", "RELEASED", "CANCELLED"}
  BY DEF NoReservation
<1> QED BY <1>1, <1>2 DEF Promised

LEMMA BackingWeighed ==
  ASSUME NEW table \in Claims, NEW id
  PROVE  /\ \A ns \in SUBSET Backing(table, id) : Weighed(table, ns)
         /\ \A n \in Backing(table, id) : table[n] \in Claim /\ table[n].amount \in Nat
         /\ Owed(table, id) \in Nat
<1>1. \A n \in Backing(table, id) : n \in 1..MaxReservations /\ table[n] \in Claim
  BY DEF Backing, Claims
<1>2. \A c \in Claim : c.amount \in Nat
  BY ResourceAssumption DEF Claim
<1>3. \A ns \in SUBSET Backing(table, id) : Weighed(table, ns)
  BY <1>1, <1>2 DEF Weighed
<1>4. Owed(table, id) \in Nat
  BY <1>3, AmountIsNatural DEF Owed
<1> QED BY <1>1, <1>2, <1>3, <1>4

Holds(c) == c # NoReservation /\ Promised(c)
SameClaim(c, d) ==
  (Holds(c) <=> Holds(d)) /\ (Holds(c) => d.res = c.res /\ d.amount = c.amount)

LEMMA OwedSame ==
  ASSUME NEW t \in Claims, NEW u \in Claims,
         \A n \in 1..MaxReservations : SameClaim(t[n], u[n]), NEW id
  PROVE  Owed(t, id) = Owed(u, id)
<1>1. Backing(t, id) = Backing(u, id)
  BY DEF Backing, SameClaim, Holds
<1>2. \A n \in Backing(t, id) : t[n].amount = u[n].amount
  BY DEF Backing, SameClaim, Holds
<1>3. \A n \in 1..MaxReservations : Weight(t, Backing(t, id), n) = Weight(u, Backing(u, id), n)
  BY <1>1, <1>2 DEF Weight
<1>4. Weighed(t, Backing(t, id)) /\ Weighed(u, Backing(u, id))
  BY BackingWeighed
<1> QED BY <1>3, <1>4, AmountsEqual DEF Owed

(* What reservations that end give back is what is owed less from then on. *)
LEMMA OwedLess ==
  ASSUME NEW t \in Claims, NEW u \in Claims, NEW S \in SUBSET (1..MaxReservations),
         \A n \in 1..MaxReservations : IF n \in S THEN ~ Holds(u[n]) ELSE SameClaim(t[n], u[n]),
         NEW id
  PROVE  /\ Owed(t, id) = AmountOf(t, Backing(t, id) \cap S) + Owed(u, id)
         /\ AmountOf(t, Backing(t, id) \cap S) \in Nat
<1>1. Backing(u, id) = Backing(t, id) \ S
  BY DEF Backing, SameClaim, Holds
<1>2. \A n \in Backing(u, id) : u[n].amount = t[n].amount
  BY DEF Backing, SameClaim, Holds
<1>3. \A n \in 1..MaxReservations :
        Weight(t, Backing(t, id), n)
          = Weight(t, Backing(t, id) \cap S, n) + Weight(u, Backing(u, id), n)
  <2>1. \A n \in Backing(t, id) : t[n].amount \in Nat
    BY BackingWeighed
  <2> QED BY <1>1, <1>2, <2>1 DEF Weight
<1>4. /\ Weighed(t, Backing(t, id)) /\ Weighed(u, Backing(u, id))
      /\ Weighed(t, Backing(t, id) \cap S)
  BY BackingWeighed
<1>5. AmountOf(t, Backing(t, id))
        = AmountOf(t, Backing(t, id) \cap S) + AmountOf(u, Backing(u, id))
  BY <1>3, <1>4, AmountsAdd
<1>6. AmountOf(t, Backing(t, id) \cap S) \in Nat
  BY <1>4, AmountIsNatural
<1> QED BY <1>5, <1>6 DEF Owed

(* A reservation that is entered, over another one or not, adds no more to *)
(* what is owed than it holds, and that on its own resource only.          *)
LEMMA OwedPut ==
  ASSUME NEW t \in Claims, NEW k \in 1..MaxReservations, NEW c \in Claim, NEW u \in Claims,
         u = [t EXCEPT ![k] = c], NEW id
  PROVE  Owed(u, id) <= Owed(t, id) + (IF c.res = id THEN c.amount ELSE 0)
<1>1. u[k] = c /\ \A n \in 1..MaxReservations : n # k => u[n] = t[n]
  BY DEF Claims
<1>2. c.amount \in Nat /\ Weighed(u, {k}) /\ AmountOf(u, {k}) = c.amount
  <2>1. c.amount \in Nat
    BY ResourceAssumption DEF Claim
  <2>2. u[k].amount \in Nat
    BY <1>1, <2>1
  <2>3. AmountOf(u, {k}) = u[k].amount
    BY <2>2, AmountOfOne
  <2>4. Weighed(u, {k})
    BY <2>2 DEF Weighed
  <2> QED BY <1>1, <2>1, <2>3, <2>4
<1>3. Weighed(u, Backing(u, id)) /\ Weighed(t, Backing(t, id))
  BY BackingWeighed
<1>4. \A n \in Backing(t, id) : t[n].amount \in Nat
  BY BackingWeighed
<1>5. \A n \in 1..MaxReservations : n # k => (n \in Backing(u, id) <=> n \in Backing(t, id))
  BY <1>1 DEF Backing
<1>6. CASE c.res = id
  <2>1. \A n \in 1..MaxReservations :
          Weight(u, Backing(u, id), n) <= Weight(t, Backing(t, id), n) + Weight(u, {k}, n)
    <3> SUFFICES ASSUME NEW n \in 1..MaxReservations
                 PROVE  Weight(u, Backing(u, id), n) <= Weight(t, Backing(t, id), n) + Weight(u, {k}, n)
      OBVIOUS
    <3>1. Weight(t, Backing(t, id), n) \in Nat
      BY <1>4 DEF Weight
    <3>2. CASE n = k
      <4>1. Weight(u, {k}, n) = c.amount /\ Weight(u, Backing(u, id), n) \in {0, c.amount}
        BY <1>1, <3>2 DEF Weight
      <4> QED BY <1>2, <3>1, <4>1
    <3>3. CASE n # k
      <4>1. /\ Weight(u, {k}, n) = 0
            /\ Weight(u, Backing(u, id), n) = Weight(t, Backing(t, id), n)
        <5>1. u[n] = t[n] /\ (n \in Backing(u, id) <=> n \in Backing(t, id)) /\ n \notin {k}
          BY <1>1, <1>5, <3>3
        <5> QED BY <5>1 DEF Weight
      <4> QED BY <3>1, <4>1
    <3> QED BY <3>2, <3>3
  <2>2. AmountOf(u, Backing(u, id)) <= AmountOf(t, Backing(t, id)) + AmountOf(u, {k})
    BY <1>2, <1>3, <2>1, AmountsBound
  <2> QED BY <1>2, <1>6, <2>2 DEF Owed
<1>7. CASE c.res # id
  <2>1. k \notin Backing(u, id)
    BY <1>1, <1>7 DEF Backing
  <2>2. PICK over : over = Backing(t, id) \ Backing(u, id)
    OBVIOUS
  <2>3. \A n \in 1..MaxReservations :
          Weight(t, Backing(t, id), n) = Weight(t, over, n) + Weight(u, Backing(u, id), n)
    <3> SUFFICES ASSUME NEW n \in 1..MaxReservations
                 PROVE  Weight(t, Backing(t, id), n)
                          = Weight(t, over, n) + Weight(u, Backing(u, id), n)
      OBVIOUS
    <3>1. n \in Backing(t, id) => t[n].amount \in Nat
      BY <1>4
    <3>2. CASE n = k
      BY <2>1, <2>2, <3>1, <3>2 DEF Weight
    <3>3. CASE n # k
      <4>1. u[n] = t[n] /\ (n \in Backing(u, id) <=> n \in Backing(t, id))
        BY <1>1, <1>5, <3>3
      <4> QED BY <2>2, <3>1, <4>1 DEF Weight
    <3> QED BY <3>2, <3>3
  <2>4. Weighed(t, over)
    BY <2>2, BackingWeighed
  <2>5. AmountOf(t, Backing(t, id)) = AmountOf(t, over) + AmountOf(u, Backing(u, id))
    <3> DEFINE ns == Backing(t, id)
               ks == Backing(u, id)
    <3>1. /\ Weighed(t, ns) /\ Weighed(t, over) /\ Weighed(u, ks)
          /\ \A n \in 1..MaxReservations : Weight(t, ns, n) = Weight(t, over, n) + Weight(u, ks, n)
      BY <1>3, <2>3, <2>4
    <3> HIDE DEF ns, ks
    <3>2. AmountOf(t, ns) = AmountOf(t, over) + AmountOf(u, ks)
      BY ONLY <3>1, AmountsAdd
    <3> QED BY <3>2 DEF ns, ks
  <2>6. AmountOf(t, over) \in Nat /\ AmountOf(u, Backing(u, id)) \in Nat
    BY <1>3, <2>4, AmountIsNatural
  <2> QED BY <1>7, <2>5, <2>6 DEF Owed
<1> QED BY <1>6, <1>7

LEMMA ResourceInitHolds == ResourceInit => ResourceInv
<1> SUFFICES ASSUME ResourceInit PROVE ResourceInv OBVIOUS
<1>1. ResourceTypeOK
  BY ResourceAssumption DEF ResourceInit, ResourceTypeOK
<1>2. PromisedOnce /\ IdsGiven
  BY DEF ResourceInit, PromisedOnce, IdsGiven
<1> QED BY <1>1, <1>2 DEF ResourceInv, ResourcesSafe

LEMMA ResourceState ==
  ASSUME ResourceInv
  PROVE  /\ resources \in [1..MaxResources -> {NoResource} \cup Capacity]
         /\ reservations \in Claims
         /\ resourceCount \in 0..MaxResources /\ registered \in 0..MaxRegistered
         /\ reservationCount \in 0..MaxReservations
         /\ Backed(resources, reservations)
<1>1. ResourceTypeOK /\ PromisedOnce
  BY DEF ResourceInv, ResourcesSafe
<1>2. /\ resources \in [1..MaxResources -> {NoResource} \cup Capacity]
      /\ reservations \in Claims
      /\ resourceCount \in 0..MaxResources /\ registered \in 0..MaxRegistered
      /\ reservationCount \in 0..MaxReservations
  BY <1>1, ResourcesTyped
<1>3. DOMAIN resources = 1..MaxResources /\ DOMAIN reservations = 1..MaxReservations
  BY <1>2 DEF Claims
<1> QED BY <1>1, <1>2, <1>3, BackedIs

LEMMA RegisterKeeps ==
  ASSUME ResourceInv, NEW name \in ResourceNames, RegisterResource(name)
  PROVE  ResourceInv'
<1>1. /\ resources \in [1..MaxResources -> {NoResource} \cup Capacity]
      /\ reservations \in Claims /\ reservations' = reservations
      /\ resourceCount \in 0..MaxResources /\ registered \in 0..MaxRegistered
      /\ reservationCount \in 0..MaxReservations /\ reservationCount' = reservationCount
      /\ Backed(resources, reservations) /\ MaxResources \in Nat /\ MaxRegistered \in Nat
      /\ Total \in Nat
  BY ResourceState, ResourceAssumption DEF RegisterResource
<1> DEFINE k == resourceCount + 1
           id == registered + 1
           r == [id |-> registered + 1, name |-> name, used |-> 0, reserved |-> 0]
<1>2. /\ k \in 1..MaxResources /\ k = resourceCount' /\ resourceCount' \in 0..MaxResources
      /\ id \in 1..MaxRegistered /\ registered' = id /\ registered' \in 0..MaxRegistered
      /\ r \in Capacity /\ r.id = id /\ r.reserved = 0
  BY <1>1 DEF RegisterResource, Capacity
<1>3. resources' = [resources EXCEPT ![k] = r]
  BY DEF RegisterResource
<1> HIDE DEF k, r
<1>4. /\ resources' \in [1..MaxResources -> {NoResource} \cup Capacity]
      /\ resources'[k] = r /\ \A s \in 1..MaxResources : s # k => resources'[s] = resources[s]
  BY <1>1, <1>2, <1>3
<1>5. \A n \in 1..MaxReservations :
        reservations[n] # NoReservation => reservations[n].res # id /\ reservations[n].res <= id
  BY <1>1 DEF ResourceInv, IdsGiven, Claims, Claim
<1>6. Owed(reservations, id) = 0
  <2>1. Backing(reservations, id) = {}
    BY <1>5 DEF Backing
  <2>2. /\ Weighed(reservations, {})
        /\ \A n \in 1..MaxReservations :
             Weight(reservations, {}, n) = Weight(reservations, {}, n) + Weight(reservations, {}, n)
    BY DEF Weighed, Weight
  <2>3. AmountOf(reservations, {}) \in Nat
        /\ AmountOf(reservations, {}) = AmountOf(reservations, {}) + AmountOf(reservations, {})
    BY <2>2, AmountIsNatural, AmountsAdd
  <2>4. ASSUME NEW x \in Nat, x = x + x PROVE x = 0
    BY <2>4
  <2>5. AmountOf(reservations, {}) = 0
    BY <2>3, <2>4
  <2> QED BY <2>1, <2>5 DEF Owed
<1> HIDE DEF id
<1>7. Backed(resources', reservations')
  BY <1>1, <1>2, <1>4, <1>6 DEF Backed
<1>8. IdsGiven'
  <2>1. \A s \in 1..MaxResources :
          resources[s] # NoResource => resources[s].id < id /\ resources[s].id <= id
    BY <1>1 DEF ResourceInv, IdsGiven, Capacity, id
  <2>2. /\ id <= id
        /\ \A n \in 1..MaxReservations : reservations[n] # NoReservation => reservations[n].res <= id
    BY <1>1, <1>2, <1>5 DEF Claims, Claim
  <2> QED BY <1>1, <1>2, <1>4, <2>1, <2>2 DEF ResourceInv, IdsGiven
<1> QED BY <1>1, <1>2, <1>4, <1>7, <1>8, ResourceKeeps

LEMMA UnregisterKeeps ==
  ASSUME ResourceInv, NEW s \in 1..MaxResources, UnregisterResource(s)
  PROVE  ResourceInv'
<1>1. /\ resources \in [1..MaxResources -> {NoResource} \cup Capacity]
      /\ reservations \in Claims /\ reservations' = reservations
      /\ registered \in 0..MaxRegistered /\ registered' = registered
      /\ reservationCount \in 0..MaxReservations /\ reservationCount' = reservationCount
      /\ Backed(resources, reservations)
  BY ResourceState DEF UnregisterResource
<1>2. resourceCount' \in 0..MaxResources
  BY ResourceState, ResourceAssumption DEF UnregisterResource, Registered
<1>3. /\ resources' \in [1..MaxResources -> {NoResource} \cup Capacity]
      /\ \A t \in 1..MaxResources : resources'[t] = resources[t] \/ resources'[t] = NoResource
  BY <1>1 DEF UnregisterResource
<1>4. Backed(resources', reservations')
  BY <1>1, <1>3 DEF Backed
<1>5. IdsGiven'
  BY <1>1, <1>3 DEF ResourceInv, IdsGiven
<1> QED BY <1>1, <1>2, <1>3, <1>4, <1>5, ResourceKeeps

(* A change of one resource that leaves its id.                            *)
LEMMA CapacityKeeps ==
  ASSUME ResourceInv, NEW s \in Registered, NEW r \in Capacity, r.id = resources[s].id,
         resources' = [resources EXCEPT ![s] = r],
         UNCHANGED <<resourceCount, registered>>,
         reservations' \in Claims, reservationCount' \in 0..MaxReservations,
         \A n \in 1..MaxReservations :
           reservations'[n] # NoReservation => reservations'[n].res <= registered,
         \A t \in 1..MaxResources : resources[t] # NoResource /\ t # s =>
           Owed(reservations', resources[t].id) <= Owed(reservations, resources[t].id),
         Owed(reservations', r.id) <= r.reserved
  PROVE  ResourceInv'
<1>1. /\ resources \in [1..MaxResources -> {NoResource} \cup Capacity]
      /\ reservations \in Claims
      /\ registered \in 0..MaxRegistered /\ resourceCount \in 0..MaxResources
      /\ Backed(resources, reservations)
  BY ResourceState
<1>2. s \in 1..MaxResources /\ resources[s] # NoResource
  BY <1>1, ResourceAssumption DEF Registered
<1>3. /\ resources' \in [1..MaxResources -> {NoResource} \cup Capacity]
      /\ resources'[s] = r /\ \A t \in 1..MaxResources : t # s => resources'[t] = resources[t]
  BY <1>1, <1>2
<1>4. r.reserved <= Total
  BY ResourceAssumption DEF Capacity
<1>5. \A t \in 1..MaxResources : resources[t] # NoResource =>
        /\ Owed(reservations, resources[t].id) \in Nat
        /\ Owed(reservations', resources[t].id) \in Nat
        /\ resources[t].reserved \in Nat
  BY <1>1, BackingWeighed, ResourceAssumption DEF Capacity
<1>6. Backed(resources', reservations')
  <2> SUFFICES ASSUME NEW t \in 1..MaxResources, resources'[t] # NoResource
               PROVE  /\ Owed(reservations', resources'[t].id) <= resources'[t].reserved
                      /\ resources'[t].reserved <= Total
    BY DEF Backed
  <2>1. CASE t = s
    BY <1>3, <1>4, <2>1
  <2>2. CASE t # s
    <3>1. /\ resources'[t] = resources[t]
          /\ Owed(reservations', resources[t].id) <= Owed(reservations, resources[t].id)
      BY <1>3, <2>2
    <3>2. /\ Owed(reservations, resources[t].id) <= resources[t].reserved
          /\ resources[t].reserved <= Total
      BY <1>1, <3>1 DEF Backed
    <3> QED BY <1>5, <3>1, <3>2
  <2> QED BY <2>1, <2>2
<1>7. IdsGiven'
  <2>1. \A t \in 1..MaxResources :
          /\ resources'[t] # NoResource <=> resources[t] # NoResource
          /\ resources[t] # NoResource => resources'[t].id = resources[t].id
    BY <1>2, <1>3, NoneIsNoCapacity
  <2> QED BY <2>1 DEF ResourceInv, IdsGiven
<1> QED BY <1>1, <1>3, <1>6, <1>7, ResourceKeeps

LEMMA UsageKeeps ==
  ASSUME ResourceInv, NEW s \in 1..MaxResources, NEW used \in 0..Total, UpdateUsage(s, used)
  PROVE  ResourceInv'
<1>1. /\ resources \in [1..MaxResources -> {NoResource} \cup Capacity]
      /\ reservations \in Claims /\ reservations' = reservations
      /\ reservationCount \in 0..MaxReservations /\ reservationCount' = reservationCount
      /\ Backed(resources, reservations) /\ s \in Registered /\ resources[s] # NoResource
      /\ resources[s] \in Capacity
  BY ResourceState DEF UpdateUsage, Registered
<1> DEFINE r == [resources[s] EXCEPT !.used = used]
<1>2. r \in Capacity /\ r.id = resources[s].id /\ r.reserved = resources[s].reserved
  BY <1>1 DEF Capacity
<1>3. resources' = [resources EXCEPT ![s] = r] /\ UNCHANGED <<resourceCount, registered>>
  BY DEF UpdateUsage
<1> HIDE DEF r
<1>4. \A n \in 1..MaxReservations :
        reservations'[n] # NoReservation => reservations'[n].res <= registered
  BY <1>1 DEF ResourceInv, IdsGiven
<1>5. \A t \in 1..MaxResources : resources[t] # NoResource /\ t # s =>
        Owed(reservations', resources[t].id) <= Owed(reservations, resources[t].id)
  BY <1>1, BackingWeighed
<1>6. Owed(reservations', r.id) <= r.reserved
  BY <1>1, <1>2 DEF Backed
<1> QED BY <1>1, <1>2, <1>3, <1>4, <1>5, <1>6, CapacityKeeps

LEMMA ReserveKeeps ==
  ASSUME ResourceInv, NEW op \in Operations, NEW s \in 1..MaxResources,
         NEW amount \in 1..Total, Reserve(op, s, amount)
  PROVE  ResourceInv'
<1>1. /\ resources \in [1..MaxResources -> {NoResource} \cup Capacity]
      /\ reservations \in Claims
      /\ reservationCount \in 0..MaxReservations /\ registered \in 0..MaxRegistered
      /\ Backed(resources, reservations) /\ s \in Registered /\ resources[s] # NoResource
      /\ resources[s] \in Capacity /\ Total \in Nat
  BY ResourceState, ResourceAssumption DEF Reserve, Registered
<1> DEFINE r == [resources[s] EXCEPT !.reserved = @ + amount]
           c == [op |-> op, res |-> resources[s].id, amount |-> amount,
                 state |-> "RESERVED", overdue |-> FALSE]
           k == reservationCount + 1
<1>2. resources[s].reserved + amount \in 0..Total
  BY <1>1 DEF Reserve, Fits, Available, Less, Capacity
<1>3. /\ r \in Capacity /\ r.id = resources[s].id
      /\ r.reserved = resources[s].reserved + amount
  BY <1>1, <1>2 DEF Capacity
<1>4. c \in Claim /\ c.res = resources[s].id /\ c.amount = amount
  BY <1>1 DEF Claim, Capacity
<1>5. /\ resources' = [resources EXCEPT ![s] = r] /\ UNCHANGED <<resourceCount, registered>>
      /\ reservations' = [reservations EXCEPT ![k] = c] /\ reservationCount' = k
  BY DEF Reserve
<1>6. k \in 1..MaxReservations /\ k \in 0..MaxReservations
  BY <1>1, ResourceAssumption DEF Reserve
<1> HIDE DEF r, c, k
<1>7. /\ reservations' \in Claims /\ reservations'[k] = c
      /\ \A n \in 1..MaxReservations : n # k => reservations'[n] = reservations[n]
  BY <1>1, <1>4, <1>5, <1>6 DEF Claims
<1>8. \A n \in 1..MaxReservations :
        reservations'[n] # NoReservation => reservations'[n].res <= registered
  BY <1>1, <1>4, <1>7 DEF ResourceInv, IdsGiven
<1>9. \A id : Owed(reservations', id) <= Owed(reservations, id) + (IF c.res = id THEN c.amount ELSE 0)
  BY <1>1, <1>4, <1>5, <1>6, <1>7, OwedPut
<1>10. \A id : Owed(reservations, id) \in Nat
  BY <1>1, BackingWeighed
<1>11. \A t \in 1..MaxResources : resources[t] # NoResource /\ t # s =>
        Owed(reservations', resources[t].id) <= Owed(reservations, resources[t].id)
  <2>1. \A t \in 1..MaxResources : resources[t] # NoResource /\ t # s => resources[t].id # c.res
    BY <1>1, <1>4 DEF ResourceInv, IdsGiven
  <2> QED BY <1>9, <1>10, <2>1
<1>12. Owed(reservations', r.id) <= r.reserved
  <2>1. Owed(reservations, r.id) <= resources[s].reserved /\ resources[s].reserved \in Nat
    BY <1>1, <1>3 DEF Backed, Capacity
  <2>2. Owed(reservations', r.id) <= Owed(reservations, r.id) + amount
    BY <1>3, <1>4, <1>9
  <2>3. Owed(reservations', r.id) \in Nat /\ Owed(reservations, r.id) \in Nat
    BY <1>1, <1>7, BackingWeighed
  <2> QED BY <1>3, <2>1, <2>2, <2>3
<1> QED BY <1>1, <1>3, <1>5, <1>6, <1>7, <1>8, <1>11, <1>12, CapacityKeeps

(* Reservations that stay as they are, but for their state and age: what   *)
(* they hold is the same.                                                  *)
LEMMA ClaimsKeep ==
  ASSUME ResourceInv, UNCHANGED <<resources, resourceCount, registered, reservationCount>>,
         reservations' \in Claims,
         \A n \in 1..MaxReservations :
           /\ SameClaim(reservations[n], reservations'[n])
           /\ reservations'[n] # NoReservation =>
                reservations[n] # NoReservation /\ reservations'[n].res = reservations[n].res
  PROVE  ResourceInv'
<1>1. /\ resources \in [1..MaxResources -> {NoResource} \cup Capacity]
      /\ reservations \in Claims
      /\ resourceCount \in 0..MaxResources /\ registered \in 0..MaxRegistered
      /\ reservationCount \in 0..MaxReservations
      /\ Backed(resources, reservations)
  BY ResourceState
<1>2. \A id : Owed(reservations', id) = Owed(reservations, id)
  BY <1>1, OwedSame
<1>3. Backed(resources', reservations')
  BY <1>1, <1>2 DEF Backed
<1>4. IdsGiven'
  BY DEF ResourceInv, IdsGiven
<1> QED BY <1>1, <1>3, <1>4, ResourceKeeps

LEMMA ActivateClaimKeeps ==
  ASSUME ResourceInv, NEW n \in 1..MaxReservations, ActivateReservation(n)
  PROVE  ResourceInv'
<1>1. reservations \in Claims /\ reservations[n] \in Claim /\ reservations[n].state = "RESERVED"
  BY ResourceState DEF ActivateReservation, Known, Claims
<1> DEFINE c == [reservations[n] EXCEPT !.state = "ACTIVE"]
<1>2. /\ c \in Claim /\ c.state = "ACTIVE"
      /\ c.res = reservations[n].res /\ c.amount = reservations[n].amount
  BY <1>1 DEF Claim
<1>3. reservations' = [reservations EXCEPT ![n] = c]
  BY DEF ActivateReservation
<1> HIDE DEF c
<1>4. /\ reservations' \in Claims /\ reservations'[n] = c
      /\ \A m \in 1..MaxReservations : m # n => reservations'[m] = reservations[m]
  BY <1>1, <1>2, <1>3 DEF Claims
<1>5. \A m \in 1..MaxReservations :
        /\ SameClaim(reservations[m], reservations'[m])
        /\ reservations'[m] # NoReservation =>
             reservations[m] # NoReservation /\ reservations'[m].res = reservations[m].res
  <2>1. c # NoReservation /\ reservations[n] # NoReservation
    BY <1>1, <1>2, NoneIsNoClaim
  <2>2. SameClaim(reservations[n], c)
    BY <1>1, <1>2, <2>1 DEF SameClaim, Holds, Promised
  <2>3. \A x : SameClaim(x, x)
    BY DEF SameClaim
  <2> QED BY <1>2, <1>4, <2>1, <2>2, <2>3
<1> QED BY <1>4, <1>5, ClaimsKeep DEF ActivateReservation

LEMMA AgeKeeps == ASSUME ResourceInv, ResourceElapse PROVE ResourceInv'
<1>1. reservations \in Claims /\ DOMAIN reservations = 1..MaxReservations
  BY ResourceState DEF Claims
<1> DEFINE late(n) == [reservations[n] EXCEPT !.overdue = TRUE]
<1>2. reservations' = [n \in 1..MaxReservations |->
         IF Promised(reservations[n]) THEN late(n) ELSE reservations[n]]
  BY <1>1 DEF ResourceElapse
<1>3. ASSUME NEW n \in 1..MaxReservations, Promised(reservations[n])
      PROVE  /\ reservations[n] \in Claim /\ late(n) \in Claim
             /\ late(n).state = reservations[n].state /\ late(n).res = reservations[n].res
             /\ late(n).amount = reservations[n].amount
  <2>1. reservations[n] \in Claim
    BY <1>1, <1>3, NoneIsNoClaim DEF Claims
  <2> QED BY <2>1 DEF Claim
<1> HIDE DEF late
<1>4. /\ reservations' \in Claims
      /\ \A n \in 1..MaxReservations : reservations'[n] =
           IF Promised(reservations[n]) THEN late(n) ELSE reservations[n]
  BY <1>1, <1>2, <1>3 DEF Claims
<1>5. \A n \in 1..MaxReservations :
        /\ SameClaim(reservations[n], reservations'[n])
        /\ reservations'[n] # NoReservation =>
             reservations[n] # NoReservation /\ reservations'[n].res = reservations[n].res
  <2> SUFFICES ASSUME NEW n \in 1..MaxReservations
               PROVE  /\ SameClaim(reservations[n], reservations'[n])
                      /\ reservations'[n] # NoReservation =>
                           /\ reservations[n] # NoReservation
                           /\ reservations'[n].res = reservations[n].res
    OBVIOUS
  <2>1. CASE Promised(reservations[n])
    BY <1>3, <1>4, <2>1, NoneIsNoClaim DEF SameClaim, Holds, Promised
  <2>2. CASE ~ Promised(reservations[n])
    BY <1>4, <2>2 DEF SameClaim
  <2> QED BY <2>1, <2>2
<1> QED BY <1>4, <1>5, ClaimsKeep DEF ResourceElapse

(* Reservations end: what they held goes back to the resources that are    *)
(* found, and where it does not, less is owed all the same.                *)
LEMMA ReturnKeeps ==
  ASSUME ResourceInv, NEW ns \in SUBSET Known, \A n \in ns : Promised(reservations[n]),
         resources' = GivenBack(ns), UNCHANGED <<resourceCount, registered>>,
         reservations' \in Claims, reservationCount' \in 0..MaxReservations,
         \A n \in 1..MaxReservations :
           /\ IF n \in ns THEN ~ Holds(reservations'[n])
              ELSE SameClaim(reservations[n], reservations'[n])
           /\ reservations'[n] # NoReservation =>
                reservations[n] # NoReservation /\ reservations'[n].res = reservations[n].res
  PROVE  ResourceInv'
<1>1. /\ resources \in [1..MaxResources -> {NoResource} \cup Capacity]
      /\ reservations \in Claims /\ ns \in SUBSET (1..MaxReservations)
      /\ resourceCount \in 0..MaxResources /\ registered \in 0..MaxRegistered
      /\ Backed(resources, reservations) /\ Registered \subseteq 1..MaxResources
      /\ \A n \in ns : reservations[n] # NoReservation
      /\ Total \in Nat
  BY ResourceState, ResourceAssumption DEF Registered, Known
<1> DEFINE back(id) == AmountOf(reservations, Backing(reservations, id) \cap ns)
           less(s) == [resources[s] EXCEPT !.reserved = Less(@, back(resources[s].id))]
<1>2. \A id : /\ Owed(reservations, id) = back(id) + Owed(reservations', id)
              /\ back(id) \in Nat
  BY <1>1, OwedLess
<1>3. \A id : {n \in ns : reservations[n].res = id} = Backing(reservations, id) \cap ns
  BY <1>1 DEF Backing
<1>4. resources' = [s \in 1..MaxResources |-> IF s \in Registered THEN less(s) ELSE resources[s]]
  BY <1>1, <1>3 DEF GivenBack
<1>5. \A id : Owed(reservations', id) \in Nat /\ Owed(reservations, id) \in Nat
  BY BackingWeighed, <1>1
<1> HIDE DEF back
<1>6. ASSUME NEW s \in Registered
      PROVE  /\ resources[s] # NoResource /\ resources[s] \in Capacity
             /\ less(s) \in Capacity /\ less(s).id = resources[s].id
             /\ less(s).reserved = Less(resources[s].reserved, back(resources[s].id))
  <2>1. resources[s] # NoResource /\ resources[s] \in Capacity
    BY <1>1 DEF Registered
  <2>2. Less(resources[s].reserved, back(resources[s].id)) \in 0..Total
    BY <1>1, <1>2, <2>1 DEF Less, Capacity
  <2> QED BY <2>1, <2>2 DEF Capacity
<1> HIDE DEF less
<1>7. /\ resources' \in [1..MaxResources -> {NoResource} \cup Capacity]
      /\ \A s \in 1..MaxResources :
           resources'[s] = IF s \in Registered THEN less(s) ELSE resources[s]
  BY <1>1, <1>4, <1>6
<1>8. Backed(resources', reservations')
  <2> SUFFICES ASSUME NEW s \in 1..MaxResources, resources'[s] # NoResource
               PROVE  /\ Owed(reservations', resources'[s].id) <= resources'[s].reserved
                      /\ resources'[s].reserved <= Total
    BY DEF Backed
  <2>1. resources[s] # NoResource /\ resources[s] \in Capacity /\ resources'[s] \in Capacity
        /\ resources'[s].id = resources[s].id
    BY <1>1, <1>6, <1>7
  <2>2. Owed(reservations, resources[s].id) <= resources[s].reserved
    BY <1>1, <2>1 DEF Backed
  <2> DEFINE id == resources[s].id
             had == resources[s].reserved
  <2>3. /\ Owed(reservations, id) = back(id) + Owed(reservations', id) /\ back(id) \in Nat
        /\ Owed(reservations', id) \in Nat /\ had \in Nat /\ had <= Total
    BY <1>1, <1>2, <1>5, <2>1 DEF Capacity
  <2>4. resources'[s].reserved \in {had, Less(had, back(id))}
    BY <1>6, <1>7
  <2> HIDE DEF had, id
  <2>5. /\ Owed(reservations', id) <= resources'[s].reserved /\ resources'[s].reserved <= Total
    <3>1. Owed(reservations, id) <= had
      BY <2>2 DEF had, id
    <3> QED BY <1>1, <2>3, <2>4, <3>1 DEF Less
  <2> QED BY <2>1, <2>5 DEF id
<1>9. IdsGiven'
  <2>1. \A t \in 1..MaxResources :
          /\ resources'[t] # NoResource <=> resources[t] # NoResource
          /\ resources[t] # NoResource => resources'[t].id = resources[t].id
    BY <1>6, <1>7, NoneIsNoCapacity
  <2> QED BY <2>1 DEF ResourceInv, IdsGiven
<1> QED BY <1>1, <1>7, <1>8, <1>9, ResourceKeeps

LEMMA EndClaimKeeps ==
  ASSUME ResourceInv, NEW n \in 1..MaxReservations, NEW ending \in {"RELEASED", "CANCELLED"},
         EndReservation(n, ending)
  PROVE  ResourceInv'
<1>1. /\ reservations \in Claims /\ reservations[n] \in Claim /\ n \in Known
      /\ Promised(reservations[n])
      /\ reservationCount \in 0..MaxReservations /\ reservationCount' = reservationCount
  BY ResourceState DEF EndReservation, Returnable, Known, Claims
<1> DEFINE c == [reservations[n] EXCEPT !.state = ending]
<1>2. /\ c \in Claim /\ c.state = ending /\ c.res = reservations[n].res
  BY <1>1 DEF Claim
<1>3. reservations' = [reservations EXCEPT ![n] = c]
  BY DEF EndReservation
<1> HIDE DEF c
<1>4. /\ reservations' \in Claims /\ reservations'[n] = c
      /\ \A m \in 1..MaxReservations : m # n => reservations'[m] = reservations[m]
  BY <1>1, <1>2, <1>3 DEF Claims
<1>5. ~ Holds(c) /\ reservations[n] # NoReservation
  BY <1>1, <1>2, NoneIsNoClaim DEF Holds, Promised
<1>6. PICK ns \in SUBSET Known : ns = {n}
  BY <1>1
<1>7. \A m \in 1..MaxReservations :
        /\ IF m \in ns THEN ~ Holds(reservations'[m])
           ELSE SameClaim(reservations[m], reservations'[m])
        /\ reservations'[m] # NoReservation =>
             reservations[m] # NoReservation /\ reservations'[m].res = reservations[m].res
  <2>1. \A x : SameClaim(x, x)
    BY DEF SameClaim
  <2> QED BY <1>2, <1>4, <1>5, <1>6, <2>1
<1>8. /\ \A m \in ns : Promised(reservations[m])
      /\ resources' = GivenBack(ns) /\ UNCHANGED <<resourceCount, registered>>
  BY <1>1, <1>6 DEF EndReservation
<1> QED BY <1>1, <1>4, <1>7, <1>8, ReturnKeeps

LEMMA CleanupClaimsKeeps == ASSUME ResourceInv, CleanupReservations PROVE ResourceInv'
<1>1. /\ reservations \in Claims /\ DOMAIN reservations = 1..MaxReservations
      /\ reservationCount \in 0..MaxReservations
  BY ResourceState DEF Claims
<1>2. PICK ns \in SUBSET Known :
        ns = {n \in Known : Promised(reservations[n]) /\ reservations[n].overdue}
  OBVIOUS
<1>3. /\ resources' = GivenBack(ns) /\ UNCHANGED <<resourceCount, registered>>
      /\ reservations' = [n \in 1..MaxReservations |->
                            IF n \in ns THEN NoReservation ELSE reservations[n]]
      /\ reservationCount' = reservationCount - Cardinality(ns)
  BY <1>1, <1>2 DEF CleanupReservations
<1>4. reservationCount' \in 0..MaxReservations
  <2>1. IsFiniteSet(1..reservationCount) /\ Cardinality(1..reservationCount) = reservationCount
    BY <1>1, FS_Interval
  <2>2. ns \subseteq 1..reservationCount
    BY DEF Known
  <2>3. Cardinality(ns) <= reservationCount /\ Cardinality(ns) \in Nat
    BY <2>1, <2>2, FS_Subset, FS_CardinalityType
  <2> QED BY <1>1, <1>3, <2>3, ResourceAssumption
<1>5. reservations' \in Claims
  BY <1>1, <1>3 DEF Claims
<1>6. \A m \in 1..MaxReservations :
        /\ IF m \in ns THEN ~ Holds(reservations'[m])
           ELSE SameClaim(reservations[m], reservations'[m])
        /\ reservations'[m] # NoReservation =>
             reservations[m] # NoReservation /\ reservations'[m].res = reservations[m].res
  <2>1. (\A x : SameClaim(x, x)) /\ ~ Holds(NoReservation)
    BY DEF SameClaim, Holds
  <2> QED BY <1>3, <2>1
<1>7. \A m \in ns : Promised(reservations[m])
  BY <1>2
<1> QED BY <1>3, <1>4, <1>5, <1>6, <1>7, ReturnKeeps

LEMMA ResourceStepHolds == ResourceInv /\ [ResourceNext]_resourceVars => ResourceInv'
<1> SUFFICES ASSUME ResourceInv, [ResourceNext]_resourceVars PROVE ResourceInv' OBVIOUS
<1>1. CASE UNCHANGED resourceVars
  <2>1. /\ UNCHANGED <<resources, resourceCount, registered, reservationCount>>
        /\ reservations' = reservations /\ reservations' \in Claims
    BY <1>1, ResourceState DEF resourceVars
  <2>2. \A x : SameClaim(x, x)
    BY DEF SameClaim
  <2> QED BY <2>1, <2>2, ClaimsKeep
<1>2. ASSUME NEW name \in ResourceNames, RegisterResource(name) PROVE ResourceInv'
  BY <1>2, RegisterKeeps
<1>3. ASSUME NEW s \in 1..MaxResources, UnregisterResource(s) PROVE ResourceInv'
  BY <1>3, UnregisterKeeps
<1>4. ASSUME NEW s \in 1..MaxResources, NEW used \in 0..Total, UpdateUsage(s, used)
      PROVE  ResourceInv'
  BY <1>4, UsageKeeps
<1>5. ASSUME NEW s \in 1..MaxResources, NEW op \in Operations, NEW amount \in 1..Total,
             Reserve(op, s, amount)
      PROVE  ResourceInv'
  BY <1>5, ReserveKeeps
<1>6. ASSUME NEW n \in 1..MaxReservations, ActivateReservation(n) PROVE ResourceInv'
  BY <1>6, ActivateClaimKeeps
<1>7. ASSUME NEW n \in 1..MaxReservations, NEW ending \in {"RELEASED", "CANCELLED"},
             EndReservation(n, ending)
      PROVE  ResourceInv'
  BY <1>7, EndClaimKeeps
<1>8. CASE CleanupReservations
  BY <1>8, CleanupClaimsKeeps
<1>9. CASE ResourceElapse
  BY <1>9, AgeKeeps
<1> QED
  BY <1>1, <1>2, <1>3, <1>4, <1>5, <1>6, <1>7, <1>8, <1>9 DEF ResourceNext

(* No capacity is promised twice, and nobody holds a device that was lost, *)
(* for any number of resources, reservations and devices: whatever entries *)
(* are lost behind the counts and written over (ozayn_rcm_reservation_...,  *)
(* ozayn_dio_reservation_..., ozayn_dio_device_disconnect).                *)
THEOREM PromisesHold == ContinuitySpec => []PromisesKept
<1>1. ContinuityInit => ResourceInv /\ DeviceInv
  BY ResourceInitHolds, DeviceInitHolds DEF ContinuityInit
<1>2. ResourceInv /\ DeviceInv /\ [ContinuityNext]_continuityVars => ResourceInv' /\ DeviceInv'
  BY EachKeepsItsOwn, ResourceStepHolds, DeviceStepHolds
<1>3. ResourceInv /\ DeviceInv => PromisesKept
  BY DEF ResourceInv, DeviceInv, PromisesKept
<1> QED
  BY <1>1, <1>2, <1>3, PTL DEF ContinuitySpec, continuityVars

-----------------------------------------------------------------------------
(* Streams                                                                 *)

StreamEntry == [state : StreamStates, policy : Policies, maxUnit : MaxUnits,
                depth : 0..MaxDepth, occupied : Int]

(* What is buffered is no more than what the queued units can be: so an    *)
(* empty queue takes nothing, and one that takes too much is not empty.    *)
SoundStream(st) ==
  /\ st \in StreamEntry /\ st.occupied <= MaxBuffer /\ (st.depth = 0 => st.occupied >= 0)
  /\ Accountable(st) => st.occupied <= st.depth * st.maxUnit
  /\ st.state = "BACKPRESSURED" /\ Accountable(st) /\ st.maxUnit <= MaxBuffer /\ MaxDepth >= 2
       => st.depth > 0

StreamInv ==
  /\ DOMAIN streams = StreamSlots
  /\ streams = [s \in StreamSlots |-> streams[s]]
  /\ \A s \in StreamSlots : streams[s] = NoStream \/ SoundStream(streams[s])

LEMMA NoneIsNoStream == NoStream \notin StreamEntry
<1>1. \A st \in StreamEntry : st.state # "NONE"
  BY DEF StreamEntry, StreamStates
<1> QED BY <1>1 DEF NoStream

LEMMA StreamInvSuffices == StreamInv => StreamsSafe
<1> SUFFICES ASSUME StreamInv PROVE StreamsSafe OBVIOUS
<1>2. ASSUME NEW s \in Streaming PROVE SoundStream(streams[s])
  BY <1>2 DEF StreamInv, Streaming
<1>1. StreamTypeOK
  BY <1>2 DEF StreamInv, StreamTypeOK, SoundStream, StreamEntry
<1>3. NothingLost
  <2> SUFFICES ASSUME NEW s \in Streaming, Accountable(streams[s]), streams[s].depth = 0
               PROVE  streams[s].occupied = 0
    BY DEF NothingLost
  <2>1. /\ streams[s].occupied \in Int /\ streams[s].occupied >= 0 /\ streams[s].maxUnit \in Nat
        /\ streams[s].occupied <= 0 * streams[s].maxUnit
    BY <1>2, StreamAssumption DEF SoundStream, StreamEntry
  <2> QED BY <2>1
<1>4. BackpressureEnds
  BY <1>2 DEF BackpressureEnds, SoundStream
<1> QED BY <1>1, <1>3, <1>4 DEF StreamsSafe

(* What a stream becomes when a unit is pulled, dropped or stored.         *)
LEMMA WithoutOne ==
  ASSUME NEW st, SoundStream(st), st.depth > 0, NEW size \in {st.maxUnit, Pulled(st)}
  PROVE  /\ Without(st, size) \in 0..MaxBuffer
         /\ st.depth - 1 \in 0..MaxDepth
         /\ Accountable(st) => Without(st, size) <= (st.depth - 1) * st.maxUnit
<1>1. /\ st.depth \in 0..MaxDepth /\ st.occupied \in Int /\ st.occupied <= MaxBuffer /\ st.maxUnit \in Nat
      /\ MaxDepth \in Nat /\ MaxBuffer \in Nat /\ PullSize \in Nat
  BY StreamAssumption DEF SoundStream, StreamEntry
<1>2. size \in Nat /\ (Accountable(st) => size = st.maxUnit)
  BY <1>1 DEF Pulled, Accountable
<1>3. Without(st, size) \in 0..MaxBuffer
  BY <1>1, <1>2 DEF Without
<1>4. ASSUME Accountable(st) PROVE Without(st, size) <= (st.depth - 1) * st.maxUnit
  <2>1. st.occupied <= st.depth * st.maxUnit /\ size = st.maxUnit
    BY <1>2, <1>4 DEF SoundStream
  <2>2. (st.depth - 1) * st.maxUnit = st.depth * st.maxUnit - st.maxUnit
    BY <1>1
  <2>3. (st.depth - 1) * st.maxUnit \in Nat
    <3>1. st.depth - 1 \in Nat
      BY <1>1
    <3> QED BY <1>1, <3>1
  <2>4. st.depth * st.maxUnit \in Nat
    BY <1>1
  <2> QED BY <1>1, <2>1, <2>2, <2>3, <2>4 DEF Without
<1> QED BY <1>1, <1>3, <1>4

Stored(st, size) ==
  IF st.occupied + size > MaxBuffer THEN [st EXCEPT !.state = "BACKPRESSURED"]
  ELSE [st EXCEPT !.occupied = @ + size, !.depth = @ + 1]

(* A unit is stored, or held back by a stream that is not empty.           *)
LEMMA StoredIsSound ==
  ASSUME NEW st \in StreamEntry, Accountable(st) => st.occupied <= st.depth * st.maxUnit,
         st.depth < MaxDepth, NEW size \in Int, size <= st.maxUnit,
         st.occupied <= MaxBuffer, st.depth = 0 => st.occupied >= 0,
         st.state = "BACKPRESSURED" /\ Accountable(st) /\ st.maxUnit <= MaxBuffer /\ MaxDepth >= 2
           => st.depth > 0
  PROVE  SoundStream(Stored(st, size))
<1>1. /\ st.depth \in 0..MaxDepth /\ st.occupied \in Int /\ st.maxUnit \in Nat
      /\ MaxDepth \in Nat /\ MaxBuffer \in Nat
  BY StreamAssumption DEF StreamEntry
<1>2. CASE st.occupied + size > MaxBuffer
  <2> DEFINE held_back == [st EXCEPT !.state = "BACKPRESSURED"]
  <2>1. /\ held_back \in StreamEntry /\ held_back.depth = st.depth
        /\ held_back.occupied = st.occupied /\ held_back.maxUnit = st.maxUnit
    BY DEF StreamEntry, StreamStates
  <2>2. Stored(st, size) = held_back
    BY <1>2 DEF Stored
  <2> HIDE DEF held_back
  <2>3. ASSUME Accountable(st), st.maxUnit <= MaxBuffer PROVE st.depth > 0
    <3>1. st.depth = 0 => st.occupied <= 0 * st.maxUnit
      BY <2>3
    <3>2. st.depth = 0 => st.occupied = 0
      BY <1>1, <3>1
    <3> QED BY <1>1, <1>2, <2>3, <3>2
  <2> QED BY <2>1, <2>2, <2>3 DEF SoundStream, Accountable
<1>3. CASE ~(st.occupied + size > MaxBuffer)
  <2> DEFINE more == [st EXCEPT !.occupied = @ + size, !.depth = @ + 1]
  <2>1. st.occupied + size \in Int /\ st.occupied + size <= MaxBuffer /\ st.depth + 1 \in 0..MaxDepth /\ st.depth + 1 > 0
    BY <1>1, <1>3
  <2>2. /\ more \in StreamEntry /\ more.depth = st.depth + 1
        /\ more.occupied = st.occupied + size /\ more.maxUnit = st.maxUnit
    BY <2>1 DEF StreamEntry
  <2>3. Stored(st, size) = more
    BY <1>3 DEF Stored
  <2> HIDE DEF more
  <2>4. ASSUME Accountable(st) PROVE st.occupied + size <= (st.depth + 1) * st.maxUnit
    <3>1. (st.depth + 1) * st.maxUnit = st.depth * st.maxUnit + st.maxUnit
      BY <1>1
    <3>2. st.depth * st.maxUnit \in Nat
      BY <1>1
    <3> QED BY <1>1, <2>4, <3>1, <3>2
  <2> QED BY <2>1, <2>2, <2>3, <2>4 DEF SoundStream, Accountable
<1> QED BY <1>2, <1>3

(* One stream changes into a sound one, or into none.                      *)
LEMMA StreamChanges ==
  ASSUME StreamInv, NEW s \in StreamSlots, NEW r, r = NoStream \/ SoundStream(r),
         streams' = [streams EXCEPT ![s] = r]
  PROVE  StreamInv'
BY DEF StreamInv

LEMMA PushKeeps ==
  ASSUME StreamInv, NEW s \in StreamSlots, NEW size \in -MaxNegative..MaxBuffer + 1, Push(s, size)
  PROVE  StreamInv'
<1>1. PICK st : st = streams[s]
  OBVIOUS
<1>2. /\ SoundStream(st) /\ st \in StreamEntry /\ size <= st.maxUnit /\ size \in Int
      /\ st.depth \in 0..MaxDepth /\ MaxDepth \in Nat /\ MaxDepth > 0
  <2>1. SoundStream(st)
    BY <1>1 DEF StreamInv, Push, Streaming
  <2> QED BY <1>1, <2>1, StreamAssumption DEF Push, SoundStream, StreamEntry
<1>3. CASE st.depth < MaxDepth /\ Store(s, st, size)
  <2>1. streams' = [streams EXCEPT ![s] = Stored(st, size)]
    BY <1>3 DEF Store, Stored
  <2>2. SoundStream(Stored(st, size))
    BY <1>2, <1>3, StoredIsSound DEF SoundStream
  <2> QED BY <2>1, <2>2, StreamChanges
<1>4. CASE /\ st.depth >= MaxDepth
           /\ Store(s, [st EXCEPT !.depth = @ - 1, !.occupied = Without(st, st.maxUnit)], size)
  <2>1. PICK left : left = [st EXCEPT !.depth = @ - 1, !.occupied = Without(st, st.maxUnit)]
    OBVIOUS
  <2>2. /\ Without(st, st.maxUnit) \in 0..MaxBuffer /\ st.depth - 1 \in 0..MaxDepth
        /\ Accountable(st) => Without(st, st.maxUnit) <= (st.depth - 1) * st.maxUnit
    BY <1>2, <1>4, WithoutOne
  <2>3. MaxBuffer \in Nat
    BY StreamAssumption
  <2>5. /\ left \in StreamEntry /\ left.occupied >= 0 /\ left.occupied <= MaxBuffer /\ left.depth = st.depth - 1 /\ left.maxUnit = st.maxUnit
        /\ left.occupied = Without(st, st.maxUnit) /\ left.state = st.state
    <3> DEFINE bytes == Without(st, st.maxUnit)
    <3>1. bytes \in Int /\ bytes >= 0 /\ bytes <= MaxBuffer
      BY <2>2, <2>3
    <3> HIDE DEF bytes
    <3>2. left = [[st EXCEPT !.depth = st.depth - 1] EXCEPT !.occupied = bytes]
      BY <1>2, <2>1 DEF bytes, StreamEntry
    <3>3. /\ left \in StreamEntry /\ left.occupied = bytes /\ left.depth = st.depth - 1
          /\ left.maxUnit = st.maxUnit /\ left.state = st.state
      BY <1>2, <2>2, <3>1, <3>2 DEF StreamEntry
    <3> QED BY <3>1, <3>3 DEF bytes
  <2>6. /\ left.depth < MaxDepth /\ (MaxDepth >= 2 => left.depth > 0)
    BY <1>2, <1>4, <2>5
  <2>7. Accountable(left) => left.occupied <= left.depth * left.maxUnit
    BY <2>2, <2>5 DEF Accountable
  <2>8. streams' = [streams EXCEPT ![s] = Stored(left, size)]
    BY <1>4, <2>1 DEF Store, Stored
  <2>9. SoundStream(Stored(left, size))
    BY <1>2, <2>5, <2>6, <2>7, StoredIsSound
  <2> QED BY <2>8, <2>9, StreamChanges
<1>5. CASE streams' = [streams EXCEPT ![s] = NoStream]
  BY <1>5, StreamChanges
<1> QED BY <1>1, <1>3, <1>4, <1>5 DEF Push

LEMMA PullKeeps ==
  ASSUME StreamInv, NEW s \in StreamSlots, Pull(s)
  PROVE  StreamInv'
<1>1. PICK st : st = streams[s]
  OBVIOUS
<1>2. /\ SoundStream(st) /\ st \in StreamEntry /\ st.depth > 0
      /\ st.depth \in 0..MaxDepth /\ st.occupied \in Int
      /\ MaxDepth \in Nat /\ MaxBuffer \in Nat
  <2>1. SoundStream(st)
    BY <1>1 DEF StreamInv, Pull, Streaming
  <2> QED BY <1>1, <2>1, StreamAssumption DEF Pull, SoundStream, StreamEntry
<1>3. PICK rest : rest = [st EXCEPT !.depth = @ - 1, !.occupied = Without(st, Pulled(st))]
  OBVIOUS
<1>4. /\ Without(st, Pulled(st)) \in 0..MaxBuffer /\ st.depth - 1 \in 0..MaxDepth
      /\ Accountable(st) => Without(st, Pulled(st)) <= (st.depth - 1) * st.maxUnit
  BY <1>2, WithoutOne
<1>6. /\ rest \in StreamEntry /\ rest.occupied >= 0 /\ rest.occupied <= MaxBuffer /\ rest.depth = st.depth - 1 /\ rest.maxUnit = st.maxUnit
      /\ rest.occupied = Without(st, Pulled(st)) /\ rest.state = st.state
  <2> DEFINE bytes == Without(st, Pulled(st))
  <2>1. bytes \in Int /\ bytes >= 0 /\ bytes <= MaxBuffer
    BY <1>2, <1>4
  <2> HIDE DEF bytes
  <2>2. rest = [[st EXCEPT !.depth = st.depth - 1] EXCEPT !.occupied = bytes]
    BY <1>2, <1>3 DEF bytes, StreamEntry
  <2>3. /\ rest \in StreamEntry /\ rest.occupied = bytes /\ rest.depth = st.depth - 1
        /\ rest.maxUnit = st.maxUnit /\ rest.state = st.state
    BY <1>2, <1>4, <2>1, <2>2 DEF StreamEntry
  <2> QED BY <2>1, <2>3 DEF bytes
<1>7. Accountable(rest) => rest.occupied <= rest.depth * rest.maxUnit
  BY <1>4, <1>6 DEF Accountable
<1>8. streams' = [streams EXCEPT ![s] =
        IF st.state = "BACKPRESSURED" /\ Relieved(rest.depth)
        THEN [rest EXCEPT !.state = "ACTIVE"] ELSE rest]
  BY <1>1, <1>3 DEF Pull
<1>9. CASE st.state = "BACKPRESSURED" /\ Relieved(rest.depth)
  <2> DEFINE freed == [rest EXCEPT !.state = "ACTIVE"]
  <2>1. /\ freed \in StreamEntry /\ freed.depth = rest.depth /\ freed.maxUnit = rest.maxUnit
        /\ freed.occupied = rest.occupied /\ freed.state = "ACTIVE"
    BY <1>6 DEF StreamEntry, StreamStates
  <2>2. streams' = [streams EXCEPT ![s] = freed]
    BY <1>8, <1>9
  <2> HIDE DEF freed
  <2>3. SoundStream(freed)
    BY <1>6, <1>7, <2>1 DEF SoundStream, Accountable
  <2> QED BY <2>2, <2>3, StreamChanges
<1>10. CASE ~(st.state = "BACKPRESSURED" /\ Relieved(rest.depth))
  <2>1. ASSUME rest.state = "BACKPRESSURED", MaxDepth >= 2 PROVE rest.depth > 0
    <3>1. ~(rest.depth < MaxDepth \div 2)
      BY <1>6, <1>10, <2>1 DEF Relieved
    <3>2. MaxDepth \div 2 >= 1 /\ MaxDepth \div 2 \in Nat
      BY <1>2, <2>1
    <3> QED BY <1>4, <1>6, <3>1, <3>2
  <2>2. SoundStream(rest)
    BY <1>6, <1>7, <2>1 DEF SoundStream
  <2> QED BY <1>8, <1>10, <2>2, StreamChanges
<1> QED BY <1>9, <1>10

LEMMA StreamInitHolds == StreamInit => StreamInv
BY DEF StreamInit, StreamInv

LEMMA StreamStepHolds == StreamInv /\ [StreamNext]_streams => StreamInv'
<1> SUFFICES ASSUME StreamInv, [StreamNext]_streams PROVE StreamInv' OBVIOUS
<1>1. CASE UNCHANGED streams
  BY <1>1 DEF StreamInv
<1>2. ASSUME NEW s \in StreamSlots, NEW policy \in Policies, NEW maxUnit \in MaxUnits,
             CreateStream(s, policy, maxUnit)
      PROVE  StreamInv'
  <2> DEFINE st == [state |-> "REQUESTED", policy |-> policy, maxUnit |-> maxUnit,
                    depth |-> 0, occupied |-> 0]
  <2>1. /\ st \in StreamEntry /\ st.occupied = 0 /\ st.depth = 0 /\ st.maxUnit \in Nat
        /\ st.state = "REQUESTED"
    BY StreamAssumption DEF StreamEntry, StreamStates
  <2>2. streams' = [streams EXCEPT ![s] = st]
    BY <1>2 DEF CreateStream
  <2> HIDE DEF st
  <2>3. 0 <= 0 * st.maxUnit
    BY <2>1
  <2>4. SoundStream(st)
    BY <2>1, <2>3, StreamAssumption DEF SoundStream
  <2> QED BY <2>2, <2>4, StreamChanges
<1>3. ASSUME NEW s \in StreamSlots, NEW to \in StreamStates,
             streams' = [streams EXCEPT ![s].state = to], s \in Streaming, to # "BACKPRESSURED"
      PROVE  StreamInv'
  <2> DEFINE st == [streams[s] EXCEPT !.state = to]
  <2>1. SoundStream(streams[s])
    BY <1>3 DEF StreamInv, Streaming
  <2>2. /\ st \in StreamEntry /\ st.occupied = streams[s].occupied /\ st.depth = streams[s].depth
        /\ st.maxUnit = streams[s].maxUnit /\ st.state = to
    BY <2>1 DEF SoundStream, StreamEntry
  <2>3. streams' = [streams EXCEPT ![s] = st]
    BY <1>3
  <2> HIDE DEF st
  <2>4. SoundStream(st)
    BY <1>3, <2>1, <2>2 DEF SoundStream, Accountable
  <2> QED BY <2>3, <2>4, StreamChanges
<1>4. ASSUME NEW s \in StreamSlots, NEW to \in StreamStates, MoveStream(s, to) PROVE StreamInv'
  BY <1>3, <1>4 DEF MoveStream, StreamMoves
<1>5. ASSUME NEW s \in StreamSlots, DeviceGone(s) PROVE StreamInv'
  BY <1>3, <1>5 DEF DeviceGone, StreamStates
<1>6. ASSUME NEW s \in StreamSlots, EndStream(s) PROVE StreamInv'
  BY <1>6, StreamChanges DEF EndStream
<1>7. ASSUME CleanupStreams PROVE StreamInv'
  BY <1>7 DEF CleanupStreams, StreamInv
<1> QED BY <1>1, <1>2, <1>4, <1>5, <1>6, <1>7, PushKeeps, PullKeeps DEF StreamNext

-----------------------------------------------------------------------------
(* Routes                                                                  *)

Route == [stream : Streams, source : Endpoints, destination : Endpoints,
          state : {"REQUESTED", "AUTHORIZED", "CONNECTING", "ACTIVE", "PAUSED"}]

LEMMA RoutesTyped ==
  ASSUME RouteTypeOK
  PROVE  /\ routes \in [1..MaxRoutes -> {NoRoute} \cup Route] /\ endpoints \subseteq Endpoints
         /\ \A i \in Routed : i \in 1..MaxRoutes /\ routes[i] \in Route
BY DEF RouteTypeOK, Route, Routed

LEMMA NoneIsNoRoute == NoRoute \notin Route
<1>1. \A r \in Route : r.state # "NONE"
  BY DEF Route
<1> QED BY <1>1 DEF NoRoute

(* The endpoints one call of _check_loop is true of, from those it is true *)
(* of with one step less to go.                                            *)
Further(source, S) ==
  {at \in Endpoints :
     at = source \/ \E i \in Routed : routes[i].source = at /\ routes[i].destination \in S}

Looking(source, f) ==
  f = [d \in 0..LoopDepth |->
         IF d = 0 THEN Endpoints
         ELSE {at \in Endpoints :
                 \/ at = source
                 \/ \E i \in Routed :
                      routes[i].source = at /\ routes[i].destination \in f[d - 1]}]

LooksUpTo(source, f, n) ==
  \A d \in 0..n : f[d] = IF d = 0 THEN Endpoints ELSE Further(source, f[d - 1])

LEMMA LookingExists ==
  ASSUME NEW source
  PROVE  \E f : Looking(source, f)
<1> DEFINE Short == {n \in Nat : ~ \E f : DOMAIN f = 0..n /\ LooksUpTo(source, f, n)}
<1>1. Short = {}
  <2> SUFFICES ASSUME Short # {} PROVE FALSE OBVIOUS
  <2>1. PICK n \in Short : \A m \in Short : n <= m
    BY HasLeast
  <2>2. n # 0
    <3> DEFINE f == [m \in 0..0 |-> Endpoints]
    <3>1. DOMAIN f = 0..0 /\ LooksUpTo(source, f, 0)
      BY DEF LooksUpTo
    <3> HIDE DEF f
    <3> QED BY <2>1, <3>1
  <2>3. n - 1 \in Nat /\ n - 1 \notin Short
    BY <2>1, <2>2
  <2>4. PICK f : DOMAIN f = 0..(n - 1) /\ LooksUpTo(source, f, n - 1)
    BY <2>3
  <2> DEFINE next == Further(source, f[n - 1])
             g == [m \in 0..n |-> IF m = n THEN next ELSE f[m]]
  <2>5. DOMAIN g = 0..n /\ g[n] = next /\ \A m \in 0..(n - 1) : g[m] = f[m]
    BY <2>1
  <2>6. ASSUME NEW m \in 0..n
        PROVE  g[m] = IF m = 0 THEN Endpoints ELSE Further(source, g[m - 1])
    <3>1. CASE m = n
      <4>1. n - 1 \in 0..(n - 1) /\ g[n - 1] = f[n - 1]
        BY <2>1, <2>3, <2>5
      <4> HIDE DEF g
      <4> QED BY <2>2, <2>5, <3>1, <4>1
    <3>2. CASE m # n
      <4>1. m \in 0..(n - 1) /\ (m # 0 => m - 1 \in 0..(n - 1))
        BY <2>1, <3>2
      <4> HIDE DEF g
      <4> QED BY <2>4, <2>5, <4>1 DEF LooksUpTo
    <3> QED BY <3>1, <3>2
  <2> HIDE DEF g
  <2>7. LooksUpTo(source, g, n)
    BY <2>6 DEF LooksUpTo
  <2> QED BY <2>1, <2>5, <2>7
<1>2. PICK f : DOMAIN f = 0..LoopDepth /\ LooksUpTo(source, f, LoopDepth)
  BY <1>1, RouteAssumption
<1> DEFINE g == [m \in 0..LoopDepth |-> f[m]]
<1>3. ASSUME NEW m \in 0..LoopDepth
      PROVE  g[m] = f[m] /\ (m # 0 => m - 1 \in 0..LoopDepth /\ g[m - 1] = f[m - 1])
  BY RouteAssumption
<1> HIDE DEF g
<1>4. g = [m \in 0..LoopDepth |-> g[m]]
  BY DEF g
<1>5. \A m \in 0..LoopDepth : g[m] = IF m = 0 THEN Endpoints ELSE Further(source, g[m - 1])
  BY <1>2, <1>3 DEF LooksUpTo
<1>6. Looking(source, g)
  BY <1>4, <1>5 DEF Looking, Further
<1> QED BY <1>6

(* A set of routes each of which goes on in the set.                       *)
Circle(C) == \A i \in C : \E j \in C : routes[j].source = routes[i].destination

(* _check_loop finds every circle: however far it looks, each route of a   *)
(* circle starts where it says yes.                                        *)
LEMMA CircleIsFound ==
  ASSUME RouteTypeOK, NEW C \in SUBSET Routed, Circle(C), NEW j \in C, NEW source
  PROVE  CheckLoop(source, routes[j].source)
<1> DEFINE f == CHOOSE g : Looking(source, g)
<1>1. \A e : CheckLoop(source, e) <=> e \in f[LoopDepth]
  BY DEF CheckLoop, Looking
<1>2. Looking(source, f)
  BY LookingExists
<1> HIDE DEF f
<1>3. \A d \in 0..LoopDepth : f[d] = IF d = 0 THEN Endpoints ELSE Further(source, f[d - 1])
  BY <1>2 DEF Looking, Further
<1>4. \A i \in C : i \in Routed /\ routes[i].source \in Endpoints
  BY RoutesTyped DEF Route
<1> DEFINE Wrong == {d \in 0..LoopDepth : \E i \in C : routes[i].source \notin f[d]}
<1>5. ASSUME Wrong # {} PROVE FALSE
  <2>1. Wrong \in SUBSET Nat
    BY RouteAssumption
  <2>2. PICK n \in Wrong : \A m \in Wrong : n <= m
    BY <1>5, <2>1, HasLeast
  <2>3. n # 0
    BY <1>3, <1>4, <2>2
  <2>4. n \in 0..LoopDepth /\ n - 1 \in 0..LoopDepth /\ n - 1 \notin Wrong
    BY <2>1, <2>2, <2>3, RouteAssumption
  <2>5. \A i \in C : routes[i].source \in f[n - 1]
    BY <2>4
  <2>6. \A i \in C : routes[i].destination \in f[n - 1]
    BY <2>5 DEF Circle
  <2>7. f[n] = Further(source, f[n - 1])
    BY <1>3, <2>3, <2>4
  <2>8. \A i \in C : routes[i].source \in f[n]
    BY <1>4, <2>6, <2>7 DEF Further
  <2> QED BY <2>2, <2>8
<1>6. LoopDepth \in 0..LoopDepth
  BY RouteAssumption
<1>7. routes[j].source \in f[LoopDepth]
  BY <1>5, <1>6
<1> QED BY <1>1, <1>7

(* No circle comes about where no route is let through.                    *)
LEMMA AcyclicNext ==
  ASSUME \A C \in SUBSET LetThrough' :
           C # {} => \E i \in C : \A j \in C : routes'[j].source # routes'[i].destination
  PROVE  RoutesAcyclic'
BY DEF RoutesAcyclic

LEMMA NoneLetThrough ==
  ASSUME RoutesAcyclic, LetThrough' \subseteq LetThrough,
         \A i \in LetThrough' : /\ routes'[i].source = routes[i].source
                                /\ routes'[i].destination = routes[i].destination
  PROVE  RoutesAcyclic'
<1> SUFFICES ASSUME NEW C \in SUBSET LetThrough', C # {}
             PROVE  \E i \in C : \A j \in C : routes'[j].source # routes'[i].destination
  BY DEF RoutesAcyclic
<1>1. C \in SUBSET LetThrough
  OBVIOUS
<1>2. PICK i \in C : \A j \in C : routes[j].source # routes[i].destination
  BY <1>1 DEF RoutesAcyclic
<1> QED BY <1>2

LEMMA AuthorizeKeeps ==
  ASSUME RoutesSafe, NEW i \in 1..MaxRoutes, AuthorizeRoute(i)
  PROVE  RoutesSafe'
<1>1. /\ routes \in [1..MaxRoutes -> {NoRoute} \cup Route] /\ endpoints \subseteq Endpoints
      /\ i \in Routed /\ routes[i] \in Route /\ routes[i].state = "REQUESTED"
      /\ endpoints' = endpoints
  BY RoutesTyped DEF RoutesSafe, AuthorizeRoute
<1> DEFINE r == [routes[i] EXCEPT !.state = "AUTHORIZED"]
<1>2. /\ r \in Route /\ r.source = routes[i].source /\ r.destination = routes[i].destination
  BY <1>1 DEF Route
<1>3. \/ routes' = [routes EXCEPT ![i] = NoRoute]
      \/ /\ routes' = [routes EXCEPT ![i] = r]
         /\ ~CheckLoop(routes[i].source, routes[i].destination)
  BY DEF AuthorizeRoute
<1> HIDE DEF r
<1>4. RouteTypeOK'
  <2>1. routes' \in [1..MaxRoutes -> {NoRoute} \cup Route]
    BY <1>1, <1>2, <1>3
  <2> QED BY <1>1, <2>1 DEF RouteTypeOK, Route
<1>5. \A j \in LetThrough' :
        /\ j \in Routed /\ (j = i \/ j \in LetThrough)
        /\ routes'[j].source = routes[j].source
        /\ routes'[j].destination = routes[j].destination
  BY <1>1, <1>2, <1>3 DEF LetThrough, Routed
<1>6. RoutesAcyclic'
  <2> SUFFICES ASSUME NEW C \in SUBSET LetThrough', C # {},
                      \A k \in C : \E j \in C : routes'[j].source = routes'[k].destination
               PROVE  FALSE
    BY AcyclicNext
  <2>1. C \in SUBSET Routed /\ Circle(C)
    BY <1>5 DEF Circle
  <2>2. CASE i \notin C
    <3>1. C \in SUBSET LetThrough
      BY <1>5, <2>2
    <3> QED BY <2>1, <3>1, ZenonT(30) DEF Circle, RoutesSafe, RoutesAcyclic
  <2>3. CASE i \in C
    <3>1. PICK j \in C : routes[j].source = routes[i].destination
      BY <2>1, <2>3 DEF Circle
    <3>2. CheckLoop(routes[i].source, routes[j].source)
      BY <2>1, CircleIsFound DEF RoutesSafe
    <3>3. i \in LetThrough'
      BY <2>3
    <3>4. routes'[i] # NoRoute
      BY <3>3 DEF LetThrough, Routed
    <3>5. ~CheckLoop(routes[i].source, routes[i].destination)
      BY <1>1, <1>3, <3>4
    <3> QED BY <3>1, <3>2, <3>5
  <2> QED BY <2>2, <2>3
<1> QED BY <1>4, <1>6 DEF RoutesSafe

(* A step that lets no route through: each route is another one than       *)
(* before only if it was asked for, ended or moved on.                     *)
LEMMA RoutesChange ==
  ASSUME RoutesSafe, routes' \in [1..MaxRoutes -> {NoRoute} \cup Route],
         endpoints' \subseteq Endpoints,
         \A i \in 1..MaxRoutes :
           \/ routes'[i] = NoRoute \/ routes'[i].state = "REQUESTED"
           \/ /\ i \in LetThrough \/ routes'[i] = routes[i]
              /\ routes'[i].source = routes[i].source
              /\ routes'[i].destination = routes[i].destination
  PROVE  RoutesSafe'
<1>1. RouteTypeOK'
  BY DEF RouteTypeOK, Route
<1>2. \A i \in LetThrough' : /\ i \in LetThrough
                             /\ routes'[i].source = routes[i].source
                             /\ routes'[i].destination = routes[i].destination
  BY DEF LetThrough, Routed
<1>3. RoutesAcyclic'
  BY <1>2, NoneLetThrough DEF RoutesSafe
<1> QED BY <1>1, <1>3 DEF RoutesSafe

LEMMA RouteInitHolds == RouteInit => RoutesSafe
<1> SUFFICES ASSUME RouteInit PROVE RoutesSafe OBVIOUS
<1>1. RouteTypeOK
  BY DEF RouteInit, RouteTypeOK
<1>2. LetThrough = {}
  BY DEF RouteInit, LetThrough, Routed
<1>3. RoutesAcyclic
  BY <1>2 DEF RoutesAcyclic
<1> QED BY <1>1, <1>3 DEF RoutesSafe

LEMMA RouteStepHolds == RoutesSafe /\ [RouteNext]_routeVars => RoutesSafe'
<1> SUFFICES ASSUME RoutesSafe, [RouteNext]_routeVars PROVE RoutesSafe' OBVIOUS
<1>1. /\ routes \in [1..MaxRoutes -> {NoRoute} \cup Route] /\ endpoints \subseteq Endpoints
      /\ \A i \in Routed : i \in 1..MaxRoutes /\ routes[i] \in Route
  BY RoutesTyped DEF RoutesSafe
<1>2. ASSUME routes' = routes, endpoints' \subseteq Endpoints PROVE RoutesSafe'
  BY <1>1, <1>2, RoutesChange
<1>3. CASE UNCHANGED routeVars
  BY <1>1, <1>2, <1>3 DEF routeVars
<1>4. ASSUME NEW e \in Endpoints, RegisterEndpoint(e) \/ UnregisterEndpoint(e)
      PROVE  RoutesSafe'
  BY <1>1, <1>2, <1>4 DEF RegisterEndpoint, UnregisterEndpoint
<1>5. ASSUME NEW stream \in Streams, NEW a \in Endpoints, NEW b \in Endpoints,
             CreateRoute(stream, a, b)
      PROVE  RoutesSafe'
  <2> DEFINE i == CHOOSE f \in 1..MaxRoutes \ Routed : \A g \in 1..MaxRoutes \ Routed : f <= g
             r == [stream |-> stream, source |-> a, destination |-> b, state |-> "REQUESTED"]
  <2>1. i \in 1..MaxRoutes
    <3>1. (1..MaxRoutes \ Routed) \in SUBSET Nat /\ (1..MaxRoutes \ Routed) # {}
      <4>1. Routed # 1..MaxRoutes /\ MaxRoutes \in Nat /\ Routed \subseteq 1..MaxRoutes
        BY <1>1, <1>5, RouteAssumption DEF CreateRoute
      <4>2. 1..MaxRoutes \subseteq Nat
        BY <4>1
      <4> QED BY <4>1, <4>2
    <3>2. \E f \in 1..MaxRoutes \ Routed : \A g \in 1..MaxRoutes \ Routed : f <= g
      BY <3>1, HasLeast
    <3> QED BY <3>2
  <2>2. r \in Route /\ r.state = "REQUESTED"
    BY DEF Route
  <2>3. routes' = [routes EXCEPT ![i] = r] /\ endpoints' = endpoints
    BY <1>5 DEF CreateRoute
  <2> HIDE DEF i, r
  <2>4. /\ routes' \in [1..MaxRoutes -> {NoRoute} \cup Route]
        /\ \A j \in 1..MaxRoutes : routes'[j] = routes[j] \/ routes'[j].state = "REQUESTED"
    BY <1>1, <2>1, <2>2, <2>3
  <2> QED BY <1>1, <2>3, <2>4, RoutesChange
<1>6. ASSUME NEW i \in 1..MaxRoutes, NEW to \in {"CONNECTING", "ACTIVE", "PAUSED"}, MoveRoute(i, to)
      PROVE  RoutesSafe'
  <2> DEFINE r == [routes[i] EXCEPT !.state = to]
  <2>1. i \in LetThrough /\ routes[i] \in Route
    BY <1>1, <1>6 DEF MoveRoute, RouteMoves, LetThrough
  <2>2. r \in Route /\ r.source = routes[i].source /\ r.destination = routes[i].destination
    BY <2>1 DEF Route
  <2>3. routes' = [routes EXCEPT ![i] = r] /\ endpoints' = endpoints
    BY <1>6 DEF MoveRoute
  <2> HIDE DEF r
  <2>4. /\ routes' \in [1..MaxRoutes -> {NoRoute} \cup Route]
        /\ \A j \in 1..MaxRoutes : IF j = i THEN routes'[j] = r ELSE routes'[j] = routes[j]
    BY <1>1, <2>2, <2>3
  <2> QED BY <1>1, <2>1, <2>2, <2>3, <2>4, RoutesChange
<1>7. ASSUME NEW ending, EndRoutes(ending) PROVE RoutesSafe'
  <2>1. /\ routes' \in [1..MaxRoutes -> {NoRoute} \cup Route] /\ endpoints' = endpoints
        /\ \A j \in 1..MaxRoutes : routes'[j] = routes[j] \/ routes'[j] = NoRoute
    BY <1>1, <1>7 DEF EndRoutes
  <2> QED BY <1>1, <2>1, RoutesChange
<1>8. ASSUME NEW i \in 1..MaxRoutes, AuthorizeRoute(i) PROVE RoutesSafe'
  BY <1>8, AuthorizeKeeps
<1> QED BY <1>3, <1>4, <1>5, <1>6, <1>7, <1>8 DEF RouteNext, EndRoute, StreamClosed, CleanupRoutes

(* What is buffered is accounted for, backpressure ends with what causes   *)
(* it, and no routes that were let through close a circle, for any number  *)
(* of streams and routes and buffers of any size: each route is looked at  *)
(* once, before it is let through (io_stream.c, io_router.c).              *)
THEOREM FlowHolds == ContinuitySpec => []FlowSafe
<1>1. ContinuityInit => StreamInv /\ RoutesSafe
  BY StreamInitHolds, RouteInitHolds DEF ContinuityInit
<1>2. StreamInv /\ RoutesSafe /\ [ContinuityNext]_continuityVars => StreamInv' /\ RoutesSafe'
  BY EachKeepsItsOwn, StreamStepHolds, RouteStepHolds
<1>3. StreamInv /\ RoutesSafe => FlowSafe
  BY StreamInvSuffices DEF FlowSafe
<1> QED
  BY <1>1, <1>2, <1>3, PTL DEF ContinuitySpec, continuityVars

-----------------------------------------------------------------------------
(* The admission of pipelines.                                             *)

Entry == [state : EntryStates, id : 1..MaxEntries, needs : SUBSET (1..MaxEntries), urgency : Urgencies,
          effective : 0..TopUrgency, boost : 0..MaxBoost, attempts : 0..MaxAttempts, age : 0..EntryLife]
(* What lifts an entry is counted in its boost.                            *)
Lifted(e) == e.effective \in e.urgency..(e.urgency + e.boost)
Alike(e, f) == f \in Entry /\ Lifted(f) /\ f.id = e.id /\ f.needs = e.needs

SchedulingInv == SchedulingTypeOK /\ NobodyWaitsForItself /\ \A i \in Taken : Lifted(entries[i])

LEMMA SchedulingNumbers ==
  /\ Entries \in Nat /\ MaxRunning \in Nat /\ MaxWaiting \in Nat /\ MaxAttempts \in Nat /\ MaxBoost \in Nat
  /\ AgingInterval \in Nat /\ EntryLife \in Nat /\ MaxEntries \in Nat
  /\ \A u \in Urgencies : u \in 0..TopUrgency /\ u \in Nat
<1>1. {Entries, MaxRunning, MaxWaiting, MaxAttempts, MaxBoost, AgingInterval, EntryLife, MaxEntries} \subseteq Nat
      /\ Urgencies \subseteq 0..3
  BY PipelineSchedulerAssumption
<1>2. \A u \in Urgencies : u \in 0..TopUrgency /\ u \in Nat
  BY <1>1 DEF TopUrgency
<1> QED BY <1>1, <1>2

LEMMA EntriesAre ==
  ASSUME SchedulingInv
  PROVE  /\ entries \in [Slots -> {Free} \cup Entry] /\ Free \notin Entry
         /\ \A i \in Slots : entries[i] = Free \/ (i \in Taken /\ entries[i] \in Entry /\ Lifted(entries[i]))
         /\ Taken \subseteq Slots
         /\ submitted \in 0..MaxEntries /\ aging \in 0..AgingInterval
<1>1. entries \in [Slots -> {Free} \cup Entry] /\ submitted \in 0..MaxEntries /\ aging \in 0..AgingInterval
  BY DEF SchedulingInv, SchedulingTypeOK, Entry
<1>2. Free \notin Entry
  <2>1. ASSUME NEW e \in Entry PROVE e.state # "FREE"
    BY DEF Entry, EntryStates, Ended
  <2>2. Free.state = "FREE"
    BY DEF Free
  <2> QED BY <2>1, <2>2
<1>3. \A i \in Slots : entries[i] = Free \/ (i \in Taken /\ entries[i] \in Entry)
  BY <1>1 DEF Taken
<1> QED BY <1>1, <1>2, <1>3 DEF SchedulingInv, Taken

LEMMA SchedulingImplied == SchedulingInv => SchedulingSafe
<1> SUFFICES ASSUME SchedulingInv PROVE SchedulingSafe OBVIOUS
<1>1. ASSUME NEW i \in Taken
      PROVE  entries[i].effective \in entries[i].urgency..(entries[i].urgency + MaxBoost)
  <2>1. PICK e : e = entries[i]
    OBVIOUS
  <2>2. e \in Entry /\ Lifted(e)
    BY <2>1, EntriesAre DEF Taken
  <2>3. e.boost \in 0..MaxBoost /\ e.urgency \in Nat /\ MaxBoost \in Nat
    BY <2>2, SchedulingNumbers DEF Entry
  <2>4. e.effective \in e.urgency..(e.urgency + MaxBoost)
    BY <2>2, <2>3 DEF Lifted
  <2> QED BY <2>1, <2>4
<1>2. BoostBounded
  BY <1>1 DEF BoostBounded
<1> QED BY <1>2 DEF SchedulingInv, SchedulingSafe

(* Who stays has the same name and the same needs, and leaves no ring      *)
(* where there was none.                                                   *)
LEMMA TableKept ==
  ASSUME SchedulingInv, entries' = [i \in Slots |-> entries'[i]],
         submitted' \in 0..MaxEntries, aging' \in 0..AgingInterval,
         \A i \in Slots : \/ entries'[i] = Free \/ entries'[i] = entries[i]
                          \/ entries[i] # Free /\ Alike(entries[i], entries'[i])
  PROVE  SchedulingInv'
<1>1. \A i \in Slots : entries'[i] = Free \/ (entries'[i] \in Entry /\ Lifted(entries'[i]))
  BY EntriesAre DEF Alike
<1>2. entries' \in [Slots -> {Free} \cup Entry]
  BY <1>1
<1>3. SchedulingTypeOK'
  BY <1>2 DEF SchedulingTypeOK, Entry
<1>4. Taken' \subseteq Taken /\ Taken \subseteq Slots
  BY DEF Taken
<1>5. \A i \in Taken' : entries'[i].id = entries[i].id /\ entries'[i].needs = entries[i].needs
  BY DEF Taken, Alike
<1>6. NobodyWaitsForItself'
  <2> SUFFICES ASSUME NEW ring \in SUBSET Taken', ring # {}
               PROVE  \E i \in ring : \A j \in ring : entries'[j].id \notin entries'[i].needs
    BY DEF NobodyWaitsForItself
  <2>1. PICK i \in ring : \A j \in ring : entries[j].id \notin entries[i].needs
    BY <1>4 DEF SchedulingInv, NobodyWaitsForItself
  <2> QED BY <1>5, <2>1
<1>7. \A i \in Taken' : Lifted(entries'[i])
  BY <1>1 DEF Taken
<1> QED BY <1>3, <1>6, <1>7 DEF SchedulingInv

LEMMA OneEntryChanges ==
  ASSUME SchedulingInv, NEW i \in Slots, NEW e, entries' = [entries EXCEPT ![i] = e],
         UNCHANGED <<submitted, aging>>, e = Free \/ (entries[i] # Free /\ Alike(entries[i], e))
  PROVE  SchedulingInv'
<1>1. entries' = [j \in Slots |-> entries'[j]] /\ \A j \in Slots : entries'[j] = IF j = i THEN e ELSE entries[j]
  BY EntriesAre
<1>2. submitted' \in 0..MaxEntries /\ aging' \in 0..AgingInterval
  BY EntriesAre
<1> QED BY <1>1, <1>2, TableKept

LEMMA OneStateChanges ==
  ASSUME SchedulingInv, NEW i \in Taken, NEW s \in EntryStates, entries' = [entries EXCEPT ![i].state = s],
         UNCHANGED <<submitted, aging>>
  PROVE  SchedulingInv'
<1>1. PICK e : e = entries[i]
  OBVIOUS
<1>2. i \in Slots /\ e # Free /\ e \in Entry /\ Lifted(e)
  BY <1>1, EntriesAre DEF Taken
<1>3. PICK f : f = [e EXCEPT !.state = s]
  OBVIOUS
<1>4. f \in Entry /\ f.id = e.id /\ f.needs = e.needs /\ f.effective = e.effective /\ f.urgency = e.urgency
      /\ f.boost = e.boost
  BY <1>2, <1>3 DEF Entry
<1>5. Alike(e, f)
  BY <1>2, <1>4 DEF Alike, Lifted
<1>6. entries' = [entries EXCEPT ![i] = f]
  BY <1>1, <1>3
<1> QED BY <1>1, <1>2, <1>5, <1>6, OneEntryChanges

LEMMA SubmitHolds ==
  ASSUME SchedulingInv, NEW i \in Slots, NEW u \in Urgencies, SubmitEntry(i, u)
  PROVE  SchedulingInv'
<1>1. PICK e : e = [state |-> "QUEUED", id |-> submitted + 1, needs |-> {}, urgency |-> u, effective |-> u,
                    boost |-> 0, attempts |-> 0, age |-> 0]
  OBVIOUS
<1>2. submitted + 1 \in 1..MaxEntries /\ submitted' \in 0..MaxEntries /\ aging' \in 0..AgingInterval
  BY EntriesAre, SchedulingNumbers DEF SubmitEntry
<1>3. e \in Entry /\ e.needs = {} /\ Lifted(e)
  <2>1. u \in 0..TopUrgency /\ u \in Nat /\ 0 \in 0..MaxBoost /\ 0 \in 0..MaxAttempts /\ 0 \in 0..EntryLife
    BY SchedulingNumbers
  <2>2. "QUEUED" \in EntryStates
    BY DEF EntryStates
  <2>3. e \in Entry
    BY <1>1, <1>2, <2>1, <2>2 DEF Entry
  <2>4. e.effective = u /\ e.urgency = u /\ e.boost = 0 /\ u \in u..(u + 0)
    BY <1>1, <2>1
  <2> QED BY <1>1, <2>3, <2>4 DEF Lifted
<1>4. entries' = [entries EXCEPT ![i] = e]
  BY <1>1 DEF SubmitEntry
<1>5. entries' \in [Slots -> {Free} \cup Entry] /\ \A j \in Slots : entries'[j] = IF j = i THEN e ELSE entries[j]
  BY <1>3, <1>4, EntriesAre
<1>6. SchedulingTypeOK'
  BY <1>2, <1>5 DEF SchedulingTypeOK, Entry
<1>7. \A j \in Taken' : j = i \/ (j \in Taken /\ entries'[j] = entries[j])
  BY <1>5 DEF Taken
<1>8. NobodyWaitsForItself'
  <2> SUFFICES ASSUME NEW ring \in SUBSET Taken', ring # {}
               PROVE  \E k \in ring : \A j \in ring : entries'[j].id \notin entries'[k].needs
    BY DEF NobodyWaitsForItself
  <2>1. CASE i \in ring
    BY <1>3, <1>5, <2>1
  <2>2. CASE i \notin ring
    <3>1. ring \subseteq Taken /\ \A j \in ring : entries'[j] = entries[j]
      BY <1>7, <2>2
    <3>2. PICK k \in ring : \A j \in ring : entries[j].id \notin entries[k].needs
      BY <3>1 DEF SchedulingInv, NobodyWaitsForItself
    <3> QED BY <3>1, <3>2
  <2> QED BY <2>1, <2>2
<1>9. \A j \in Taken' : Lifted(entries'[j])
  BY <1>3, <1>5, <1>7, EntriesAre DEF Taken
<1> QED BY <1>6, <1>8, <1>9 DEF SchedulingInv

(* A ring that a new need would close ran through its entry before: the    *)
(* entries of the ring within a closed set would have been one.            *)
LEMMA AddNeedHolds ==
  ASSUME SchedulingInv, NEW i \in Slots, NEW id \in 1..submitted, AddNeed(i, id)
  PROVE  SchedulingInv'
<1>1. PICK e : e = entries[i]
  OBVIOUS
<1>2. i \in Taken /\ e \in Entry /\ Lifted(e) /\ id \in 1..MaxEntries
  BY <1>1, EntriesAre, SchedulingNumbers DEF AddNeed, Taken
<1>3. PICK f : f = [e EXCEPT !.needs = @ \cup {id}]
  OBVIOUS
<1>4. /\ f \in Entry /\ Lifted(f) /\ f.id = e.id /\ f.needs = e.needs \cup {id}
  <2>1. e.needs \cup {id} \in SUBSET (1..MaxEntries)
    BY <1>2 DEF Entry
  <2>2. f \in Entry /\ f.id = e.id /\ f.needs = e.needs \cup {id} /\ f.effective = e.effective
        /\ f.urgency = e.urgency /\ f.boost = e.boost
    BY <1>2, <1>3, <2>1 DEF Entry
  <2> QED BY <1>2, <2>2 DEF Lifted
<1>5. entries' = [entries EXCEPT ![i] = f]
  BY <1>1, <1>3 DEF AddNeed
<1>6. /\ entries' \in [Slots -> {Free} \cup Entry]
      /\ \A j \in Slots : entries'[j] = IF j = i THEN f ELSE entries[j]
  BY <1>4, <1>5, EntriesAre
<1>7. SchedulingTypeOK'
  BY <1>6, EntriesAre DEF SchedulingTypeOK, Entry, AddNeed
<1>8. Taken' = Taken /\ Taken \subseteq Slots
  BY <1>1, <1>2, <1>4, <1>6, EntriesAre DEF Taken
<1>9. PICK closed \in SUBSET (1..submitted) :
        /\ id \in closed /\ e.id \notin closed
        /\ \A j \in Taken : entries[j].id \in closed => entries[j].needs \subseteq closed
  BY <1>1 DEF AddNeed, ClosesRing, Reaches
<1>10. NobodyWaitsForItself'
  <2> SUFFICES ASSUME NEW ring \in SUBSET Taken, ring # {},
                      \A k \in ring : \E j \in ring : entries'[j].id \in entries'[k].needs
               PROVE  FALSE
    BY <1>8 DEF NobodyWaitsForItself
  <2>1. \A j \in ring : entries'[j].id = entries[j].id /\ (j # i => entries'[j].needs = entries[j].needs)
    BY <1>1, <1>4, <1>6, <1>8
  <2>2. PICK k \in ring : \A j \in ring : entries[j].id \notin entries[k].needs
    BY DEF SchedulingInv, NobodyWaitsForItself
  <2>3. k = i
    BY <2>1, <2>2
  <2>4. PICK j \in ring : entries[j].id = id
    <3>1. PICK j \in ring : entries'[j].id \in entries'[i].needs
      BY <2>3
    <3>2. entries[j].id \in e.needs \cup {id} /\ entries[j].id \notin e.needs
      BY <1>1, <1>2, <1>4, <1>6, <1>8, <2>1, <2>2, <2>3, <3>1
    <3> QED BY <3>2
  <2> DEFINE within == {l \in ring : entries[l].id \in closed}
  <2>5. within \in SUBSET Taken /\ within # {} /\ i \notin within
    BY <1>1, <1>9, <2>4
  <2>6. PICK l \in within : \A m \in within : entries[m].id \notin entries[l].needs
    BY <2>5 DEF SchedulingInv, NobodyWaitsForItself
  <2>7. PICK m \in ring : entries[m].id \in entries[l].needs
    BY <2>1, <2>5, <2>6
  <2>8. entries[m].id \in closed
    BY <1>9, <2>5, <2>6, <2>7
  <2> QED BY <2>6, <2>7, <2>8
<1>11. \A j \in Taken' : Lifted(entries'[j])
  BY <1>4, <1>6, <1>8, EntriesAre DEF Taken
<1> QED BY <1>7, <1>10, <1>11 DEF SchedulingInv

(* What the tick makes of an entry, whatever the others have become.       *)
LEMMA EvaluatedIs ==
  ASSUME NEW table, NEW e \in Entry, Lifted(e), e # Free
  PROVE  Alike(e, Evaluated(table, e))
<1>1. PICK a : a = AgedEntry(e)
  OBVIOUS
<1>2. /\ e.boost \in 0..MaxBoost /\ e.effective \in 0..TopUrgency /\ e.urgency \in Nat
      /\ e.attempts \in 0..MaxAttempts /\ MaxBoost \in Nat /\ MaxAttempts \in Nat /\ TopUrgency = 3
      /\ e.effective \in e.urgency..(e.urgency + e.boost)
  BY SchedulingNumbers DEF Entry, Lifted, TopUrgency
<1>3. Alike(e, a) /\ a.attempts = e.attempts
  <2>1. CASE ~Boosts(e)
    BY <1>1, <2>1 DEF AgedEntry, Alike
  <2>2. CASE Boosts(e)
    <3>1. PICK b, x : b = e.boost + 1 /\ x = IF e.effective < TopUrgency THEN e.effective + 1 ELSE e.effective
      OBVIOUS
    <3>2. b \in 0..MaxBoost /\ x \in 0..TopUrgency /\ x \in e.urgency..(e.urgency + b)
      BY <1>2, <2>2, <3>1 DEF Boosts
    <3>3. a = [e EXCEPT !.boost = b, !.effective = x]
      BY <1>1, <2>2, <3>1 DEF AgedEntry
    <3>4. a \in Entry /\ a.boost = b /\ a.effective = x /\ a.urgency = e.urgency /\ a.id = e.id
          /\ a.needs = e.needs /\ a.attempts = e.attempts
      BY <3>2, <3>3 DEF Entry
    <3> QED BY <3>2, <3>4 DEF Alike, Lifted
  <2> QED BY <2>1, <2>2
<1>4. ASSUME NEW s \in EntryStates PROVE Alike(e, [e EXCEPT !.state = s])
  <2>1. PICK f : f = [e EXCEPT !.state = s]
    OBVIOUS
  <2>2. f \in Entry /\ f.id = e.id /\ f.needs = e.needs /\ f.effective = e.effective /\ f.urgency = e.urgency
        /\ f.boost = e.boost
    BY <2>1 DEF Entry
  <2> QED BY <2>1, <2>2 DEF Alike, Lifted
<1>5. "EXPIRED" \in EntryStates /\ "ELIGIBLE" \in EntryStates /\ "WAITING" \in EntryStates
  BY DEF EntryStates, Ended
<1>6. ASSUME NEW s \in EntryStates, e.attempts # MaxAttempts
      PROVE  Alike(e, [[a EXCEPT !.attempts = @ + 1] EXCEPT !.state = s])
  <2>1. PICK c : c = a.attempts + 1
    OBVIOUS
  <2>2. c \in 0..MaxAttempts /\ a \in Entry
    BY <1>2, <1>3, <1>6, <2>1 DEF Alike
  <2>3. PICK f : f = [[a EXCEPT !.attempts = @ + 1] EXCEPT !.state = s]
    OBVIOUS
  <2>4. f \in Entry /\ f.id = a.id /\ f.needs = a.needs /\ f.effective = a.effective /\ f.urgency = a.urgency
        /\ f.boost = a.boost
    BY <2>1, <2>2, <2>3 DEF Entry
  <2> QED BY <1>3, <2>3, <2>4 DEF Alike, Lifted
<1>7. Alike(e, e)
  BY DEF Alike
<1> QED BY <1>1, <1>4, <1>5, <1>6, <1>7 DEF Evaluated

(* The walk over the table, up to a place.                                 *)
WalkedTo(w, n) ==
  /\ w = [k \in 0..n |-> w[k]] /\ w[0] = entries
  /\ \A k \in 1..n : w[k] = [w[k - 1] EXCEPT ![k] = Evaluated(w[k - 1], @)]

LEMMA WalkExists == \E w : WalkedTo(w, Entries)
<1>0. Entries \in Nat
  BY SchedulingNumbers
<1> DEFINE Short == {n \in 0..Entries : ~ \E w : WalkedTo(w, n)}
<1>1. ASSUME Short # {} PROVE FALSE
  <2>1. Short \in SUBSET Nat
    BY <1>0
  <2>2. PICK n \in Short : \A m \in Short : n <= m
    BY <1>1, <2>1, HasLeast
  <2>3. n # 0
    <3> DEFINE w == [m \in 0..0 |-> entries]
    <3>1. WalkedTo(w, 0)
      BY DEF WalkedTo
    <3> HIDE DEF w
    <3> QED BY <2>2, <3>1
  <2>4. /\ n \in Nat /\ n \in 1..Entries /\ n - 1 \in 0..Entries /\ n - 1 \in 0..(n - 1)
        /\ n - 1 \notin Short /\ \A m \in 0..n : m = n \/ m \in 0..(n - 1)
    BY <1>0, <2>1, <2>2, <2>3
  <2>5. PICK w : WalkedTo(w, n - 1)
    BY <2>4
  <2>6. PICK next : next = [w[n - 1] EXCEPT ![n] = Evaluated(w[n - 1], @)]
    OBVIOUS
  <2>7. PICK v : v = [m \in 0..n |-> IF m = n THEN next ELSE w[m]]
    OBVIOUS
  <2>8. v[n] = next /\ v = [m \in 0..n |-> v[m]] /\ \A m \in 0..(n - 1) : v[m] = w[m]
    BY <2>4, <2>7
  <2>9. v[0] = entries
    <3>1. 0 \in 0..(n - 1)
      BY <2>4
    <3> QED BY <2>5, <2>8, <3>1 DEF WalkedTo
  <2>10. ASSUME NEW k \in 1..n PROVE v[k] = [v[k - 1] EXCEPT ![k] = Evaluated(v[k - 1], @)]
    <3>1. CASE k = n
      BY <2>4, <2>6, <2>8, <3>1
    <3>2. CASE k # n
      <4>1. k \in 1..(n - 1) /\ k \in 0..(n - 1) /\ k - 1 \in 0..(n - 1)
        BY <2>4, <3>2
      <4>2. w[k] = [w[k - 1] EXCEPT ![k] = Evaluated(w[k - 1], @)]
        BY <2>5, <4>1 DEF WalkedTo
      <4> QED BY <2>8, <4>1, <4>2
    <3> QED BY <3>1, <3>2
  <2>11. WalkedTo(v, n)
    BY <2>8, <2>9, <2>10 DEF WalkedTo
  <2> QED BY <2>2, <2>11
<1>2. Entries \in 0..Entries /\ Entries \notin Short
  BY <1>0, <1>1
<1> QED BY <1>2

LEMMA WalkIs == WalkedTo(Walk, Entries)
<1> DEFINE Walks(w) == w = [n \in 0..Entries |->
             IF n = 0 THEN entries ELSE [w[n - 1] EXCEPT ![n] = Evaluated(w[n - 1], @)]]
<1>0. Entries \in Nat
  BY SchedulingNumbers
<1>1. PICK v : WalkedTo(v, Entries)
  BY WalkExists
<1>2. Walks(v)
  <2>1. v = [n \in 0..Entries |-> v[n]]
    BY <1>1 DEF WalkedTo
  <2>2. ASSUME NEW n \in 0..Entries
        PROVE  v[n] = IF n = 0 THEN entries ELSE [v[n - 1] EXCEPT ![n] = Evaluated(v[n - 1], @)]
    <3>1. CASE n = 0
      BY <1>1, <3>1 DEF WalkedTo
    <3>2. CASE n # 0
      <4>1. n \in 1..Entries
        BY <1>0, <3>2
      <4> QED BY <1>1, <3>2, <4>1 DEF WalkedTo
    <3> QED BY <3>1, <3>2
  <2> QED BY <2>1, <2>2
<1>3. Walk = CHOOSE w : Walks(w)
  BY DEF Walk
<1>4. Walks(Walk)
  BY <1>2, <1>3
<1>5. Walk = [n \in 0..Entries |-> Walk[n]]
  BY <1>4
<1>6. ASSUME NEW n \in 0..Entries
      PROVE  Walk[n] = IF n = 0 THEN entries ELSE [Walk[n - 1] EXCEPT ![n] = Evaluated(Walk[n - 1], @)]
  BY <1>4
<1> HIDE DEF Walks
<1>7. Walk[0] = entries
  <2>1. 0 \in 0..Entries
    BY <1>0
  <2> QED BY <1>6, <2>1
<1>8. ASSUME NEW k \in 1..Entries PROVE Walk[k] = [Walk[k - 1] EXCEPT ![k] = Evaluated(Walk[k - 1], @)]
  <2>1. k \in 0..Entries /\ k # 0
    BY <1>0
  <2> QED BY <1>6, <2>1
<1> QED BY <1>5, <1>7, <1>8 DEF WalkedTo

(* Up to a place everybody was looked at once, beyond it nobody was.       *)
LooksSo(table, n) ==
  /\ table = [i \in Slots |-> table[i]]
  /\ \A i \in Slots : \/ table[i] = entries[i]
                      \/ i <= n /\ \E before : table[i] = Evaluated(before, entries[i])

LEMMA WalkedOnce ==
  ASSUME SchedulingInv
  PROVE  LooksSo(Walk[Entries], Entries)
<1>0. Entries \in Nat /\ Slots = 1..Entries
  BY SchedulingNumbers DEF Slots
<1>1. Walk[0] = entries /\ \A k \in 1..Entries : Walk[k] = [Walk[k - 1] EXCEPT ![k] = Evaluated(Walk[k - 1], @)]
  BY WalkIs DEF WalkedTo
<1> DEFINE Wrong == {n \in 0..Entries : ~LooksSo(Walk[n], n)}
<1>2. ASSUME Wrong # {} PROVE FALSE
  <2>1. Wrong \in SUBSET Nat
    BY <1>0
  <2>2. PICK n \in Wrong : \A m \in Wrong : n <= m
    BY <1>2, <2>1, HasLeast
  <2>3. n # 0
    <3>1. LooksSo(entries, 0)
      BY EntriesAre DEF LooksSo
    <3> QED BY <1>1, <2>2, <3>1
  <2>4. n \in Nat /\ n \in 1..Entries /\ n - 1 \in 0..Entries /\ n - 1 \notin Wrong
    BY <1>0, <2>1, <2>2, <2>3
  <2>5. PICK t : t = Walk[n - 1]
    OBVIOUS
  <2>6. LooksSo(t, n - 1)
    BY <2>4, <2>5
  <2>7. Walk[n] = [t EXCEPT ![n] = Evaluated(t, t[n])]
    BY <1>1, <2>4, <2>5
  <2>8. t[n] = entries[n] /\ n \in Slots
    BY <1>0, <2>4, <2>6 DEF LooksSo
  <2>9. PICK new : new = Evaluated(t, entries[n])
    OBVIOUS
  <2>10. PICK u : u = Walk[n]
    OBVIOUS
  <2>11. u = [t EXCEPT ![n] = new]
    BY <2>7, <2>8, <2>9, <2>10
  <2>12. u = [i \in Slots |-> u[i]] /\ \A i \in Slots : u[i] = IF i = n THEN new ELSE t[i]
    BY <2>6, <2>11 DEF LooksSo
  <2>13. ASSUME NEW i \in Slots
         PROVE  u[i] = entries[i] \/ (i <= n /\ \E before : u[i] = Evaluated(before, entries[i]))
    <3>1. CASE i = n
      BY <2>4, <2>9, <2>12, <3>1
    <3>2. CASE i # n
      <4>1. i \in Nat /\ (i <= n - 1 => i <= n)
        BY <1>0, <2>4
      <4> QED BY <2>6, <2>12, <3>2, <4>1 DEF LooksSo
    <3> QED BY <3>1, <3>2
  <2>14. LooksSo(u, n)
    BY <2>12, <2>13 DEF LooksSo
  <2> QED BY <2>2, <2>10, <2>14
<1>3. Entries \in 0..Entries
  BY <1>0
<1> QED BY <1>2, <1>3

LEMMA TickHolds ==
  ASSUME SchedulingInv, SchedulingTick
  PROVE  SchedulingInv'
<1>1. LooksSo(entries', Entries)
  BY WalkedOnce DEF SchedulingTick
<1>2. submitted' \in 0..MaxEntries /\ aging' \in 0..AgingInterval
  BY EntriesAre, SchedulingNumbers DEF SchedulingTick
<1>3. ASSUME NEW i \in Slots
      PROVE  \/ entries'[i] = Free \/ entries'[i] = entries[i]
             \/ entries[i] # Free /\ Alike(entries[i], entries'[i])
  <2>1. CASE entries[i] = Free
    <3>1. \A before : Evaluated(before, Free) = Free
      BY DEF Evaluated
    <3> QED BY <1>1, <2>1, <3>1 DEF LooksSo
  <2>2. CASE entries[i] # Free
    <3>1. entries[i] \in Entry /\ Lifted(entries[i])
      BY <2>2, EntriesAre
    <3> QED BY <1>1, <2>2, <3>1, EvaluatedIs DEF LooksSo
  <2> QED BY <2>1, <2>2
<1> QED BY <1>1, <1>2, <1>3, TableKept DEF LooksSo

LEMMA SchedulingElapseHolds ==
  ASSUME SchedulingInv, SchedulingElapse
  PROVE  SchedulingInv'
<1>1. submitted' \in 0..MaxEntries /\ aging' \in 0..AgingInterval
  BY EntriesAre, SchedulingNumbers DEF SchedulingElapse
<1>2. ASSUME NEW i \in Slots
      PROVE  entries'[i] = entries[i] \/ (entries[i] # Free /\ Alike(entries[i], entries'[i]))
  <2>1. PICK e : e = entries[i]
    OBVIOUS
  <2>2. CASE i \in Taken /\ e.age < EntryLife
    <3>1. e \in Entry /\ Lifted(e) /\ e # Free
      BY <2>1, <2>2, EntriesAre DEF Taken
    <3>2. e.age + 1 \in 0..EntryLife
      BY <2>2, <3>1, SchedulingNumbers DEF Entry
    <3>3. PICK f : f = [e EXCEPT !.age = @ + 1]
      OBVIOUS
    <3>4. f \in Entry /\ f.id = e.id /\ f.needs = e.needs /\ f.effective = e.effective /\ f.urgency = e.urgency
          /\ f.boost = e.boost
      BY <3>1, <3>2, <3>3 DEF Entry
    <3>5. Alike(e, f)
      BY <3>1, <3>4 DEF Alike, Lifted
    <3> QED BY <2>1, <2>2, <3>1, <3>3, <3>5 DEF SchedulingElapse
  <2>3. CASE ~(i \in Taken /\ e.age < EntryLife)
    BY <2>1, <2>3 DEF SchedulingElapse
  <2> QED BY <2>2, <2>3
<1>3. entries' = [i \in Slots |-> entries'[i]]
  BY DEF SchedulingElapse
<1> QED BY <1>1, <1>2, <1>3, TableKept

LEMMA SetDeadlineHolds ==
  ASSUME SchedulingInv, NEW i \in Slots, NEW life \in 0..EntryLife, SetDeadline(i, life)
  PROVE  SchedulingInv'
<1>1. PICK e, a : e = entries[i] /\ a = EntryLife - life
  OBVIOUS
<1>2. i \in Taken /\ e # Free /\ e \in Entry /\ Lifted(e)
  BY <1>1, EntriesAre DEF SetDeadline, Taken
<1>3. a \in 0..EntryLife
  BY <1>1, SchedulingNumbers
<1>4. PICK f : f = [e EXCEPT !.age = a]
  OBVIOUS
<1>5. f \in Entry /\ f.id = e.id /\ f.needs = e.needs /\ f.effective = e.effective /\ f.urgency = e.urgency
      /\ f.boost = e.boost
  BY <1>2, <1>3, <1>4 DEF Entry
<1>6. Alike(e, f)
  BY <1>2, <1>5 DEF Alike, Lifted
<1>7. entries' = [entries EXCEPT ![i] = f] /\ UNCHANGED <<submitted, aging>>
  BY <1>1, <1>4 DEF SetDeadline
<1> QED BY <1>1, <1>2, <1>6, <1>7, OneEntryChanges

LEMMA SchedulingStep == SchedulingInv /\ [SchedulingNext]_schedulingVars => SchedulingInv'
<1> SUFFICES ASSUME SchedulingInv, [SchedulingNext]_schedulingVars PROVE SchedulingInv'
  OBVIOUS
<1>1. CASE UNCHANGED schedulingVars
  BY <1>1 DEF schedulingVars, SchedulingInv, SchedulingTypeOK, NobodyWaitsForItself, Taken
<1>2. /\ {"CANCELLED", "SCHEDULED"} \subseteq EntryStates /\ \A m \in EntryMoves : m[2] \in EntryStates
      /\ \A m \in EntryMoves : m[1] \in EntryStates
  BY DEF EntryMoves, EntryStates, Ended
<1>3. ASSUME NEW i \in Slots, entries[i].state \in EntryStates PROVE i \in Taken
  <2>1. Free.state \notin EntryStates
    BY DEF Free, EntryStates, Ended
  <2> QED BY <1>3, <2>1 DEF Taken
<1>4. ASSUME NEW i \in Slots, CancelEntry(i) PROVE SchedulingInv'
  BY <1>2, <1>4, OneStateChanges DEF CancelEntry
<1>5. ASSUME NEW i \in Slots, RemoveEntry(i) PROVE SchedulingInv'
  BY <1>5, OneEntryChanges DEF RemoveEntry
<1>6. ASSUME NEW i \in Slots, ScheduleNext(i) PROVE SchedulingInv'
  <2>1. entries[i].state \in EntryStates
    BY <1>6 DEF ScheduleNext, Candidates, In, EntryStates
  <2> QED BY <1>2, <1>3, <1>6, <2>1, OneStateChanges DEF ScheduleNext
<1>7. ASSUME NEW i \in Slots, NEW to \in EntryStates, MoveEntry(i, to) PROVE SchedulingInv'
  <2>1. entries[i].state \in EntryStates
    BY <1>2, <1>7 DEF MoveEntry
  <2> QED BY <1>3, <1>7, <2>1, OneStateChanges DEF MoveEntry
<1>8. ASSUME NEW which, CleanupEntries(which) PROVE SchedulingInv'
  <2>1. entries' = [i \in Slots |-> entries'[i]]
        /\ \A i \in Slots : entries'[i] = Free \/ entries'[i] = entries[i]
    BY <1>8 DEF CleanupEntries
  <2>2. submitted' \in 0..MaxEntries /\ aging' \in 0..AgingInterval
    BY <1>8, EntriesAre DEF CleanupEntries
  <2> QED BY <2>1, <2>2, TableKept
<1> QED BY <1>1, <1>4, <1>5, <1>6, <1>7, <1>8, SubmitHolds, AddNeedHolds, TickHolds,
      SchedulingElapseHolds, SetDeadlineHolds
   DEF SchedulingNext

(* No entries wait for one another in a ring, in whatever order needs are  *)
(* declared and entries removed, since a need is refused when it is        *)
(* reachable (pipeline_scheduler.c, _has_cycle); and waiting lifts an      *)
(* entry by no more than the bound of its boost, over all its intervals.   *)
THEOREM SchedulingHolds == ContinuitySpec => []SchedulingSafe
<1>1. ContinuityInit => SchedulingInv
  <2> SUFFICES ASSUME SchedulingInit PROVE SchedulingInv
    BY DEF ContinuityInit
  <2>1. entries = [i \in Slots |-> Free] /\ Taken = {}
    BY DEF SchedulingInit, Taken
  <2>2. submitted \in 0..MaxEntries /\ aging \in 0..AgingInterval
    BY SchedulingNumbers DEF SchedulingInit
  <2> QED BY <2>1, <2>2 DEF SchedulingInv, SchedulingTypeOK, NobodyWaitsForItself
<1>2. SchedulingInv /\ [ContinuityNext]_continuityVars => SchedulingInv'
  BY EachKeepsItsOwn, SchedulingStep
<1> QED BY <1>1, <1>2, SchedulingImplied, PTL DEF ContinuitySpec, continuityVars
-----------------------------------------------------------------------------
(* What comes to be in steps: there is a function of the steps done, and   *)
(* what a step takes from n - 1 to n holds all the way.                    *)

LEMMA AllTheWay ==
  ASSUME NEW N \in Nat, NEW Good, 0 \in Good, \A n \in 1..N : n - 1 \in Good => n \in Good
  PROVE  \A n \in 0..N : n \in Good
<1> DEFINE Wrong == {n \in 0..N : n \notin Good}
<1>1. ASSUME Wrong # {} PROVE FALSE
  <2>1. Wrong \in SUBSET Nat
    OBVIOUS
  <2>2. PICK n \in Wrong : \A m \in Wrong : n <= m
    BY <1>1, <2>1, HasLeast
  <2>3. n \in 1..N
    BY <2>2
  <2>4. n - 1 \in 0..N /\ ~(n <= n - 1)
    BY <2>3
  <2>5. n - 1 \in Good
    BY <2>2, <2>4
  <2> QED BY <2>2, <2>3, <2>5
<1> QED BY <1>1

Recurs(f, N, first, Step) == f[0] = first /\ \A n \in 1..N : f[n] = Step[n][f[n - 1]]

LEMMA RecursionExists ==
  ASSUME NEW N \in Nat, NEW X, NEW first \in X, NEW Step \in [1..N -> [X -> X]]
  PROVE  \E f \in [0..N -> X] : Recurs(f, N, first, Step)
<1> DEFINE Good == {n \in 0..N : \E f \in [0..n -> X] : Recurs(f, n, first, Step)}
<1>1. 0 \in Good
  <2> DEFINE f == [m \in 0..0 |-> first]
  <2>1. f \in [0..0 -> X] /\ f[0] = first
    OBVIOUS
  <2> HIDE DEF f
  <2> QED BY <2>1 DEF Recurs
<1>2. ASSUME NEW n \in 1..N, n - 1 \in Good PROVE n \in Good
  <2>1. PICK f \in [0..(n - 1) -> X] : Recurs(f, n - 1, first, Step)
    BY <1>2
  <2>2. n \in 0..N /\ n - 1 \in 0..(n - 1) /\ n \notin 0..(n - 1) /\ 0 \in 0..(n - 1)
    OBVIOUS
  <2>3. PICK x : x = Step[n][f[n - 1]]
    OBVIOUS
  <2>4. x \in X
    BY <2>1, <2>2, <2>3
  <2> DEFINE g == [m \in 0..n |-> IF m = n THEN x ELSE f[m]]
  <2>5. g[n] = x /\ \A m \in 0..(n - 1) : g[m] = f[m]
    BY <2>2
  <2>6. g \in [0..n -> X]
    <3>1. \A m \in 0..n : m = n \/ m \in 0..(n - 1)
      OBVIOUS
    <3> QED BY <2>1, <2>4, <3>1
  <2> HIDE DEF g
  <2>7. g[0] = first
    BY <2>1, <2>2, <2>5 DEF Recurs
  <2>8. ASSUME NEW m \in 1..n PROVE g[m] = Step[m][g[m - 1]]
    <3>1. CASE m = n
      BY <2>2, <2>3, <2>5, <3>1
    <3>2. CASE m # n
      <4>1. m \in 1..(n - 1) /\ m \in 0..(n - 1) /\ m - 1 \in 0..(n - 1)
        BY <3>2
      <4> QED BY <2>1, <2>5, <4>1 DEF Recurs
    <3> QED BY <3>1, <3>2
  <2>9. Recurs(g, n, first, Step)
    BY <2>7, <2>8 DEF Recurs
  <2> QED BY <2>2, <2>6, <2>9
<1>3. N \in Good
  <2> HIDE DEF Good
  <2>1. \A n \in 0..N : n \in Good
    BY <1>1, <1>2, AllTheWay
  <2> QED BY <2>1
<1> QED BY <1>3

-----------------------------------------------------------------------------
(* What is chosen of a row.                                                *)

InRow(row, x) == \E k \in 1..Len(row) : row[k] = x
OnceEach(row) == \A j, k \in 1..Len(row) : row[j] = row[k] => j = k
Choosing(row, S, f) ==
  f = [n \in 0..Len(row) |->
         IF n = 0 THEN <<>> ELSE IF row[n] \in S THEN Append(f[n - 1], row[n]) ELSE f[n - 1]]

LEMMA ChoosingExists ==
  ASSUME NEW T, NEW row \in Seq(T), NEW S
  PROVE  \E f \in [0..Len(row) -> Seq(T)] : Choosing(row, S, f)
<1>1. Len(row) \in Nat /\ \A n \in 1..Len(row) : row[n] \in T
  OBVIOUS
<1> DEFINE Step == [n \in 1..Len(row) |-> [s \in Seq(T) |-> IF row[n] \in S THEN Append(s, row[n]) ELSE s]]
<1>2. Step \in [1..Len(row) -> [Seq(T) -> Seq(T)]]
  BY <1>1
<1>3. \A n \in 1..Len(row), s \in Seq(T) : Step[n][s] = IF row[n] \in S THEN Append(s, row[n]) ELSE s
  OBVIOUS
<1> HIDE DEF Step
<1>4. <<>> \in Seq(T)
  OBVIOUS
<1>5. PICK f \in [0..Len(row) -> Seq(T)] : Recurs(f, Len(row), <<>>, Step)
  BY <1>1, <1>2, <1>4, RecursionExists
<1>6. ASSUME NEW n \in 0..Len(row)
      PROVE  f[n] = IF n = 0 THEN <<>> ELSE IF row[n] \in S THEN Append(f[n - 1], row[n]) ELSE f[n - 1]
  <2>1. CASE n = 0
    BY <1>5, <2>1 DEF Recurs
  <2>2. CASE n # 0
    <3>1. n \in 1..Len(row) /\ n - 1 \in 0..Len(row)
      BY <1>1, <2>2
    <3>2. f[n] = Step[n][f[n - 1]] /\ f[n - 1] \in Seq(T)
      BY <1>5, <3>1 DEF Recurs
    <3> QED BY <1>3, <2>2, <3>1, <3>2
  <2> QED BY <2>1, <2>2
<1>7. f = [n \in 0..Len(row) |-> f[n]]
  OBVIOUS
<1> QED BY <1>6, <1>7 DEF Choosing

LEMMA ChosenIs ==
  ASSUME NEW T, NEW row \in Seq(T), NEW S
  PROVE  /\ Chosen(row, S) \in Seq(T)
         /\ \A x : InRow(Chosen(row, S), x) <=> x \in S /\ InRow(row, x)
         /\ OnceEach(row) => OnceEach(Chosen(row, S))
<1>1. PICK h : h = CHOOSE f : Choosing(row, S, f)
  OBVIOUS
<1>2. Choosing(row, S, h)
  BY <1>1, ChoosingExists
<1>3. Chosen(row, S) = h[Len(row)]
  BY <1>1 DEF Chosen, Choosing
<1>4. Len(row) \in Nat /\ \A n \in 1..Len(row) : row[n] \in T
  OBVIOUS
<1>5. h[0] = <<>> /\ \A n \in 1..Len(row) : h[n] = IF row[n] \in S THEN Append(h[n - 1], row[n]) ELSE h[n - 1]
  <2>1. \A n \in 0..Len(row) :
          h[n] = IF n = 0 THEN <<>> ELSE IF row[n] \in S THEN Append(h[n - 1], row[n]) ELSE h[n - 1]
    BY <1>2 DEF Choosing
  <2>2. 0 \in 0..Len(row) /\ \A n \in 1..Len(row) : n \in 0..Len(row) /\ n # 0
    BY <1>4
  <2> QED BY <2>1, <2>2
<1> DEFINE Good == {n \in 0..Len(row) :
                      /\ h[n] \in Seq(T)
                      /\ \A x : InRow(h[n], x) <=> x \in S /\ \E k \in 1..n : row[k] = x
                      /\ OnceEach(row) => OnceEach(h[n])}
<1>6. 0 \in Good
  <2>1. h[0] \in Seq(T) /\ Len(h[0]) = 0 /\ 0 \in 0..Len(row)
    BY <1>4, <1>5
  <2> QED BY <2>1 DEF InRow, OnceEach
<1>7. ASSUME NEW n \in 1..Len(row), n - 1 \in Good PROVE n \in Good
  <2>1. PICK old, new, x : old = h[n - 1] /\ new = h[n] /\ x = row[n]
    OBVIOUS
  <2>2. /\ old \in Seq(T) /\ Len(old) \in Nat
        /\ \A y : InRow(old, y) <=> y \in S /\ \E k \in 1..(n - 1) : row[k] = y
        /\ OnceEach(row) => OnceEach(old)
    BY <1>7, <2>1
  <2>3. /\ x \in T /\ n \in 0..Len(row) /\ n \in Nat
        /\ \A k \in 1..n : k = n \/ k \in 1..(n - 1)
        /\ \A k \in 1..(n - 1) : k \in 1..n /\ k # n /\ k \in 1..Len(row)
    BY <1>4, <2>1
  <2>4. CASE x \in S
    <3>1. new = Append(old, x)
      BY <1>5, <2>1, <2>4
    <3>2. new \in Seq(T) /\ Len(new) = Len(old) + 1 /\ new[Len(old) + 1] = x
          /\ \A k \in 1..Len(old) : new[k] = old[k]
      BY <2>2, <2>3, <3>1
    <3>3. \A k \in 1..Len(new) : k \in 1..Len(old) \/ k = Len(old) + 1
      BY <2>2, <3>2
    <3>4. \A k \in 1..Len(old) : k \in 1..Len(new)
      BY <2>2, <3>2
    <3>5. Len(old) + 1 \in 1..Len(new)
      BY <2>2, <3>2
    <3>6. ASSUME NEW y PROVE InRow(new, y) <=> y \in S /\ \E k \in 1..n : row[k] = y
      <4>1. InRow(new, y) <=> InRow(old, y) \/ y = x
        BY <3>2, <3>3, <3>4, <3>5 DEF InRow
      <4>2. (\E k \in 1..n : row[k] = y) <=> (\E k \in 1..(n - 1) : row[k] = y) \/ y = x
        BY <2>1, <2>3
      <4> QED BY <2>2, <2>4, <4>1, <4>2
    <3>7. ASSUME OnceEach(row) PROVE OnceEach(new)
      <4>1. ~InRow(old, x)
        BY <2>1, <2>2, <2>3, <3>7 DEF OnceEach
      <4> QED BY <2>2, <3>2, <3>3, <3>7, <4>1 DEF OnceEach, InRow
    <3> QED BY <2>1, <2>3, <3>2, <3>6, <3>7
  <2>5. CASE x \notin S
    <3>1. new = old
      BY <1>5, <2>1, <2>5
    <3>2. ASSUME NEW y PROVE InRow(new, y) <=> y \in S /\ \E k \in 1..n : row[k] = y
      <4>1. (\E k \in 1..n : row[k] = y) <=> (\E k \in 1..(n - 1) : row[k] = y) \/ y = x
        BY <2>1, <2>3
      <4> QED BY <2>2, <2>5, <3>1, <4>1
    <3> QED BY <2>1, <2>2, <2>3, <3>1, <3>2
  <2> QED BY <2>4, <2>5
<1>8. Len(row) \in Good
  <2> HIDE DEF Good
  <2>1. \A n \in 0..Len(row) : n \in Good
    BY <1>4, <1>6, <1>7, AllTheWay
  <2> QED BY <1>4, <2>1
<1>9. \A y : InRow(row, y) <=> \E k \in 1..Len(row) : row[k] = y
  BY DEF InRow
<1> QED BY <1>3, <1>8, <1>9
-----------------------------------------------------------------------------
(* The graph of the dependencies.                                          *)

Needs == UNION {[D -> {"REQUIRED", "OPTIONAL"}] : D \in SUBSET (1..MaxNodes)}
Node == [deps : Needs, state : DependencyStates]
NodesTyped ==
  /\ nodes \in Seq(Node) /\ Len(nodes) <= MaxNodes
  /\ \A i \in NodeIds : DepsOf(i) \subseteq NodeIds \ {i} /\ Cardinality(DepsOf(i)) <= MaxPerNode

LEMMA NodeNumbers == MaxNodes \in Nat /\ MaxPerNode \in Nat \ {0} /\ MaxEdges \in Nat
BY DependencyAssumption

LEMMA NodesAre ==
  ASSUME NodesTyped
  PROVE  /\ Len(nodes) \in Nat /\ Len(nodes) <= MaxNodes /\ NodeIds = 1..Len(nodes) /\ IsFiniteSet(NodeIds)
         /\ \A i \in NodeIds : /\ nodes[i] \in Node /\ nodes[i].state \in DependencyStates
                               /\ DepsOf(i) \subseteq NodeIds /\ i \notin DepsOf(i) /\ IsFiniteSet(DepsOf(i))
<1>1. /\ Len(nodes) \in Nat /\ Len(nodes) <= MaxNodes /\ NodeIds = 1..Len(nodes)
      /\ \A i \in NodeIds : nodes[i] \in Node
  BY DEF NodesTyped, NodeIds
<1>2. IsFiniteSet(NodeIds)
  BY <1>1, FS_Interval
<1>3. \A i \in NodeIds : DepsOf(i) \subseteq NodeIds /\ i \notin DepsOf(i)
  BY DEF NodesTyped
<1>4. \A i \in NodeIds : IsFiniteSet(DepsOf(i))
  BY <1>2, <1>3, FS_Subset
<1> QED BY <1>1, <1>2, <1>3, <1>4 DEF Node

(* A row holds dependents, each once, and all of them when they fit.       *)
RowsSound(R) ==
  \A j \in NodeIds :
    /\ R[j] \in Seq(NodeIds) /\ OnceEach(R[j])
    /\ \A i : InRow(R[j], i) => i \in Dependents(j)
    /\ Cardinality(Dependents(j)) <= MaxPerNode => \A i \in Dependents(j) : InRow(R[j], i)

LEMMA TableOrderIs ==
  ASSUME NodesTyped, NEW S \in SUBSET NodeIds
  PROVE  /\ InTableOrder(S) \in Seq(NodeIds) /\ OnceEach(InTableOrder(S))
         /\ \A i : InRow(InTableOrder(S), i) <=> i \in S
<1>1. PICK row : row = [i \in NodeIds |-> i]
  OBVIOUS
<1>2. row \in Seq(NodeIds) /\ Len(row) = Len(nodes) /\ \A i \in NodeIds : row[i] = i
  BY <1>1, NodesAre
<1>3. OnceEach(row) /\ \A i : InRow(row, i) <=> i \in NodeIds
  <2>1. PICK top : top = Len(nodes)
    OBVIOUS
  <2>2. Len(row) = top /\ \A k \in 1..top : row[k] = k
    BY <1>2, <2>1, NodesAre
  <2>3. NodeIds = 1..top
    BY <2>1, NodesAre
  <2>4. OnceEach(row)
    BY <2>2 DEF OnceEach
  <2>5. \A i : InRow(row, i) <=> i \in 1..top
    BY <2>2 DEF InRow
  <2> QED BY <2>3, <2>4, <2>5
<1>4. InTableOrder(S) = Chosen(row, S)
  BY <1>1 DEF InTableOrder
<1> QED BY <1>2, <1>3, <1>4, ChosenIs

LEMMA OnceEachCounts ==
  ASSUME NEW T, NEW row \in Seq(T), OnceEach(row), NEW S, \A x : InRow(row, x) <=> x \in S
  PROVE  IsFiniteSet(S) /\ Cardinality(S) = Len(row)
<1>1. Len(row) \in Nat /\ DOMAIN row = 1..Len(row)
  OBVIOUS
<1>2. row \in Bijection(1..Len(row), S)
  <2>1. \A k \in 1..Len(row) : row[k] \in S
    BY DEF InRow
  <2>2. row \in [1..Len(row) -> S]
    BY <1>1, <2>1
  <2>3. \A x \in S : \E k \in 1..Len(row) : row[k] = x
    BY DEF InRow
  <2>4. \A j, k \in 1..Len(row) : row[j] = row[k] => j = k
    BY DEF OnceEach
  <2> QED BY <2>2, <2>3, <2>4 DEF Bijection, Injection, Surjection, IsInjective
<1>3. IsFiniteSet(1..Len(row)) /\ Cardinality(1..Len(row)) = Len(row)
  BY <1>1, FS_Interval
<1>4. ExistsBijection(1..Len(row), S)
  BY <1>2 DEF ExistsBijection
<1> QED BY <1>3, <1>4, FS_Bijection

LEMMA RowsAreSound ==
  ASSUME NodesTyped
  PROVE  RowsSound(ReverseAdjacency)
<1> SUFFICES ASSUME NEW j \in NodeIds, NEW row, row = ReverseAdjacency[j]
             PROVE  /\ row \in Seq(NodeIds) /\ OnceEach(row)
                    /\ \A i : InRow(row, i) => i \in Dependents(j)
                    /\ Cardinality(Dependents(j)) <= MaxPerNode => \A i \in Dependents(j) : InRow(row, i)
  BY DEF RowsSound
<1>1. PICK all : all = InTableOrder(Dependents(j))
  OBVIOUS
<1>2. PICK n : n = IF Len(all) < MaxPerNode THEN Len(all) ELSE MaxPerNode
  OBVIOUS
<1>3. row = SubSeq(all, 1, n)
  BY <1>1, <1>2 DEF ReverseAdjacency
<1>4. Dependents(j) \in SUBSET NodeIds
  BY DEF Dependents
<1>5. all \in Seq(NodeIds) /\ OnceEach(all) /\ \A i : InRow(all, i) <=> i \in Dependents(j)
  BY <1>1, <1>4, TableOrderIs
<1>6. Len(all) \in Nat /\ n \in 0..Len(all)
  BY <1>2, <1>5, NodeNumbers
<1>7. row \in Seq(NodeIds) /\ Len(row) = n /\ \A k \in 1..n : row[k] = all[k]
  BY <1>3, <1>5, <1>6
<1>8. OnceEach(row) /\ \A i : InRow(row, i) => InRow(all, i)
  BY <1>5, <1>6, <1>7 DEF OnceEach, InRow
<1>9. ASSUME Cardinality(Dependents(j)) <= MaxPerNode, NEW i \in Dependents(j)
      PROVE  InRow(row, i)
  <2>1. Len(all) <= MaxPerNode
    BY <1>5, <1>9, OnceEachCounts
  <2>2. n = Len(all)
    BY <1>2, <1>6, <2>1, NodeNumbers
  <2> QED BY <1>5, <1>7, <2>2 DEF InRow
<1> QED BY <1>5, <1>7, <1>8, <1>9
(* The queue of the sort after n nodes were taken from it: what waits in   *)
(* it waited for nodes before it only, each of them taken; and every node  *)
(* whose dependencies are taken, and know of it, is in it.                 *)
AmongFirst(q, n, d) == \E a \in 1..n : a <= Len(q) /\ q[a] = d
Ripe(R, q, n) ==
  {i \in NodeIds : Cardinality(DepsOf(i)) = Cardinality({j \in Range(SubSeq(q, 1, n)) : Contains(R[j], i)})}
Onto(R, n, q) == IF n > Len(q) THEN q ELSE q \o Chosen(R[q[n]], Ripe(R, q, n))
Sorting(R, f) ==
  f = [n \in 0..MaxNodes |->
         IF n = 0 THEN InTableOrder({i \in NodeIds : DepsOf(i) = {}}) ELSE Onto(R, n, f[n - 1])]
Queued(R, n, q) ==
  /\ q \in Seq(NodeIds) /\ OnceEach(q)
  /\ \A k \in 1..Len(q) : \A d \in DepsOf(q[k]) : \E a \in 1..n : a < k /\ q[a] = d
  /\ \A i \in NodeIds : (\A d \in DepsOf(i) : AmongFirst(q, n, d) /\ InRow(R[d], i)) => InRow(q, i)

LEMMA RipeIs ==
  ASSUME NodesTyped, NEW R, RowsSound(R), NEW q \in Seq(NodeIds), NEW n \in 1..Len(q), NEW i \in NodeIds
  PROVE  i \in Ripe(R, q, n) <=> \A d \in DepsOf(i) : (\E a \in 1..n : q[a] = d) /\ InRow(R[d], i)
<1>1. PICK first : first = Range(SubSeq(q, 1, n))
  OBVIOUS
<1>2. \A j : j \in first <=> \E a \in 1..n : q[a] = j
  <2>1. n \in Nat /\ Len(q) \in Nat /\ n <= Len(q) /\ \A a \in 1..n : q[a] \in NodeIds
    OBVIOUS
  <2>2. PICK s : s = SubSeq(q, 1, n)
    OBVIOUS
  <2>3. s \in Seq(NodeIds) /\ Len(s) = n /\ \A a \in 1..n : s[a] = q[a]
    BY <2>1, <2>2
  <2>4. DOMAIN s = 1..n
    BY <2>3
  <2> QED BY <1>1, <2>2, <2>3, <2>4 DEF Range
<1>3. first \subseteq NodeIds
  BY <1>2
<1>4. PICK knowing : knowing = {j \in first : Contains(R[j], i)}
  OBVIOUS
<1>5. \A j \in first : Contains(R[j], i) <=> InRow(R[j], i)
  BY DEF Contains, InRow
<1>6. knowing \subseteq DepsOf(i)
  BY <1>3, <1>4, <1>5 DEF RowsSound, Dependents
<1>7. IsFiniteSet(DepsOf(i))
  BY NodesAre
<1>8. Cardinality(DepsOf(i)) = Cardinality(knowing) <=> DepsOf(i) = knowing
  BY <1>6, <1>7, FS_Subset
<1>9. i \in Ripe(R, q, n) <=> DepsOf(i) = knowing
  BY <1>1, <1>4, <1>8 DEF Ripe
<1>10. DepsOf(i) = knowing <=> \A d \in DepsOf(i) : (\E a \in 1..n : q[a] = d) /\ InRow(R[d], i)
  BY <1>2, <1>4, <1>5, <1>6
<1> QED BY <1>9, <1>10

LEMMA QueueStarts ==
  ASSUME NodesTyped, NEW R, NEW q, q = InTableOrder({i \in NodeIds : DepsOf(i) = {}})
  PROVE  Queued(R, 0, q)
<1>1. PICK S : S = {i \in NodeIds : DepsOf(i) = {}}
  OBVIOUS
<1>2. q \in Seq(NodeIds) /\ OnceEach(q) /\ \A i : InRow(q, i) <=> i \in S
  BY <1>1, TableOrderIs
<1>3. \A k \in 1..Len(q) : DepsOf(q[k]) = {}
  BY <1>1, <1>2 DEF InRow
<1>4. \A i \in NodeIds : (\A d \in DepsOf(i) : AmongFirst(q, 0, d)) => InRow(q, i)
  BY <1>1, <1>2 DEF AmongFirst
<1> QED BY <1>2, <1>3, <1>4 DEF Queued

LEMMA QueueGoesOn ==
  ASSUME NodesTyped, NEW R, RowsSound(R), NEW n \in Nat \ {0}, NEW q, Queued(R, n - 1, q)
  PROVE  Queued(R, n, Onto(R, n, q))
<1>1. /\ q \in Seq(NodeIds) /\ Len(q) \in Nat /\ OnceEach(q)
      /\ \A k \in 1..Len(q) : q[k] \in NodeIds
      /\ \A k \in 1..Len(q) : \A d \in DepsOf(q[k]) : \E a \in 1..(n - 1) : a < k /\ q[a] = d
      /\ \A i \in NodeIds : (\A d \in DepsOf(i) : AmongFirst(q, n - 1, d) /\ InRow(R[d], i)) => InRow(q, i)
  BY DEF Queued
<1>2. \A a \in 1..n : a = n \/ a \in 1..(n - 1)
  OBVIOUS
<1>3. \A a \in 1..(n - 1) : a \in 1..n /\ a # n
  OBVIOUS
<1>4. CASE n > Len(q)
  <2>1. Onto(R, n, q) = q
    BY <1>4 DEF Onto
  <2>2. \A d : AmongFirst(q, n, d) => AmongFirst(q, n - 1, d)
    BY <1>1, <1>2, <1>4 DEF AmongFirst
  <2>3. \A k \in 1..Len(q) : \A d \in DepsOf(q[k]) : \E a \in 1..n : a < k /\ q[a] = d
    BY <1>1, <1>3
  <2> QED BY <1>1, <2>1, <2>2, <2>3 DEF Queued
<1>5. CASE ~(n > Len(q))
  <2>1. PICK t, c, new : t = q[n] /\ c = Chosen(R[t], Ripe(R, q, n)) /\ new = q \o c
    OBVIOUS
  <2>2. Onto(R, n, q) = new
    BY <1>5, <2>1 DEF Onto
  <2>3. n \in 1..Len(q) /\ t \in NodeIds
    BY <1>1, <1>5, <2>1
  <2>4. /\ R[t] \in Seq(NodeIds) /\ OnceEach(R[t]) /\ \A i : InRow(R[t], i) => i \in Dependents(t)
    BY <2>3 DEF RowsSound
  <2>5. /\ c \in Seq(NodeIds) /\ Len(c) \in Nat /\ OnceEach(c)
        /\ \A x : InRow(c, x) <=> x \in Ripe(R, q, n) /\ InRow(R[t], x)
    BY <2>1, <2>4, ChosenIs
  <2>6. /\ new \in Seq(NodeIds) /\ Len(new) = Len(q) + Len(c)
        /\ \A k \in 1..Len(q) : new[k] = q[k]
        /\ \A k \in 1..Len(c) : new[Len(q) + k] = c[k]
    <3>1. \A k \in 1..(Len(q) + Len(c)) : new[k] = IF k <= Len(q) THEN q[k] ELSE c[k - Len(q)]
      BY <1>1, <2>1, <2>5, ConcatProperties
    <3>2. \A k \in 1..Len(q) : k \in 1..(Len(q) + Len(c)) /\ k <= Len(q)
      BY <1>1, <2>5
    <3>3. \A k \in 1..Len(c) : /\ Len(q) + k \in 1..(Len(q) + Len(c)) /\ ~(Len(q) + k <= Len(q))
                               /\ (Len(q) + k) - Len(q) = k
      BY <1>1, <2>5
    <3>4. new \in Seq(NodeIds) /\ Len(new) = Len(q) + Len(c)
      BY <1>1, <2>1, <2>5, ConcatProperties
    <3> QED BY <3>1, <3>2, <3>3, <3>4
  <2>7. \A k \in 1..Len(new) : k \in 1..Len(q) \/ \E b \in 1..Len(c) : k = Len(q) + b
    <3>1. ASSUME NEW k \in 1..Len(new), k \notin 1..Len(q) PROVE k - Len(q) \in 1..Len(c) /\ k = Len(q) + (k - Len(q))
      BY <1>1, <2>5, <2>6, <3>1
    <3> QED BY <3>1
  <2>8. \A i : InRow(new, i) <=> InRow(q, i) \/ InRow(c, i)
    <3>1. \A k \in 1..Len(q) : k \in 1..Len(new)
      BY <1>1, <2>5, <2>6
    <3>2. \A k \in 1..Len(c) : Len(q) + k \in 1..Len(new)
      BY <1>1, <2>5, <2>6
    <3> QED BY <2>6, <2>7, <3>1, <3>2 DEF InRow
  (* Who is appended waited for the one just taken, and nobody in the      *)
  (* queue did.                                                            *)
  <2>9. ASSUME NEW x, InRow(c, x)
        PROVE  x \in NodeIds /\ t \in DepsOf(x) /\ ~InRow(q, x) /\ \A d \in DepsOf(x) : \E a \in 1..n : q[a] = d
    <3>1. x \in NodeIds /\ t \in DepsOf(x)
      BY <2>4, <2>5, <2>9 DEF Dependents
    <3>2. \A d \in DepsOf(x) : \E a \in 1..n : q[a] = d
      BY <1>1, <2>3, <2>5, <2>9, <3>1, RipeIs
    <3>3. ASSUME NEW k \in 1..Len(q), q[k] = x PROVE FALSE
      <4>1. PICK a \in 1..(n - 1) : a < k /\ q[a] = t
        BY <1>1, <3>1, <3>3
      <4>2. a \in 1..Len(q)
        BY <2>3, <4>1
      <4>3. a # n
        BY <1>3, <4>1
      <4> QED BY <1>1, <2>1, <2>3, <4>1, <4>2, <4>3 DEF OnceEach
    <3> QED BY <3>1, <3>2, <3>3 DEF InRow
  <2>10. OnceEach(new)
    <3> SUFFICES ASSUME NEW j \in 1..Len(new), NEW k \in 1..Len(new), new[j] = new[k] PROVE j = k
      BY DEF OnceEach
    <3>1. CASE j \in 1..Len(q) /\ k \in 1..Len(q)
      BY <1>1, <2>6, <3>1 DEF OnceEach
    <3>2. ASSUME NEW a \in 1..Len(q), NEW b \in 1..Len(c), q[a] = c[b] PROVE FALSE
      BY <2>9, <3>2 DEF InRow
    <3>3. ASSUME NEW a \in 1..Len(c), NEW b \in 1..Len(c), c[a] = c[b] PROVE a = b
      BY <2>5, <3>3 DEF OnceEach
    <3>4. CASE j \in 1..Len(q) /\ k \notin 1..Len(q)
      <4>1. PICK b \in 1..Len(c) : k = Len(q) + b
        BY <2>7, <3>4
      <4> QED BY <2>6, <3>2, <3>4, <4>1
    <3>5. CASE j \notin 1..Len(q) /\ k \in 1..Len(q)
      <4>1. PICK b \in 1..Len(c) : j = Len(q) + b
        BY <2>7, <3>5
      <4> QED BY <2>6, <3>2, <3>5, <4>1
    <3>6. CASE j \notin 1..Len(q) /\ k \notin 1..Len(q)
      <4>1. PICK a \in 1..Len(c), b \in 1..Len(c) : j = Len(q) + a /\ k = Len(q) + b
        BY <2>7, <3>6
      <4> QED BY <2>6, <3>3, <4>1
    <3> QED BY <3>1, <3>4, <3>5, <3>6
  <2>11. ASSUME NEW k \in 1..Len(new), NEW d \in DepsOf(new[k]) PROVE \E a \in 1..n : a < k /\ new[a] = d
    <3>1. CASE k \in 1..Len(q)
      <4>1. PICK a \in 1..(n - 1) : a < k /\ q[a] = d
        BY <1>1, <2>6, <2>11, <3>1
      <4>2. a \in 1..n /\ a \in 1..Len(q)
        BY <1>1, <2>3, <4>1
      <4> QED BY <2>6, <4>1, <4>2
    <3>2. ASSUME NEW b \in 1..Len(c), k = Len(q) + b PROVE \E a \in 1..n : a < k /\ new[a] = d
      <4>1. new[k] = c[b] /\ InRow(c, c[b])
        BY <2>6, <3>2 DEF InRow
      <4>2. PICK a \in 1..n : q[a] = d
        BY <2>9, <2>11, <4>1
      <4>3. a \in 1..Len(q) /\ a < k
        BY <1>1, <2>3, <3>2, <4>2
      <4> QED BY <2>6, <4>2, <4>3
    <3> QED BY <2>7, <3>1, <3>2
  <2>12. ASSUME NEW i \in NodeIds, \A d \in DepsOf(i) : AmongFirst(new, n, d) /\ InRow(R[d], i)
         PROVE  InRow(new, i)
    <3>1. \A a \in 1..n : a \in 1..Len(q) /\ a <= Len(q)
      BY <1>1, <2>3
    <3>2. \A d \in DepsOf(i) : (\E a \in 1..n : q[a] = d) /\ InRow(R[d], i)
      BY <2>6, <2>12, <3>1 DEF AmongFirst
    <3>3. CASE t \in DepsOf(i)
      <4>1. i \in Ripe(R, q, n) /\ InRow(R[t], i)
        BY <1>1, <2>3, <3>2, <3>3, RipeIs
      <4> QED BY <2>5, <2>8, <4>1
    <3>4. CASE t \notin DepsOf(i)
      <4>1. ASSUME NEW d \in DepsOf(i) PROVE AmongFirst(q, n - 1, d) /\ InRow(R[d], i)
        <5>1. PICK a \in 1..n : q[a] = d
          BY <3>2
        <5>2. a # n
          BY <2>1, <3>4, <5>1
        <5>3. a \in 1..(n - 1) /\ a <= Len(q)
          BY <1>2, <3>1, <5>1, <5>2
        <5> QED BY <3>2, <5>1, <5>3 DEF AmongFirst
      <4> QED BY <1>1, <2>8, <4>1
    <3> QED BY <3>3, <3>4
  <2> QED BY <2>2, <2>6, <2>10, <2>11, <2>12 DEF Queued
<1> QED BY <1>4, <1>5
LEMMA SortIsQueued ==
  ASSUME NodesTyped, NEW R, RowsSound(R)
  PROVE  Queued(R, MaxNodes, SortNodes(R))
<1> DEFINE first == InTableOrder({i \in NodeIds : DepsOf(i) = {}})
<1>1. first \in Seq(NodeIds)
  <2>1. PICK S : S = {i \in NodeIds : DepsOf(i) = {}}
    OBVIOUS
  <2> QED BY <2>1, TableOrderIs
<1>2. ASSUME NEW n \in 1..MaxNodes, NEW q \in Seq(NodeIds) PROVE Onto(R, n, q) \in Seq(NodeIds)
  <2>1. CASE n > Len(q)
    BY <2>1 DEF Onto
  <2>2. CASE ~(n > Len(q))
    <3>1. q[n] \in NodeIds
      <4>1. n \in 1..Len(q)
        BY <2>2, NodeNumbers
      <4> QED BY <4>1
    <3>2. R[q[n]] \in Seq(NodeIds)
      BY <3>1 DEF RowsSound
    <3>3. PICK c : c = Chosen(R[q[n]], Ripe(R, q, n))
      OBVIOUS
    <3>4. c \in Seq(NodeIds)
      BY <3>2, <3>3, ChosenIs
    <3> QED BY <2>2, <3>3, <3>4, ConcatProperties DEF Onto
  <2> QED BY <2>1, <2>2
<1> HIDE DEF first
<1>3. \E f : Sorting(R, f)
  <2> DEFINE Step == [n \in 1..MaxNodes |-> [q \in Seq(NodeIds) |-> Onto(R, n, q)]]
  <2>1. Step \in [1..MaxNodes -> [Seq(NodeIds) -> Seq(NodeIds)]]
    BY <1>2
  <2>2. \A n \in 1..MaxNodes, q \in Seq(NodeIds) : Step[n][q] = Onto(R, n, q)
    OBVIOUS
  <2> HIDE DEF Step
  <2>3. PICK f \in [0..MaxNodes -> Seq(NodeIds)] : Recurs(f, MaxNodes, first, Step)
    BY <1>1, <2>1, NodeNumbers, RecursionExists
  <2>4. ASSUME NEW n \in 0..MaxNodes PROVE f[n] = IF n = 0 THEN first ELSE Onto(R, n, f[n - 1])
    <3>1. CASE n = 0
      BY <2>3, <3>1 DEF Recurs
    <3>2. CASE n # 0
      <4>1. n \in 1..MaxNodes /\ n - 1 \in 0..MaxNodes
        BY <3>2, NodeNumbers
      <4>2. f[n] = Step[n][f[n - 1]] /\ f[n - 1] \in Seq(NodeIds)
        BY <2>3, <4>1 DEF Recurs
      <4> QED BY <2>2, <3>2, <4>1, <4>2
    <3> QED BY <3>1, <3>2
  <2>5. f = [n \in 0..MaxNodes |-> f[n]]
    OBVIOUS
  <2>6. f = [n \in 0..MaxNodes |-> IF n = 0 THEN first ELSE Onto(R, n, f[n - 1])]
    BY <2>4, <2>5
  <2> QED BY <2>6 DEF Sorting, first
<1>4. PICK h : h = CHOOSE f : Sorting(R, f)
  OBVIOUS
<1>5. Sorting(R, h)
  BY <1>3, <1>4
<1>6. SortNodes(R) = h[MaxNodes]
  BY <1>4 DEF SortNodes, Sorting, Onto, Ripe
<1>7. h[0] = first /\ \A n \in 1..MaxNodes : h[n] = Onto(R, n, h[n - 1])
  <2>1. \A n \in 0..MaxNodes : h[n] = IF n = 0 THEN first ELSE Onto(R, n, h[n - 1])
    BY <1>5 DEF Sorting, first
  <2>2. 0 \in 0..MaxNodes /\ \A n \in 1..MaxNodes : n \in 0..MaxNodes /\ n # 0
    BY NodeNumbers
  <2> QED BY <2>1, <2>2
<1> DEFINE Good == {n \in 0..MaxNodes : Queued(R, n, h[n])}
<1>8. 0 \in Good
  <2>1. 0 \in 0..MaxNodes
    BY NodeNumbers
  <2> QED BY <1>7, <2>1, QueueStarts DEF first
<1>9. ASSUME NEW n \in 1..MaxNodes, n - 1 \in Good PROVE n \in Good
  <2>1. n \in Nat \ {0} /\ n \in 0..MaxNodes
    BY NodeNumbers
  <2>2. PICK q : q = h[n - 1]
    OBVIOUS
  <2>3. Queued(R, n - 1, q)
    BY <1>9, <2>2
  <2>4. Queued(R, n, Onto(R, n, q))
    BY <2>1, <2>3, QueueGoesOn
  <2> QED BY <1>7, <2>1, <2>2, <2>4
<1> HIDE DEF Good
<1>10. \A n \in 0..MaxNodes : n \in Good
  BY <1>8, <1>9, NodeNumbers, AllTheWay
<1>11. MaxNodes \in Good
  BY <1>10, NodeNumbers
<1> QED BY <1>6, <1>11 DEF Good

(* What the order is worth: it is sound, and it lacks nobody but by a row  *)
(* that is too short.                                                      *)
Orders(order) ==
  /\ order \in Seq(NodeIds) /\ Cardinality(Range(order)) = Len(order)
  /\ \A n \in DOMAIN order : DepsOf(order[n]) \subseteq Range(SubSeq(order, 1, n - 1))
Lacks(order) ==
  \A i \in NodeIds \ Range(order) :
    \E j \in DepsOf(i) : j \notin Range(order) \/ Cardinality(Dependents(j)) > MaxPerNode

LEMMA SortOrders ==
  ASSUME NodesTyped, NEW order, order = SortNodes(ReverseAdjacency)
  PROVE  Orders(order) /\ Lacks(order)
<1>1. PICK R : R = ReverseAdjacency
  OBVIOUS
<1>2. RowsSound(R) /\ Queued(R, MaxNodes, order)
  BY <1>1, RowsAreSound, SortIsQueued
<1>3. /\ order \in Seq(NodeIds) /\ Len(order) \in Nat /\ DOMAIN order = 1..Len(order) /\ OnceEach(order)
      /\ \A k \in 1..Len(order) : order[k] \in NodeIds
  BY <1>2 DEF Queued
<1>4. \A x : InRow(order, x) <=> x \in Range(order)
  BY <1>3 DEF InRow, Range
<1>5. Cardinality(Range(order)) = Len(order)
  BY <1>3, <1>4, OnceEachCounts
<1>6. Len(order) <= MaxNodes
  <2>1. Range(order) \in SUBSET NodeIds
    BY <1>3 DEF Range
  <2>2. Cardinality(Range(order)) <= Cardinality(NodeIds)
    BY <2>1, NodesAre, FS_Subset
  <2>3. Cardinality(NodeIds) = Len(nodes)
    <3>1. PICK top : top = Len(nodes)
      OBVIOUS
    <3>2. top \in Nat /\ NodeIds = 1..top
      BY <3>1, NodesAre
    <3>3. Cardinality(1..top) = top
      BY <3>2, FS_Interval
    <3> QED BY <3>1, <3>2, <3>3
  <2> QED BY <1>3, <1>5, <2>2, <2>3, NodesAre, NodeNumbers
<1>7. ASSUME NEW k \in DOMAIN order PROVE DepsOf(order[k]) \subseteq Range(SubSeq(order, 1, k - 1))
  <2> SUFFICES ASSUME NEW d \in DepsOf(order[k]) PROVE d \in Range(SubSeq(order, 1, k - 1))
    OBVIOUS
  <2>1. k \in 1..Len(order)
    BY <1>3
  <2>2. PICK a \in 1..MaxNodes : a < k /\ order[a] = d
    BY <1>2, <2>1 DEF Queued
  <2>3. PICK s : s = SubSeq(order, 1, k - 1)
    OBVIOUS
  <2>4. k - 1 \in 0..Len(order) /\ a \in 1..(k - 1)
    BY <1>3, <2>1, <2>2
  <2>5. Len(s) = k - 1 /\ s \in Seq(NodeIds) /\ \A b \in 1..(k - 1) : s[b] = order[b]
    BY <1>3, <2>3, <2>4
  <2>6. a \in DOMAIN s /\ s[a] = d
    BY <2>2, <2>4, <2>5
  <2> QED BY <2>3, <2>6 DEF Range
<1>8. Lacks(order)
  <2> SUFFICES ASSUME NEW i \in NodeIds, i \notin Range(order),
                      \A j \in DepsOf(i) : j \in Range(order) /\ ~(Cardinality(Dependents(j)) > MaxPerNode)
               PROVE  FALSE
    BY DEF Lacks
  <2>1. ASSUME NEW d \in DepsOf(i) PROVE AmongFirst(order, MaxNodes, d) /\ InRow(R[d], i)
    <3>1. PICK a \in 1..Len(order) : order[a] = d
      BY <1>4 DEF InRow
    <3>2. a \in 1..MaxNodes /\ a <= Len(order)
      BY <1>3, <1>6, NodeNumbers
    <3>3. d \in NodeIds /\ i \in Dependents(d)
      BY NodesAre DEF Dependents
    <3>4. IsFiniteSet(Dependents(d))
      <4>1. Dependents(d) \in SUBSET NodeIds
        BY DEF Dependents
      <4> QED BY <4>1, NodesAre, FS_Subset
    <3>5. Cardinality(Dependents(d)) <= MaxPerNode
      BY <3>4, FS_CardinalityType, NodeNumbers
    <3>6. InRow(R[d], i)
      BY <1>2, <3>3, <3>5 DEF RowsSound
    <3> QED BY <3>1, <3>2, <3>6 DEF AmongFirst
  <2>2. InRow(order, i)
    BY <1>2, <2>1 DEF Queued
  <2> QED BY <1>4, <2>2
<1> QED BY <1>3, <1>5, <1>7, <1>8 DEF Orders
(* The judgement of the nodes, one after the other.                        *)
AsReported == [j \in NodeIds |-> nodes[j].state]
JudgedOne(i, states) ==
  LET needed == {j \in DepsOf(i) : nodes[i].deps[j] = "REQUIRED"}
      is(js, set) == \E j \in js : states[j] \in set
  IN IF is(needed, {"UNAVAILABLE"}) THEN [states EXCEPT ![i] = "UNAVAILABLE"]
     ELSE IF is(DepsOf(i), {"BLOCKED", "FAILED"}) THEN [states EXCEPT ![i] = "BLOCKED"]
     ELSE IF is(DepsOf(i), {"STOPPED"}) THEN states
     ELSE [states EXCEPT ![i] = "READY"]
Judging(f) ==
  f = [i \in 0..MaxNodes |-> IF i = 0 \/ i \notin NodeIds THEN AsReported ELSE JudgedOne(i, f[i - 1])]
States == [NodeIds -> DependencyStates]

LEMMA JudgedOneIs ==
  ASSUME NodesTyped, NEW i \in NodeIds, NEW states \in States, NEW new, new = JudgedOne(i, states)
  PROVE  /\ new \in States /\ \A j \in NodeIds : j # i => new[j] = states[j]
         /\ new[i] = "READY" =>
              \A j \in DepsOf(i) : /\ states[j] \notin {"BLOCKED", "FAILED"}
                                   /\ nodes[i].deps[j] = "REQUIRED" => states[j] # "UNAVAILABLE"
<1> DEFINE needed == {j \in DepsOf(i) : nodes[i].deps[j] = "REQUIRED"}
<1>1. {"UNAVAILABLE", "BLOCKED", "READY"} \subseteq DependencyStates
  BY DEF DependencyStates
<1>2. ASSUME NEW v \in {"UNAVAILABLE", "BLOCKED", "READY"}, new = [states EXCEPT ![i] = v]
      PROVE  new \in States /\ new[i] = v /\ \A j \in NodeIds : j # i => new[j] = states[j]
  BY <1>1, <1>2 DEF States
<1>3. CASE \E j \in needed : states[j] \in {"UNAVAILABLE"}
  <2>1. new = [states EXCEPT ![i] = "UNAVAILABLE"]
    BY <1>3 DEF JudgedOne
  <2> HIDE DEF needed
  <2> QED BY <1>2, <2>1
<1>4. CASE ~(\E j \in needed : states[j] \in {"UNAVAILABLE"})
  <2>1. CASE \E j \in DepsOf(i) : states[j] \in {"BLOCKED", "FAILED"}
    <3>1. new = [states EXCEPT ![i] = "BLOCKED"]
      BY <1>4, <2>1 DEF JudgedOne
    <3> HIDE DEF needed
    <3> QED BY <1>2, <3>1
  <2>2. CASE ~(\E j \in DepsOf(i) : states[j] \in {"BLOCKED", "FAILED"})
    <3>1. new = states \/ new = [states EXCEPT ![i] = "READY"]
      BY <1>4, <2>2 DEF JudgedOne
    <3>2. \A j \in DepsOf(i) : /\ states[j] \notin {"BLOCKED", "FAILED"}
                               /\ nodes[i].deps[j] = "REQUIRED" => states[j] # "UNAVAILABLE"
      BY <1>4, <2>2
    <3> HIDE DEF needed
    <3>3. new \in States /\ \A j \in NodeIds : j # i => new[j] = states[j]
      BY <1>2, <3>1
    <3> QED BY <3>2, <3>3
  <2> QED BY <2>1, <2>2
<1> QED BY <1>3, <1>4

LEMMA AsReportedIs == NodesTyped => AsReported \in States
BY NodesAre DEF AsReported, States

LEMMA JudgedIs ==
  ASSUME NodesTyped, NEW states, states = Judged
  PROVE  /\ states \in States
         /\ \A i \in NodeIds : states[i] = "READY" =>
              \A j \in DepsOf(i) : j < i /\ nodes[i].deps[j] = "REQUIRED" =>
                states[j] \notin {"BLOCKED", "FAILED", "UNAVAILABLE"}
<1>1. \E f : Judging(f)
  <2> DEFINE Step == [n \in 1..MaxNodes |-> [s \in States |-> IF n \notin NodeIds THEN AsReported ELSE JudgedOne(n, s)]]
  <2>1. Step \in [1..MaxNodes -> [States -> States]]
    BY AsReportedIs, JudgedOneIs
  <2>2. \A n \in 1..MaxNodes, s \in States : Step[n][s] = IF n \notin NodeIds THEN AsReported ELSE JudgedOne(n, s)
    OBVIOUS
  <2> HIDE DEF Step
  <2>3. PICK f \in [0..MaxNodes -> States] : Recurs(f, MaxNodes, AsReported, Step)
    BY <2>1, AsReportedIs, NodeNumbers, RecursionExists
  <2>4. ASSUME NEW n \in 0..MaxNodes
        PROVE  f[n] = IF n = 0 \/ n \notin NodeIds THEN AsReported ELSE JudgedOne(n, f[n - 1])
    <3>1. CASE n = 0
      BY <2>3, <3>1 DEF Recurs
    <3>2. CASE n # 0
      <4>1. n \in 1..MaxNodes /\ n - 1 \in 0..MaxNodes
        BY <3>2, NodeNumbers
      <4>2. f[n] = Step[n][f[n - 1]] /\ f[n - 1] \in States
        BY <2>3, <4>1 DEF Recurs
      <4> QED BY <2>2, <3>2, <4>1, <4>2
    <3> QED BY <3>1, <3>2
  <2>5. f = [n \in 0..MaxNodes |-> f[n]]
    OBVIOUS
  <2>6. f = [n \in 0..MaxNodes |-> IF n = 0 \/ n \notin NodeIds THEN AsReported ELSE JudgedOne(n, f[n - 1])]
    BY <2>4, <2>5
  <2> QED BY <2>6 DEF Judging
<1>2. PICK h : h = CHOOSE f : Judging(f)
  OBVIOUS
<1>3. Judging(h)
  BY <1>1, <1>2
<1>4. states = h[Len(nodes)]
  BY <1>2 DEF Judged, Judging, JudgedOne, AsReported
<1>5. PICK top : top = Len(nodes) /\ top \in 0..MaxNodes /\ NodeIds = 1..top
  BY NodesAre, NodeNumbers
<1>6. h[0] = AsReported /\ \A n \in 1..top : h[n] = JudgedOne(n, h[n - 1])
  <2>1. \A n \in 0..MaxNodes : h[n] = IF n = 0 \/ n \notin NodeIds THEN AsReported ELSE JudgedOne(n, h[n - 1])
    BY <1>3 DEF Judging
  <2>2. 0 \in 0..MaxNodes /\ \A n \in 1..top : n \in 0..MaxNodes /\ n # 0 /\ n \in NodeIds
    BY <1>5, NodeNumbers
  <2> QED BY <2>1, <2>2
<1> DEFINE Good == {n \in 0..top : h[n] \in States /\ \A j \in 1..n : h[n][j] = h[j][j]}
<1>7. 0 \in Good
  BY <1>5, <1>6, AsReportedIs
<1>8. ASSUME NEW n \in 1..top, n - 1 \in Good PROVE n \in Good
  <2>1. PICK old, new : old = h[n - 1] /\ new = h[n]
    OBVIOUS
  <2>2. old \in States /\ \A j \in 1..(n - 1) : old[j] = h[j][j]
    BY <1>8, <2>1
  <2>3. n \in NodeIds /\ new = JudgedOne(n, old)
    BY <1>5, <1>6, <2>1
  <2>4. new \in States /\ \A j \in NodeIds : j # n => new[j] = old[j]
    BY <2>2, <2>3, JudgedOneIs
  <2>5. ASSUME NEW j \in 1..n PROVE new[j] = h[j][j]
    <3>1. CASE j = n
      BY <2>1, <3>1
    <3>2. CASE j # n
      <4>1. j \in 1..(n - 1) /\ j \in NodeIds
        BY <1>5, <3>2
      <4> QED BY <2>2, <2>4, <3>2, <4>1
    <3> QED BY <3>1, <3>2
  <2>6. n \in 0..top
    BY <1>5
  <2> QED BY <2>1, <2>4, <2>5, <2>6
<1>9. \A n \in 0..top : h[n] \in States /\ \A j \in 1..n : h[n][j] = h[j][j]
  <2>1. top \in Nat
    BY <1>5
  <2> HIDE DEF Good
  <2>2. \A n \in 0..top : n \in Good
    BY <1>7, <1>8, <2>1, AllTheWay
  <2> QED BY <2>2 DEF Good
<1>10. top \in 0..top /\ states = h[top]
  BY <1>4, <1>5
<1>11. ASSUME NEW i \in NodeIds, states[i] = "READY",
              NEW j \in DepsOf(i), j < i, nodes[i].deps[j] = "REQUIRED"
       PROVE  states[j] \notin {"BLOCKED", "FAILED", "UNAVAILABLE"}
  <2>1. i \in 1..top /\ j \in 1..top /\ i - 1 \in 0..top /\ j \in 1..(i - 1)
    BY <1>5, <1>11, NodesAre
  <2>2. PICK old, new : old = h[i - 1] /\ new = h[i]
    OBVIOUS
  <2>3. old \in States /\ new = JudgedOne(i, old)
    BY <1>6, <1>9, <2>1, <2>2
  <2>4. states[i] = new[i] /\ states[j] = h[j][j] /\ old[j] = h[j][j]
    BY <1>9, <1>10, <2>1, <2>2
  <2>5. old[j] \notin {"BLOCKED", "FAILED"} /\ old[j] # "UNAVAILABLE"
    BY <1>11, <2>3, <2>4, JudgedOneIs
  <2> QED BY <2>4, <2>5
<1>12. states \in States
  BY <1>9, <1>10
<1> QED BY <1>11, <1>12
GraphInv ==
  /\ NodesTyped /\ Range(startupOrder) \subseteq NodeIds
  /\ resolved => Orders(startupOrder) /\ Lacks(startupOrder) /\ ReadyAboveReady

LEMMA GraphInvLimits == GraphInv => GraphSafe
<1> SUFFICES ASSUME GraphInv PROVE GraphSafe
  OBVIOUS
<1>1. DependencyTypeOK
  BY NodesAre DEF GraphInv, DependencyTypeOK, NodesTyped
<1>2. OrderIsSound /\ OrderLosesOnlyOverflow /\ (resolved => ReadyAboveReady)
  BY DEF GraphInv, OrderIsSound, OrderLosesOnlyOverflow, Orders, Lacks
<1>3. ReadyAboveReady
  BY <1>2 DEF ReadyAboveReady
<1> QED BY <1>1, <1>2, <1>3 DEF GraphSafe

LEMMA GraphStarts == DependencyInit => GraphInv
<1> SUFFICES ASSUME DependencyInit PROVE GraphInv
  OBVIOUS
<1>1. nodes = <<>> /\ startupOrder = <<>> /\ resolved = FALSE
  BY DEF DependencyInit
<1>2. NodesTyped
  BY <1>1, NodeNumbers DEF NodesTyped, NodeIds
<1>3. Range(startupOrder) = {}
  BY <1>1 DEF Range
<1> QED BY <1>1, <1>2, <1>3 DEF GraphInv

LEMMA NodeFields ==
  ASSUME NEW x \in Node, NEW s \in DependencyStates
  PROVE  LET y == [x EXCEPT !.state = s] IN y \in Node /\ y.deps = x.deps /\ y.state = s
BY DEF Node

(* Only states change.                                                     *)
LEMMA StatesChange ==
  ASSUME NodesTyped, NEW states \in States,
         nodes' = [i \in NodeIds |-> [nodes[i] EXCEPT !.state = states[i]]]
  PROVE  /\ NodesTyped' /\ NodeIds' = NodeIds
         /\ \A i \in NodeIds : /\ DepsOf(i)' = DepsOf(i) /\ nodes'[i].deps = nodes[i].deps
                               /\ nodes'[i].state = states[i]
<1>1. PICK top : top = Len(nodes) /\ top \in Nat /\ NodeIds = 1..top
  BY NodesAre
<1>2. ASSUME NEW i \in NodeIds PROVE nodes'[i] \in Node /\ nodes'[i].deps = nodes[i].deps /\ nodes'[i].state = states[i]
  <2>1. nodes[i] \in Node /\ states[i] \in DependencyStates
    BY NodesAre DEF States
  <2>2. nodes'[i] = [nodes[i] EXCEPT !.state = states[i]]
    OBVIOUS
  <2> QED BY <2>1, <2>2, NodeFields
<1>3. nodes' \in Seq(Node) /\ Len(nodes') = top /\ DOMAIN nodes' = NodeIds
  BY <1>1, <1>2
<1>4. NodeIds' = NodeIds
  BY <1>3 DEF NodeIds
<1>5. \A i \in NodeIds : DepsOf(i)' = DepsOf(i)
  BY <1>2 DEF DepsOf
<1>6. NodesTyped'
  BY <1>1, <1>3, <1>4, <1>5 DEF NodesTyped
<1> QED BY <1>2, <1>4, <1>5, <1>6

LEMMA ResolveHolds == ASSUME GraphInv, Resolve PROVE GraphInv'
<1>1. PICK states, order : states = Judged /\ order = SortNodes(ReverseAdjacency)
  OBVIOUS
<1>2. /\ NodesTyped /\ startupOrder' = order
      /\ nodes' = [i \in NodeIds |-> [nodes[i] EXCEPT !.state = states[i]]]
  BY <1>1 DEF GraphInv, Resolve
<1>3. /\ states \in States
      /\ \A i \in NodeIds : states[i] = "READY" =>
           \A j \in DepsOf(i) : j < i /\ nodes[i].deps[j] = "REQUIRED" =>
             states[j] \notin {"BLOCKED", "FAILED", "UNAVAILABLE"}
  BY <1>1, <1>2, JudgedIs
<1>4. /\ NodesTyped' /\ NodeIds' = NodeIds
      /\ \A i \in NodeIds : /\ DepsOf(i)' = DepsOf(i) /\ nodes'[i].deps = nodes[i].deps
                            /\ nodes'[i].state = states[i]
  BY <1>2, <1>3, StatesChange
<1>5. Orders(order) /\ Lacks(order)
  BY <1>1, <1>2, SortOrders
<1>6. ReadyAboveReady'
  <2> SUFFICES ASSUME NEW i \in NodeIds', nodes'[i].state = "READY",
                      NEW j \in DepsOf(i)', j < i, nodes'[i].deps[j] = "REQUIRED"
               PROVE  nodes'[j].state \notin {"BLOCKED", "FAILED", "UNAVAILABLE"}
    BY DEF ReadyAboveReady
  <2>1. i \in NodeIds /\ j \in DepsOf(i) /\ j \in NodeIds
    BY <1>2, <1>4, NodesAre
  <2> QED BY <1>3, <1>4, <2>1
<1>7. \A k \in DOMAIN order : order[k] \in NodeIds
  BY <1>5 DEF Orders
<1>8. Orders(startupOrder)'
  <2>1. \A k \in DOMAIN order : DepsOf(order[k]) \subseteq Range(SubSeq(order, 1, k - 1))
    BY <1>5 DEF Orders
  <2>2. \A k \in DOMAIN order : DepsOf(order[k])' = DepsOf(order[k])
    BY <1>4, <1>7
  <2>3. order \in Seq(NodeIds') /\ Cardinality(Range(order)) = Len(order)
    BY <1>4, <1>5 DEF Orders
  <2> QED BY <1>2, <2>1, <2>2, <2>3 DEF Orders
<1>9. Lacks(startupOrder)'
  <2> SUFFICES ASSUME NEW i \in NodeIds', i \notin Range(order)
               PROVE  \E j \in DepsOf(i)' : j \notin Range(order) \/ Cardinality(Dependents(j)') > MaxPerNode
    BY <1>2 DEF Lacks
  <2>1. i \in NodeIds /\ DepsOf(i)' = DepsOf(i)
    BY <1>4
  <2>2. PICK j \in DepsOf(i) : j \notin Range(order) \/ Cardinality(Dependents(j)) > MaxPerNode
    BY <1>5, <2>1 DEF Lacks
  <2>3. Dependents(j)' = Dependents(j)
    BY <1>4 DEF Dependents
  <2> QED BY <2>1, <2>2, <2>3
<1>10. Range(startupOrder)' \subseteq NodeIds'
  BY <1>2, <1>4, <1>7 DEF Range
<1> QED BY <1>4, <1>6, <1>8, <1>9, <1>10 DEF GraphInv
(* Nothing was resolved since: the graph has grown, or states were         *)
(* reported.                                                               *)
LEMMA GraphGrows ==
  ASSUME GraphInv, NodesTyped', NodeIds \subseteq NodeIds', ~resolved', startupOrder' = startupOrder
  PROVE  GraphInv'
BY DEF GraphInv

LEMMA NewNodeIs == NewNode \in Node /\ DOMAIN NewNode.deps = {} /\ Cardinality({}) = 0
<1>1. <<>> \in [{} -> {"REQUIRED", "OPTIONAL"}]
  OBVIOUS
<1>2. <<>> \in Needs
  BY <1>1 DEF Needs
<1>3. "DISCOVERED" \in DependencyStates
  BY DEF DependencyStates
<1> QED BY <1>2, <1>3, FS_EmptySet DEF NewNode, Node

LEMMA NodeAdded ==
  ASSUME NodesTyped, Len(nodes) < MaxNodes, NEW more, more = Append(nodes, NewNode)
  PROVE  /\ more \in Seq(Node) /\ Len(more) = Len(nodes) + 1 /\ Len(more) <= MaxNodes
         /\ \A i \in NodeIds : more[i] = nodes[i]
         /\ more[Len(nodes) + 1] = NewNode /\ DOMAIN more = 1..(Len(nodes) + 1)
         /\ \A i \in DOMAIN more : i \in NodeIds \/ i = Len(nodes) + 1
<1>1. nodes \in Seq(Node) /\ Len(nodes) \in Nat /\ NodeIds = 1..Len(nodes) /\ DOMAIN nodes = 1..Len(nodes)
  BY NodesAre DEF NodesTyped, NodeIds
<1>2. NewNode \in Node
  BY NewNodeIs
<1>3. more \in Seq(Node) /\ Len(more) = Len(nodes) + 1 /\ more[Len(nodes) + 1] = NewNode
      /\ \A i \in 1..Len(nodes) : more[i] = nodes[i]
  BY <1>1, <1>2, AppendProperties
<1>4. DOMAIN more = 1..(Len(nodes) + 1) /\ Len(more) <= MaxNodes
  BY <1>1, <1>3, NodeNumbers
<1>5. \A i \in 1..(Len(nodes) + 1) : i \in 1..Len(nodes) \/ i = Len(nodes) + 1
  BY <1>1
<1> QED BY <1>1, <1>3, <1>4, <1>5

LEMMA RegisterNodeHolds == ASSUME GraphInv, RegisterNode PROVE GraphInv'
<1>1. NodesTyped /\ Len(nodes) < MaxNodes /\ nodes' = Append(nodes, NewNode)
  BY DEF GraphInv, RegisterNode
<1>2. PICK more : more = nodes'
  OBVIOUS
<1>3. /\ more \in Seq(Node) /\ Len(more) <= MaxNodes
      /\ \A i \in NodeIds : more[i] = nodes[i]
      /\ more[Len(nodes) + 1] = NewNode /\ DOMAIN more = 1..(Len(nodes) + 1)
      /\ \A i \in DOMAIN more : i \in NodeIds \/ i = Len(nodes) + 1
  BY <1>1, <1>2, NodeAdded
<1>4. NodeIds' = DOMAIN more /\ NodeIds \subseteq DOMAIN more
  BY <1>1, <1>2, <1>3, NodesAre DEF NodeIds
<1>5. ASSUME NEW i \in DOMAIN more
      PROVE  DepsOf(i)' \subseteq DOMAIN more \ {i} /\ Cardinality(DepsOf(i)') <= MaxPerNode
  <2>1. CASE i \in NodeIds
    <3>1. DepsOf(i)' = DepsOf(i)
      BY <1>2, <1>3, <2>1 DEF DepsOf
    <3>2. DepsOf(i) \subseteq NodeIds \ {i} /\ Cardinality(DepsOf(i)) <= MaxPerNode
      BY <1>1, <2>1 DEF NodesTyped
    <3> QED BY <1>4, <3>1, <3>2
  <2>2. CASE i = Len(nodes) + 1
    <3>1. DepsOf(i)' = {}
      BY <1>2, <1>3, <2>2, NewNodeIs DEF DepsOf
    <3> QED BY <3>1, NewNodeIs, NodeNumbers
  <2> QED BY <1>3, <2>1, <2>2
<1>6. NodesTyped'
  BY <1>2, <1>3, <1>4, <1>5 DEF NodesTyped
<1> QED BY <1>4, <1>6, GraphGrows DEF RegisterNode

LEMMA AddDependencyHolds ==
  ASSUME GraphInv, NEW i \in 1..MaxNodes, NEW j \in 1..MaxNodes, NEW type \in {"REQUIRED", "OPTIONAL"},
         AddDependency(i, j, type)
  PROVE  GraphInv'
<1>1. NodesTyped
  BY DEF GraphInv
<1>2. PICK base : base = IF j \in NodeIds THEN nodes ELSE Append(nodes, NewNode)
  OBVIOUS
<1>3. /\ i \in NodeIds /\ i # j /\ j \notin DepsOf(i) /\ Cardinality(DepsOf(i)) < MaxPerNode
      /\ j \in NodeIds \/ (j = Len(nodes) + 1 /\ j <= MaxNodes)
      /\ nodes' = [base EXCEPT ![i].deps = [k \in {j} \cup DOMAIN @ |-> IF k = j THEN type ELSE @[k]]]
      /\ ~resolved' /\ startupOrder' = startupOrder
  BY <1>2 DEF AddDependency
<1>4. /\ base \in Seq(Node) /\ Len(base) <= MaxNodes /\ Len(base) \in Nat /\ DOMAIN base = 1..Len(base)
      /\ NodeIds \subseteq DOMAIN base /\ j \in DOMAIN base /\ \A k \in NodeIds : base[k] = nodes[k]
      /\ \A k \in DOMAIN base : k \in NodeIds \/ base[k] = NewNode
  <2>1. CASE j \in NodeIds
    <3>1. base = nodes /\ nodes \in Seq(Node) /\ Len(nodes) \in Nat /\ Len(nodes) <= MaxNodes /\ NodeIds = DOMAIN nodes
      BY <1>1, <1>2, <2>1, NodesAre DEF NodesTyped, NodeIds
    <3> QED BY <2>1, <3>1
  <2>2. CASE j \notin NodeIds
    <3>1. base = Append(nodes, NewNode) /\ j = Len(nodes) + 1 /\ Len(nodes) < MaxNodes
          /\ Len(nodes) \in Nat /\ NodeIds = 1..Len(nodes)
      <4>1. Len(nodes) \in Nat /\ NodeIds = 1..Len(nodes)
        BY <1>1, NodesAre
      <4> QED BY <1>2, <1>3, <2>2, <4>1, NodeNumbers
    <3>2. /\ base \in Seq(Node) /\ Len(base) = Len(nodes) + 1 /\ Len(base) <= MaxNodes
          /\ \A k \in NodeIds : base[k] = nodes[k]
          /\ base[Len(nodes) + 1] = NewNode /\ DOMAIN base = 1..(Len(nodes) + 1)
          /\ \A k \in DOMAIN base : k \in NodeIds \/ k = Len(nodes) + 1
      BY <1>1, <3>1, NodeAdded
    <3>3. j \in DOMAIN base /\ NodeIds \subseteq DOMAIN base /\ Len(base) \in Nat
      BY <3>1, <3>2
    <3> QED BY <3>1, <3>2, <3>3
  <2> QED BY <2>1, <2>2
<1>5. PICK x, deps : x = base[i] /\ deps = [k \in {j} \cup DOMAIN x.deps |-> IF k = j THEN type ELSE x.deps[k]]
  OBVIOUS
<1>6. x = nodes[i] /\ x \in Node /\ DOMAIN x.deps = DepsOf(i)
  BY <1>1, <1>3, <1>4, <1>5, NodesAre DEF DepsOf
<1>7. DOMAIN deps = DepsOf(i) \cup {j} /\ deps \in Needs
  <2>1. x.deps \in Needs
    BY <1>6 DEF Node
  <2>2. PICK D \in SUBSET (1..MaxNodes) : x.deps \in [D -> {"REQUIRED", "OPTIONAL"}]
    BY <2>1 DEF Needs
  <2>3. D = DepsOf(i)
    BY <1>6, <2>2
  <2>4. deps = [k \in {j} \cup D |-> IF k = j THEN type ELSE x.deps[k]]
    BY <1>5, <2>2
  <2>5. deps \in [{j} \cup D -> {"REQUIRED", "OPTIONAL"}]
    BY <2>2, <2>4
  <2>6. {j} \cup D \in SUBSET (1..MaxNodes)
    BY <2>2
  <2> QED BY <2>3, <2>5, <2>6 DEF Needs
<1>8. PICK y : y = [x EXCEPT !.deps = deps]
  OBVIOUS
<1>9. y \in Node /\ y.deps = deps
  BY <1>6, <1>7, <1>8 DEF Node
<1>10. nodes' = [base EXCEPT ![i] = y]
  BY <1>3, <1>5, <1>8
<1>11. /\ nodes' \in Seq(Node) /\ Len(nodes') = Len(base) /\ NodeIds' = DOMAIN base /\ nodes'[i] = y
       /\ \A k \in DOMAIN base : k # i => nodes'[k] = base[k]
  <2>1. i \in NodeIds /\ i \in DOMAIN base
    BY <1>3, <1>4
  <2> QED BY <1>4, <1>9, <1>10, <2>1 DEF NodeIds
<1>12. DepsOf(i)' = DepsOf(i) \cup {j}
  BY <1>7, <1>9, <1>11 DEF DepsOf
<1>13. ASSUME NEW k \in DOMAIN base
       PROVE  DepsOf(k)' \subseteq DOMAIN base \ {k} /\ Cardinality(DepsOf(k)') <= MaxPerNode
  <2>1. CASE k = i
    <3>1. IsFiniteSet(DepsOf(i)) /\ DepsOf(i) \subseteq NodeIds \ {i}
      BY <1>1, <1>3, NodesAre
    <3>2. Cardinality(DepsOf(i) \cup {j}) = Cardinality(DepsOf(i)) + 1 /\ Cardinality(DepsOf(i)) \in Nat
      BY <1>3, <3>1, FS_AddElement, FS_CardinalityType
    <3>3. Cardinality(DepsOf(i) \cup {j}) <= MaxPerNode
      BY <1>3, <3>2, NodeNumbers
    <3> QED BY <1>3, <1>4, <1>12, <2>1, <3>1, <3>3
  <2>2. CASE k # i /\ k \in NodeIds
    <3>1. DepsOf(k)' = DepsOf(k)
      BY <1>4, <1>11, <2>2 DEF DepsOf
    <3>2. DepsOf(k) \subseteq NodeIds \ {k} /\ Cardinality(DepsOf(k)) <= MaxPerNode
      BY <1>1, <2>2 DEF NodesTyped
    <3> QED BY <1>4, <3>1, <3>2
  <2>3. CASE k # i /\ k \notin NodeIds
    <3>1. DepsOf(k)' = {}
      BY <1>4, <1>11, <2>3, NewNodeIs DEF DepsOf
    <3> QED BY <3>1, NewNodeIs, NodeNumbers
  <2> QED BY <2>1, <2>2, <2>3
<1>14. NodesTyped'
  BY <1>4, <1>11, <1>13 DEF NodesTyped
<1> QED BY <1>3, <1>4, <1>11, <1>14, GraphGrows

LEMMA ReportsHold ==
  ASSUME GraphInv, NEW i \in 1..MaxNodes, PropagateFailure(i) \/ \E state \in ReportedStates : ReportState(i, state)
  PROVE  GraphInv'
<1>1. NodesTyped /\ nodes = [k \in NodeIds |-> nodes[k]]
  BY DEF GraphInv, NodesTyped, NodeIds
<1>2. AsReported \in States /\ \A k \in NodeIds : AsReported[k] = nodes[k].state
  BY <1>1, AsReportedIs DEF AsReported
<1>3. "BLOCKED" \in DependencyStates /\ ReportedStates \subseteq DependencyStates
  BY DependencyAssumption DEF DependencyStates
<1>4. \A k \in NodeIds : nodes[k] = [nodes[k] EXCEPT !.state = nodes[k].state]
  <2>1. \A k \in NodeIds : nodes[k] \in Node
    BY <1>1, NodesAre
  <2> QED BY <2>1 DEF Node
<1>5. ~resolved' /\ startupOrder' = startupOrder
  BY DEF PropagateFailure, ReportState
<1>6. \E states \in States : nodes' = [k \in NodeIds |-> [nodes[k] EXCEPT !.state = states[k]]]
  <2>1. ASSUME PropagateFailure(i) PROVE \E states \in States : nodes' = [k \in NodeIds |-> [nodes[k] EXCEPT !.state = states[k]]]
    <3>1. PICK hit \in SUBSET NodeIds :
            nodes' = [k \in NodeIds |-> IF k \in hit THEN [nodes[k] EXCEPT !.state = "BLOCKED"] ELSE nodes[k]]
      BY <2>1 DEF PropagateFailure
    <3>2. PICK states : states = [k \in NodeIds |-> IF k \in hit THEN "BLOCKED" ELSE nodes[k].state]
      OBVIOUS
    <3>3. states \in States
      BY <1>1, <1>3, <3>2, NodesAre DEF States
    <3>4. \A k \in NodeIds : (IF k \in hit THEN [nodes[k] EXCEPT !.state = "BLOCKED"] ELSE nodes[k])
                             = [nodes[k] EXCEPT !.state = states[k]]
      BY <1>4, <3>2
    <3>5. nodes' = [k \in NodeIds |-> [nodes[k] EXCEPT !.state = states[k]]]
      BY <3>1, <3>4
    <3> QED BY <3>3, <3>5
  <2>2. ASSUME NEW state \in ReportedStates, ReportState(i, state)
        PROVE  \E states \in States : nodes' = [k \in NodeIds |-> [nodes[k] EXCEPT !.state = states[k]]]
    <3>1. i \in NodeIds /\ nodes' = [nodes EXCEPT ![i].state = state]
      BY <2>2 DEF ReportState
    <3>2. PICK states : states = [k \in NodeIds |-> IF k = i THEN state ELSE nodes[k].state]
      OBVIOUS
    <3>3. states \in States
      BY <1>1, <1>3, <2>2, <3>2, NodesAre DEF States
    <3>4. \A k \in NodeIds : (IF k = i THEN [nodes[k] EXCEPT !.state = state] ELSE nodes[k])
                             = [nodes[k] EXCEPT !.state = states[k]]
      BY <1>4, <3>2
    <3>5. nodes' = [k \in NodeIds |-> IF k = i THEN [nodes[k] EXCEPT !.state = state] ELSE nodes[k]]
      BY <1>1, <3>1
    <3>6. nodes' = [k \in NodeIds |-> [nodes[k] EXCEPT !.state = states[k]]]
      BY <3>4, <3>5
    <3> QED BY <3>3, <3>6
  <2> QED BY <2>1, <2>2
<1>7. NodesTyped' /\ NodeIds' = NodeIds
  BY <1>1, <1>6, StatesChange
<1> QED BY <1>5, <1>7, GraphGrows

LEMMA GraphStep == GraphInv /\ [DependencyNext]_dependencyVars => GraphInv'
<1>1. ASSUME GraphInv, UNCHANGED dependencyVars PROVE GraphInv'
  <2>1. nodes' = nodes /\ startupOrder' = startupOrder /\ resolved' = resolved
    BY <1>1 DEF dependencyVars
  <2>2. NodeIds' = NodeIds /\ \A i : DepsOf(i)' = DepsOf(i)
    BY <2>1 DEF NodeIds, DepsOf
  <2>3. \A j : Dependents(j)' = Dependents(j)
    BY <2>2 DEF Dependents
  <2> QED BY <1>1, <2>1, <2>2, <2>3 DEF GraphInv, NodesTyped, Orders, Lacks, ReadyAboveReady
<1> QED BY <1>1, RegisterNodeHolds, ResolveHolds, AddDependencyHolds, ReportsHold DEF DependencyNext
-----------------------------------------------------------------------------
(* The startup                                                             *)

PhaseResult == [phase : Steps, status : {"PENDING", "SUCCESS"}]
Succeeded(phase) == [phase |-> phase, status |-> "SUCCESS"]
WentThrough(rs, n) == rs \in Seq(PhaseResult) /\ Len(rs) = n /\ \A i \in 1..n : rs[i] = Succeeded(i)

(* What makes BootSafe inductive: nothing is completed before a phase was  *)
(* run, and what runs is past the phases that could be run by hand.        *)
BootInv ==
  /\ BootSafe
  /\ results \in Seq(PhaseResult)
  /\ bootPhase = NotStarted => completed = NotStarted

LEMMA BootNumbers ==
  /\ LastStep \in Nat /\ LastStep > 0 /\ MaxPhaseResults \in Nat /\ LastStep <= MaxPhaseResults
  /\ Steps = 1..LastStep /\ NotStarted = 0 /\ Ready = LastStep + 1 /\ BootFailed = LastStep + 4
  /\ Stopped = LastStep + 6
BY StartupAssumption DEF Steps, NotStarted, Ready, BootFailed, Stopped

LEMMA NothingToRecover == PhaseOutcome = "SUCCESS"
BY DEF PhaseOutcome, Inconsistent, Unavailable, ToRecover

EndsAs(begun, k, after) == after = [begun EXCEPT ![k].status = "SUCCESS"]
PhaseEnds(begun, phase, after) ==
  \/ after = begun /\ \A k \in DOMAIN begun : begun[k].phase # phase
  \/ \E k \in DOMAIN begun : begun[k].phase = phase /\ EndsAs(begun, k, after)
Begun(rs, phase, begun) ==
  /\ Len(begun) <= MaxPhaseResults
  /\ \A k \in DOMAIN rs : k \in DOMAIN begun /\ begun[k] = rs[k]
  /\ Len(rs) < MaxPhaseResults => Len(begun) = Len(rs) + 1 /\ begun[Len(rs) + 1].phase = phase

(* A phase begins in the next slot, if there is one, and ends in the first *)
(* that has its number.                                                    *)
LEMMA PhaseIsWritten ==
  ASSUME NEW rs \in Seq(PhaseResult), Len(rs) <= MaxPhaseResults, NEW phase \in Steps
  PROVE  \E begun \in Seq(PhaseResult) : Begun(rs, phase, begun) /\ PhaseEnds(begun, phase, AfterPhase(rs, phase))
<1>1. PICK fresh : fresh = [phase |-> phase, status |-> "PENDING"]
  OBVIOUS
<1>2. fresh \in PhaseResult /\ fresh.phase = phase
  BY <1>1 DEF PhaseResult
<1>3. PICK begun : begun = IF Len(rs) < MaxPhaseResults THEN Append(rs, fresh) ELSE rs
  OBVIOUS
<1>4. Len(rs) \in Nat /\ MaxPhaseResults \in Nat
  BY BootNumbers
<1>5. /\ begun \in Seq(PhaseResult) /\ Len(begun) <= MaxPhaseResults /\ Len(begun) \in Nat
      /\ \A k \in DOMAIN rs : k \in DOMAIN begun /\ begun[k] = rs[k]
      /\ Len(rs) < MaxPhaseResults => Len(begun) = Len(rs) + 1 /\ begun[Len(rs) + 1] = fresh
  <2>1. CASE Len(rs) < MaxPhaseResults
    BY <1>2, <1>3, <1>4, <2>1
  <2>2. CASE ~(Len(rs) < MaxPhaseResults)
    BY <1>3, <1>4, <2>2
  <2> QED BY <2>1, <2>2
<1>6. PICK slots : slots = {k \in DOMAIN begun : begun[k].phase = phase}
  OBVIOUS
<1>7. AfterPhase(rs, phase) =
        IF slots = {} THEN begun
        ELSE [begun EXCEPT ![CHOOSE k \in slots : \A j \in slots : k <= j].status = "SUCCESS"]
  BY <1>1, <1>3, <1>6, NothingToRecover DEF AfterPhase
<1>8. CASE slots = {}
  <2>1. AfterPhase(rs, phase) = begun /\ \A k \in DOMAIN begun : begun[k].phase # phase
    BY <1>6, <1>7, <1>8
  <2> QED BY <1>2, <1>5, <2>1 DEF Begun, PhaseEnds
<1>9. CASE slots # {}
  <2>1. slots \in SUBSET Nat
    BY <1>5, <1>6
  <2>2. \E k \in slots : \A j \in slots : k <= j
    BY <1>9, <2>1, HasLeast
  <2>3. PICK k : k = CHOOSE e \in slots : \A j \in slots : e <= j
    OBVIOUS
  <2>4. k \in slots /\ \A j \in slots : k <= j
    BY <2>2, <2>3
  <2>5. EndsAs(begun, k, AfterPhase(rs, phase))
    BY <1>7, <1>9, <2>3 DEF EndsAs
  <2>6. k \in DOMAIN begun /\ begun[k].phase = phase /\ \A j \in DOMAIN begun : begun[j].phase = phase => k <= j
    BY <1>6, <2>4
  <2> QED BY <1>2, <1>5, <2>5, <2>6 DEF Begun, PhaseEnds
<1> QED BY <1>8, <1>9

LEMMA OneWritten ==
  ASSUME NEW begun \in Seq(PhaseResult), NEW k \in DOMAIN begun, NEW phase \in Steps, begun[k].phase = phase,
         NEW after, EndsAs(begun, k, after)
  PROVE  /\ after \in Seq(PhaseResult) /\ Len(after) = Len(begun) /\ after[k] = Succeeded(phase)
         /\ \A j \in DOMAIN begun : j # k => after[j] = begun[j]
<1>1. PICK r : r = begun[k]
  OBVIOUS
<1>2. PICK s : s = [r EXCEPT !.status = "SUCCESS"]
  OBVIOUS
<1>3. r \in PhaseResult /\ r.phase = phase
  BY <1>1
<1>4. s = Succeeded(phase) /\ s \in PhaseResult
  BY <1>2, <1>3 DEF PhaseResult, Succeeded
<1>5. after = [begun EXCEPT ![k] = s]
  BY <1>1, <1>2 DEF EndsAs
<1> QED BY <1>4, <1>5

LEMMA PhaseKeeps ==
  ASSUME NEW rs \in Seq(PhaseResult), Len(rs) <= MaxPhaseResults, NEW phase \in Steps
  PROVE  /\ AfterPhase(rs, phase) \in Seq(PhaseResult)
         /\ Len(AfterPhase(rs, phase)) <= MaxPhaseResults
         /\ \A other \in Steps : HasResult(rs, other) => HasResult(AfterPhase(rs, phase), other)
<1>1. PICK after : after = AfterPhase(rs, phase)
  OBVIOUS
<1>2. PICK begun \in Seq(PhaseResult) : Begun(rs, phase, begun) /\ PhaseEnds(begun, phase, after)
  BY <1>1, PhaseIsWritten
<1>3. \A other \in Steps : HasResult(rs, other) => \E k \in DOMAIN begun : begun[k] = Succeeded(other)
  BY <1>2 DEF Begun, HasResult, Succeeded
<1>4. CASE after = begun
  BY <1>1, <1>2, <1>3, <1>4 DEF Begun, HasResult, Succeeded
<1>5. ASSUME NEW k \in DOMAIN begun, begun[k].phase = phase, EndsAs(begun, k, after)
      PROVE  /\ after \in Seq(PhaseResult) /\ Len(after) <= MaxPhaseResults
             /\ \A other \in Steps : HasResult(rs, other) => HasResult(after, other)
  <2>1. /\ after \in Seq(PhaseResult) /\ Len(after) = Len(begun) /\ after[k] = Succeeded(phase)
        /\ \A j \in DOMAIN begun : j # k => after[j] = begun[j]
    BY <1>5, OneWritten
  <2>2. DOMAIN after = DOMAIN begun
    BY <2>1
  <2>3. ASSUME NEW other \in Steps, HasResult(rs, other) PROVE HasResult(after, other)
    <3>1. PICK j \in DOMAIN begun : begun[j] = Succeeded(other)
      BY <1>3, <2>3
    <3>2. Succeeded(other).phase = other
      BY DEF Succeeded
    <3>3. j = k => other = phase
      BY <1>5, <3>1, <3>2
    <3>4. after[j] = Succeeded(other)
      BY <2>1, <3>1, <3>3
    <3> QED BY <2>2, <3>1, <3>4 DEF HasResult, Succeeded
  <2> QED BY <1>2, <2>1, <2>3 DEF Begun
<1> QED BY <1>1, <1>2, <1>4, <1>5 DEF PhaseEnds

(* After the phases before it, a phase gets the slot of its number.        *)
LEMMA PhaseFollows ==
  ASSUME NEW n \in 1..LastStep, NEW rs, WentThrough(rs, n - 1)
  PROVE  WentThrough(AfterPhase(rs, n), n)
<1>1. /\ rs \in Seq(PhaseResult) /\ Len(rs) = n - 1 /\ \A i \in 1..(n - 1) : rs[i] = Succeeded(i)
      /\ n \in Steps /\ Len(rs) < MaxPhaseResults /\ Len(rs) <= MaxPhaseResults /\ n \in Nat
  BY BootNumbers DEF WentThrough
<1>2. PICK after : after = AfterPhase(rs, n)
  OBVIOUS
<1>3. PICK begun \in Seq(PhaseResult) :
        /\ \A k \in DOMAIN rs : k \in DOMAIN begun /\ begun[k] = rs[k]
        /\ Len(begun) = n /\ begun[n].phase = n
        /\ PhaseEnds(begun, n, after)
  <2>1. Len(rs) + 1 = n
    BY <1>1
  <2> QED BY <1>1, <1>2, <2>1, PhaseIsWritten DEF Begun
<1>4. DOMAIN begun = 1..n /\ n \in DOMAIN begun
  BY <1>1, <1>3
<1>5. \A k \in 1..(n - 1) : begun[k] = Succeeded(k) /\ begun[k].phase = k /\ k \in DOMAIN begun /\ k # n
  <2>1. \A k \in 1..(n - 1) : k \in DOMAIN rs /\ Succeeded(k).phase = k /\ k # n
    BY <1>1 DEF Succeeded
  <2> QED BY <1>1, <1>3, <2>1
<1>6. PICK k \in DOMAIN begun : begun[k].phase = n /\ EndsAs(begun, k, after)
  BY <1>3, <1>4 DEF PhaseEnds
<1>7. k = n
  <2>1. k = n \/ k \in 1..(n - 1)
    BY <1>1, <1>4
  <2> QED BY <1>5, <1>6, <2>1
<1>8. /\ after \in Seq(PhaseResult) /\ Len(after) = n /\ after[n] = Succeeded(n)
      /\ \A j \in DOMAIN begun : j # n => after[j] = begun[j]
  BY <1>1, <1>3, <1>6, <1>7, OneWritten
<1>9. \A i \in 1..n : i = n \/ i \in 1..(n - 1)
  BY <1>1
<1> QED BY <1>2, <1>5, <1>8, <1>9 DEF WentThrough

Phasing(f, n) == f = [k \in 0..n |-> IF k = 0 THEN <<>> ELSE AfterPhase(f[k - 1], k)]

LEMMA AllGoThrough == \A n \in 0..LastStep : WentThrough(AllPhases(n), n)
<1> SUFFICES ASSUME NEW n \in 0..LastStep PROVE WentThrough(AllPhases(n), n)
  OBVIOUS
<1>1. n \in Nat /\ n <= MaxPhaseResults /\ \A k \in 1..n : k \in Steps /\ k \in 1..LastStep
  BY BootNumbers
<1> DEFINE X == {rs \in Seq(PhaseResult) : Len(rs) <= MaxPhaseResults}
           Step == [k \in 1..n |-> [rs \in X |-> AfterPhase(rs, k)]]
<1>2. Step \in [1..n -> [X -> X]]
  <2>1. \A k \in 1..n, rs \in X : AfterPhase(rs, k) \in X
    BY <1>1, PhaseKeeps
  <2> QED BY <2>1
<1>3. \A k \in 1..n, rs \in X : Step[k][rs] = AfterPhase(rs, k)
  OBVIOUS
<1>4. <<>> \in X
  BY BootNumbers
<1> HIDE DEF X, Step
<1>5. PICK f \in [0..n -> X] : Recurs(f, n, <<>>, Step)
  BY <1>1, <1>2, <1>4, RecursionExists
<1>6. ASSUME NEW k \in 0..n PROVE f[k] = IF k = 0 THEN <<>> ELSE AfterPhase(f[k - 1], k)
  <2>1. CASE k = 0
    BY <1>5, <2>1 DEF Recurs
  <2>2. CASE k # 0
    <3>1. k \in 1..n /\ k - 1 \in 0..n
      BY <1>1, <2>2
    <3>2. f[k] = Step[k][f[k - 1]] /\ f[k - 1] \in X
      BY <1>5, <3>1 DEF Recurs
    <3> QED BY <1>3, <2>2, <3>1, <3>2
  <2> QED BY <2>1, <2>2
<1>7. Phasing(f, n)
  <2>1. f = [k \in 0..n |-> f[k]]
    OBVIOUS
  <2> QED BY <1>6, <2>1 DEF Phasing
<1>8. PICK h : h = CHOOSE g : Phasing(g, n)
  OBVIOUS
<1>9. Phasing(h, n)
  BY <1>7, <1>8
<1>10. AllPhases(n) = h[n]
  BY <1>8 DEF AllPhases, Phasing
<1>11. h[0] = <<>> /\ \A k \in 1..n : h[k] = AfterPhase(h[k - 1], k)
  <2>1. \A k \in 0..n : h[k] = IF k = 0 THEN <<>> ELSE AfterPhase(h[k - 1], k)
    BY <1>9 DEF Phasing
  <2>2. 0 \in 0..n /\ \A k \in 1..n : k \in 0..n /\ k # 0
    BY <1>1
  <2> QED BY <2>1, <2>2
<1> DEFINE Good == {k \in 0..n : WentThrough(h[k], k)}
<1>12. 0 \in Good
  <2>1. <<>> \in Seq(PhaseResult) /\ Len(<<>>) = 0 /\ 0 \in 0..n
    BY <1>1
  <2>2. WentThrough(h[0], 0)
    BY <1>11, <2>1 DEF WentThrough
  <2> QED BY <2>1, <2>2
<1>13. ASSUME NEW k \in 1..n, k - 1 \in Good PROVE k \in Good
  <2>1. WentThrough(AfterPhase(h[k - 1], k), k)
    BY <1>1, <1>13, PhaseFollows
  <2>2. k \in 0..n
    BY <1>1
  <2> QED BY <1>11, <2>1, <2>2
<1> HIDE DEF Good
<1>14. \A k \in 0..n : k \in Good
  BY <1>1, <1>12, <1>13, AllTheWay
<1>15. n \in Good
  BY <1>1, <1>14
<1> QED BY <1>10, <1>15 DEF Good

LEMMA BootStarts == BootInit => BootInv
BY BootNumbers DEF BootInit, BootInv, BootSafe, BootTypeOK, RunningWentThrough, CompletedHasResult,
                   StateTellsRunning, BootStates, Verdicts
LEMMA StartupHolds ==
  ASSUME BootInv, NEW ran \in 0..LastStep, NEW took \in 0..TotalTimeout + 1, Startup(ran, took)
  PROVE  BootInv'
<1>1. /\ results' = AllPhases(ran) /\ completed' = ran
      /\ \/ ran = LastStep /\ bootPhase' = Ready /\ bootState' = "RUNNING" /\ bootRunning'
         \/ bootPhase' = BootFailed /\ bootState' = "FAILED" /\ ~bootRunning'
      /\ verdict' \in Verdicts
  BY BootNumbers DEF Startup, Decided, Verdicts
<1>2. /\ results' \in Seq(PhaseResult) /\ Len(results') = ran /\ ran \in Nat /\ ran <= LastStep
      /\ \A phase \in 1..ran : results'[phase] = Succeeded(phase) /\ phase \in DOMAIN results'
  BY <1>1, AllGoThrough, BootNumbers DEF WentThrough
<1>3. \A phase \in 1..ran : HasResult(results, phase)'
  BY <1>2 DEF HasResult, Succeeded
<1>4. bootPhase' \in 0..Stopped /\ bootPhase' \notin Steps /\ bootPhase' # NotStarted
  BY <1>1, BootNumbers
<1>5. BootTypeOK'
  BY <1>1, <1>2, <1>4, BootNumbers DEF BootTypeOK, BootStates
<1>6. RunningWentThrough'
  BY <1>1, <1>3, BootNumbers DEF RunningWentThrough
<1>7. CompletedHasResult'
  BY <1>1, <1>2, <1>3, <1>4 DEF CompletedHasResult
<1>8. StateTellsRunning'
  BY <1>1 DEF StateTellsRunning
<1> QED BY <1>2, <1>4, <1>5, <1>6, <1>7, <1>8 DEF BootInv, BootSafe

LEMMA StartupPhaseHolds == ASSUME BootInv, NEW phase \in Steps, StartupPhase(phase) PROVE BootInv'
<1>1. /\ phase >= bootPhase /\ bootPhase' = phase /\ results' = AfterPhase(results, phase)
      /\ completed' = completed \/ (completed' = phase /\ HasResult(results', phase) /\ phase > completed)
      /\ verdict' = verdict /\ bootState' = bootState /\ bootRunning' = bootRunning
  BY DEF StartupPhase
<1>2. /\ bootPhase \in 0..Stopped /\ completed \in 0..LastStep /\ results \in Seq(PhaseResult)
      /\ Len(results) <= MaxPhaseResults /\ verdict \in Verdicts /\ bootState \in BootStates
      /\ bootPhase = NotStarted => completed = NotStarted
  BY DEF BootInv, BootSafe, BootTypeOK
<1>3. results' \in Seq(PhaseResult) /\ Len(results') <= MaxPhaseResults
  BY <1>1, <1>2, PhaseKeeps
<1>4. \A other \in Steps : HasResult(results, other) => HasResult(results', other)
  BY <1>1, <1>2, PhaseKeeps
<1>5. ~bootRunning
  <2>1. bootPhase # Ready
    BY <1>1, <1>2, BootNumbers
  <2> QED BY <2>1 DEF BootInv, BootSafe, RunningWentThrough
<1>6. completed <= phase /\ phase \in 1..LastStep
  <2>1. bootPhase \in Steps \/ bootPhase = NotStarted
    BY <1>1, <1>2, BootNumbers
  <2>2. bootPhase \in Steps => completed <= bootPhase
    BY DEF BootInv, BootSafe, CompletedHasResult
  <2> QED BY <1>1, <1>2, <2>1, <2>2, BootNumbers
<1>7. BootTypeOK'
  BY <1>1, <1>2, <1>3, <1>6, BootNumbers DEF BootTypeOK
<1>8. completed' > 0 => HasResult(results', completed')
  <2>1. CASE completed' = completed
    <3>1. completed > 0 => HasResult(results, completed) /\ completed \in Steps
      BY <1>2, BootNumbers DEF BootInv, BootSafe, CompletedHasResult
    <3> QED BY <1>4, <2>1, <3>1
  <2>2. CASE completed' # completed
    BY <1>1, <2>2
  <2> QED BY <2>1, <2>2
<1>9. completed' <= bootPhase'
  BY <1>1, <1>2, <1>6, BootNumbers
<1>10. CompletedHasResult'
  BY <1>8, <1>9 DEF CompletedHasResult, HasResult
<1>11. RunningWentThrough' /\ StateTellsRunning'
  BY <1>1, <1>5 DEF RunningWentThrough, StateTellsRunning, BootInv, BootSafe
<1>12. bootPhase' # NotStarted
  BY <1>1, <1>6, BootNumbers
<1> QED BY <1>3, <1>7, <1>10, <1>11, <1>12 DEF BootInv, BootSafe

LEMMA BootKept ==
  ASSUME BootInv, bootPhase' = bootPhase, completed' = completed, results' = results,
         verdict' \in Verdicts, bootState' = bootState, bootRunning' = bootRunning
  PROVE  BootInv'
BY DEF BootInv, BootSafe, BootTypeOK, RunningWentThrough, CompletedHasResult, StateTellsRunning, HasResult

LEMMA BootStep == BootInv /\ [BootNext]_bootVars => BootInv'
<1> SUFFICES ASSUME BootInv, [BootNext]_bootVars PROVE BootInv'
  OBVIOUS
<1>1. verdict \in Verdicts
  BY DEF BootInv, BootSafe, BootTypeOK
<1>2. CASE UNCHANGED bootVars
  BY <1>1, <1>2, BootKept DEF bootVars
<1>3. CASE DetermineDecision
  <2>1. verdict' \in Verdicts
    BY <1>3 DEF DetermineDecision, Decided, Verdicts
  <2> QED BY <1>3, <2>1, BootKept DEF DetermineDecision
<1>4. CASE AddWarning \/ AddBlocking \/ BootElapse
  BY <1>1, <1>4, BootKept DEF AddWarning, AddBlocking, BootElapse
<1>5. CASE ShutdownStartup
  <2>1. /\ ~bootRunning' /\ bootState' = "STOPPED" /\ bootPhase' = Stopped
        /\ completed' = completed /\ results' = results /\ verdict' = verdict
    BY <1>5 DEF ShutdownStartup
  <2>2. bootPhase' \in 0..Stopped /\ bootPhase' \notin Steps /\ bootPhase' # NotStarted
    BY <2>1, BootNumbers
  <2>3. completed' > 0 => HasResult(results, completed)'
    BY <2>1 DEF BootInv, BootSafe, CompletedHasResult, HasResult
  <2>4. BootTypeOK'
    BY <2>1, <2>2 DEF BootInv, BootSafe, BootTypeOK, BootStates
  <2> QED BY <2>1, <2>2, <2>3, <2>4 DEF BootInv, BootSafe, RunningWentThrough, CompletedHasResult, StateTellsRunning
<1> QED BY <1>2, <1>3, <1>4, <1>5, StartupHolds, StartupPhaseHolds DEF BootNext

(* The order in which the core starts its components gives every one its   *)
(* place once and starts it after what it needs, except for what the       *)
(* arrays of a node had no room for; none is called READY above one before *)
(* it that it needs and that cannot work (dependency.c, ozayn_dep_resolve);*)
(* and the Control Room runs only when every phase of its startup          *)
(* succeeded, in whatever order phases were run by hand before it          *)
(* (startup_recovery.c, ozayn_src_startup).                                *)
THEOREM OrderHolds == ContinuitySpec => []OrderSafe
<1>1. ContinuityInit => GraphInv /\ BootInv
  BY GraphStarts, BootStarts DEF ContinuityInit
<1>2. GraphInv /\ BootInv /\ [ContinuityNext]_continuityVars => GraphInv' /\ BootInv'
  BY EachKeepsItsOwn, GraphStep, BootStep
<1>3. GraphInv /\ BootInv => OrderSafe
  BY GraphInvLimits DEF BootInv, OrderSafe
<1> QED BY <1>1, <1>2, <1>3, PTL DEF ContinuitySpec, continuityVars
=============================================================================
