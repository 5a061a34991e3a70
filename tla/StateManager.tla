---------------------------- MODULE StateManager ----------------------------
(* The state manager (core/state_manager.c): named entries in memory,      *)
(* saved to one file by write, validate, back up and rename, with two      *)
(* backups, over crashes and decay of the file.  A file is the snapshot    *)
(* of the entries it holds, or does not exist, or fails its checksum.  The *)
(* temporary file is written afresh by every save and read by nothing      *)
(* else, so it is no part of the state.                                    *)
EXTENDS Integers, FiniteSets

CONSTANTS
  Keys,          \* keys of entries
  DefaultKeys,   \* those load_defaults creates
  Missing,       \* a file that does not exist
  Torn,          \* a file that fails validation
  BufferRoom,    \* entries the serialization buffer has room for
  MaxVersion,    \* bound: version of an entry
  MaxDirtyCount  \* bound: dirty_count

ASSUME StateAssumption ==
  /\ IsFiniteSet(Keys) /\ DefaultKeys \subseteq Keys
  /\ {BufferRoom, MaxDirtyCount} \subseteq Nat /\ MaxVersion \in Nat \ {0}
  /\ Missing # Torn /\ {Missing, Torn} \cap [Keys -> 0..MaxVersion] = {}

VARIABLES
  mem,         \* version of every entry in memory, 0 for none
  dirty,       \* entries changed since they were last saved or loaded
  dirtyCount,  \* dirty_count
  disk,        \* the file and its backups .bak0 and .bak1
  known,       \* backups marked active in memory: none, .bak0, or both
  running,     \* between init and shutdown or a crash
  failed,      \* history: the last step counted one of recoveries_failed
  decayed,     \* history: the file lost its content by itself
  waived       \* history: entries called clean although no save went through

stateVars == <<mem, dirty, dirtyCount, disk, known, running, failed, decayed, waived>>

Snapshots == [Keys -> 0..MaxVersion]
Files == Snapshots \cup {Missing, Torn}
Present(s) == {k \in Keys : s[k] > 0}
NoEntries == [k \in Keys |-> 0]

StateInit ==
  /\ mem = NoEntries /\ dirty = {} /\ dirtyCount = 0 /\ known = 0 /\ failed = FALSE /\ waived = {}
  /\ running = TRUE /\ decayed = FALSE
  /\ disk = [file |-> Missing, bak0 |-> Missing, bak1 |-> Missing]

(* Entries are serialized in the order of their slots until the buffer is  *)
(* full; what is left out is no error.                                     *)
Serialized(s) ==
  LET fits == {K \in SUBSET Present(s) :
                 \/ K = Present(s) /\ Cardinality(K) <= BufferRoom
                 \/ Cardinality(K) = BufferRoom}
  IN  {[k \in Keys |-> IF k \in K THEN s[k] ELSE 0] : K \in fits}

(* save_backup: .bak0 becomes .bak1 when it is known, then the file is     *)
(* copied over .bak0.                                                      *)
Shifted == IF known > 0 THEN [disk EXCEPT !.bak1 = disk.bak0, !.bak0 = Missing] ELSE disk
BackedUp == IF disk.file = Missing THEN disk ELSE [Shifted EXCEPT !.bak0 = disk.file]
KnownAfter == IF disk.file = Missing \/ known = 2 THEN known ELSE known + 1

(* What a save of entries s leaves behind: it fails before the backup, or  *)
(* at the rename, or goes through.                                         *)
Outcomes(s) ==
  {[ok |-> FALSE, disk |-> disk, known |-> known],
   [ok |-> FALSE, disk |-> BackedUp, known |-> KnownAfter]}
  \cup {[ok |-> TRUE, disk |-> [BackedUp EXCEPT !.file = t], known |-> KnownAfter] : t \in Serialized(s)}

(* What a crash inside a save may leave on the disk.                       *)
CutShort ==
  {disk, BackedUp} \cup (IF disk.file = Missing THEN {} ELSE {Shifted, [Shifted EXCEPT !.bak0 = Torn]})

(* mutant: entries are marked clean although the rename failed.            *)
SaveOf_CleanFirst(s, d, n, w) ==
  /\ mem' = s
  /\ \E o \in Outcomes(s) :
       /\ disk' = o.disk /\ known' = o.known
       /\ dirty' = {} /\ dirtyCount' = n - Cardinality(d)
       /\ waived' = (IF o.ok THEN {} ELSE w)
       /\ decayed' = (decayed /\ ~o.ok)

(* A save of entries s of which those in d are dirty, counted as n, and    *)
(* those in w were called clean without a save.                            *)
SaveOf(s, d, n, w) ==
  /\ mem' = s
  /\ \E o \in Outcomes(s) :
       /\ disk' = o.disk /\ known' = o.known
       /\ dirty' = (IF o.ok THEN {} ELSE d)
       /\ dirtyCount' = (IF o.ok THEN n - Cardinality(d) ELSE n)
       /\ waived' = (IF o.ok THEN {} ELSE w)
       /\ decayed' = (decayed /\ ~o.ok)

CreateEntry(k) ==
  /\ running /\ mem[k] = 0 /\ dirtyCount < MaxDirtyCount
  /\ mem' = [mem EXCEPT ![k] = 1]
  /\ dirty' = dirty \cup {k} /\ dirtyCount' = dirtyCount + 1
  /\ UNCHANGED <<disk, known, running, decayed, waived>> /\ failed' = FALSE

DeleteEntry(k) ==
  /\ running /\ mem[k] > 0
  /\ mem' = [mem EXCEPT ![k] = 0]
  /\ dirty' = dirty \ {k}
  /\ dirtyCount' = (IF k \in dirty THEN dirtyCount - 1 ELSE dirtyCount)
  /\ waived' = waived \ {k}
  /\ UNCHANGED <<disk, known, running, decayed>> /\ failed' = FALSE

(* An update counts its entry again although it may be dirty already.      *)
UpdateEntry(k) ==
  /\ running /\ mem[k] \in 1..(MaxVersion - 1) /\ dirtyCount < MaxDirtyCount
  /\ mem' = [mem EXCEPT ![k] = @ + 1]
  /\ dirty' = dirty \cup {k} /\ dirtyCount' = dirtyCount + 1
  /\ waived' = waived \ {k}
  /\ UNCHANGED <<disk, known, running, decayed>> /\ failed' = FALSE

MarkDirty(k) ==
  /\ running /\ mem[k] > 0 /\ k \notin dirty /\ dirtyCount < MaxDirtyCount
  /\ dirty' = dirty \cup {k} /\ dirtyCount' = dirtyCount + 1
  /\ waived' = waived \ {k}
  /\ UNCHANGED <<mem, disk, known, running, decayed>> /\ failed' = FALSE

(* The caller's word alone: nothing is written, and a shutdown that counts *)
(* no other entry dirty saves nothing.                                     *)
MarkClean(k) ==
  /\ running /\ k \in dirty
  /\ dirty' = dirty \ {k} /\ dirtyCount' = dirtyCount - 1
  /\ waived' = waived \cup {k}
  /\ UNCHANGED <<mem, disk, known, running, decayed>> /\ failed' = FALSE

Save == running /\ SaveOf(mem, dirty, dirtyCount, waived) /\ UNCHANGED running /\ failed' = FALSE

(* A backup without a save.                                                *)
SaveBackup ==
  /\ running /\ disk' = BackedUp /\ known' = KnownAfter
  /\ UNCHANGED <<mem, dirty, dirtyCount, running, decayed, waived>> /\ failed' = FALSE

Defaults == DefaultKeys \ Present(mem)
LoadDefaults ==
  SaveOf([k \in Keys |-> IF k \in Defaults THEN 1 ELSE mem[k]],
         dirty \cup Defaults, dirtyCount + Cardinality(Defaults), waived)

(* The first backup that is known, passes validation and can be read.      *)
Readable(f) == f \in Snapshots /\ Present(f) # {}
Usable ==
  (IF known > 0 THEN {disk.bak0} ELSE {}) \cup
  (IF known = 2 /\ ~Readable(disk.bak0) THEN {disk.bak1} ELSE {})

(* What is recovered counts as clean before it is saved, and stays so if   *)
(* the save does not go through.                                           *)
Recover ==
  /\ \E f \in Usable : Readable(f) /\ SaveOf(f, {}, 0, Present(f))
  /\ failed' = FALSE

NothingUsable == \A f \in Usable : ~Readable(f)
LoadTorn ==
  /\ disk.file = Torn
  /\ \/ Recover
     \/ NothingUsable /\ LoadDefaults /\ failed' = TRUE

(* The calls of ozayn_state_load_defaults and ozayn_state_recover by       *)
(* others, whatever the file is.                                           *)
CallDefaults ==
  /\ running /\ dirtyCount + Cardinality(Defaults) <= MaxDirtyCount
  /\ LoadDefaults /\ UNCHANGED running /\ failed' = FALSE
CallRecover ==
  /\ running /\ UNCHANGED running
  /\ \/ Recover
     \/ /\ NothingUsable /\ failed' = TRUE
        /\ UNCHANGED <<mem, dirty, dirtyCount, disk, known, decayed, waived>>

(* What the file holds goes over what memory holds, clean but with the     *)
(* count of dirty entries as it was; a file without entries cannot be read.*)
LoadWhole ==
  /\ Readable(disk.file)
  /\ mem' = [k \in Keys |-> IF disk.file[k] > 0 THEN disk.file[k] ELSE mem[k]]
  /\ dirty' = dirty \ Present(disk.file) /\ waived' = waived \ Present(disk.file)
  /\ UNCHANGED <<dirtyCount, disk, known, decayed>> /\ failed' = FALSE

Load ==
  /\ running /\ UNCHANGED running
  /\ \/ disk.file = Missing /\ LoadDefaults /\ failed' = FALSE
     \/ LoadTorn
     \/ LoadWhole

(* Memory as it is when the process is gone, and as init makes it, which   *)
(* clears what it knew of the backups too.                                 *)
Forgotten ==
  mem' = NoEntries /\ dirty' = {} /\ dirtyCount' = 0 /\ known' = 0 /\ failed' = FALSE /\ waived' = {}

(* Shutdown leaves memory to itself, but every call is refused until init  *)
(* has cleared it: it is forgotten here already.                           *)
Shutdown ==
  /\ running /\ running' = FALSE /\ Forgotten
  /\ \/ /\ dirtyCount > 0
        /\ \E o \in Outcomes(mem) : disk' = o.disk /\ decayed' = (decayed /\ ~o.ok)
     \/ dirtyCount = 0 /\ UNCHANGED <<disk, decayed>>

(* The process dies, idle or inside a save.                                *)
Crash ==
  /\ running /\ running' = FALSE
  /\ disk' \in CutShort /\ Forgotten
  /\ UNCHANGED decayed

Restart ==
  /\ ~running /\ running' = TRUE
  /\ Forgotten
  /\ UNCHANGED <<disk, decayed>>

(* The file loses its content on the disk.                                 *)
Decay ==
  /\ disk.file \in Snapshots
  /\ disk' = [disk EXCEPT !.file = Torn] /\ decayed' = TRUE
  /\ UNCHANGED <<mem, dirty, dirtyCount, known, running, waived>> /\ failed' = FALSE

StateNext ==
  \/ \E k \in Keys :
       CreateEntry(k) \/ DeleteEntry(k) \/ UpdateEntry(k) \/ MarkDirty(k) \/ MarkClean(k)
  \/ Save \/ SaveBackup \/ Load \/ CallDefaults \/ CallRecover
  \/ Shutdown \/ Crash \/ Restart \/ Decay

-----------------------------------------------------------------------------
StateTypeOK ==
  /\ mem \in Snapshots /\ dirty \subseteq Keys /\ waived \subseteq Keys
  /\ dirtyCount \in 0..(MaxDirtyCount + Cardinality(DefaultKeys))
  /\ disk \in [file : Files, bak0 : Files, bak1 : Files]
  /\ known \in 0..2
  /\ {running, failed, decayed} \subseteq BOOLEAN

(* Write-then-rename: whatever a save is doing when the process dies, the  *)
(* file is whole, the old one or the new one, unless the disk lost it.     *)
FileIsWhole == disk.file = Torn => decayed

(* An entry memory calls clean has its current version in the file, over   *)
(* failed saves, loads, recoveries, backups and restarts, with two         *)
(* exceptions: one the caller declared clean (ozayn_state_mark_clean), and *)
(* one brought back from a backup by a recovery whose save did not go      *)
(* through.  Both last only until the entry is changed or marked dirty, or *)
(* the entries are saved or loaded.                                        *)
CleanIsSaved ==
  running /\ disk.file # Torn =>
    \A k \in Present(mem) \ (dirty \cup waived) : disk.file # Missing /\ disk.file[k] = mem[k]

(* Shutdown looks at the count alone: it must not be zero while an entry   *)
(* is dirty, although update counts an entry twice and load not at all.    *)
DirtyIsCounted == running => Cardinality(dirty) <= dirtyCount

(* What was saved is there; and what was not, and nobody called clean, is  *)
(* still to be saved and makes the shutdown save it.                       *)
SavedForGood == StateTypeOK /\ FileIsWhole /\ CleanIsSaved /\ DirtyIsCounted

(* Recovery gives up only when no backup on the disk could be read ("no    *)
(* valid backup found", as ozayn_state_recover reports).                   *)
RecoveryFindsBackup ==
  [][failed' => ~Readable(disk.bak0) /\ ~Readable(disk.bak1)]_stateVars
=============================================================================
