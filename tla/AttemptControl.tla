--------------------------- MODULE AttemptControl ---------------------------
(***************************************************************************)
(* Control of repeated authentication attempts                             *)
(* (03_SECURITY/attempt_control.c): failures of an identity are counted in *)
(* a window, each one delays the next attempt, and too many of them block  *)
(* the identity for a while.                                               *)
(*                                                                         *)
(* The service is asked before an attempt and told its outcome afterwards. *)
(* Time stamps are modelled by their distance from now.                    *)
(***************************************************************************)
EXTENDS Integers, FiniteSets, Sequences

CONSTANTS
  Claimants,       \* the identities that attempt to authenticate
  MaxTracked,      \* OZAYN_AC_MAX_TRACKED_IDENTITIES
  MaxMisses,       \* policy.max_failures
  MissWindow,      \* policy.window_seconds, in units of time
  BlockTime,       \* policy.block_seconds, in units of time
  DelayAfter,      \* _compute_delay_ms: the delay after the n-th failure
  CleanupInterval, \* max(2 * window, 300 seconds), in units of time
  MaxTrying        \* bound: attempts of one identity under way at once

ASSUME AttemptAssumption ==
  /\ MaxTracked \in Nat /\ MaxMisses \in Nat \ {0} /\ MissWindow \in Nat \ {0}
  /\ BlockTime \in Nat \ {0} /\ CleanupInterval \in Nat /\ CleanupInterval >= 2 * MissWindow
  /\ MaxTrying \in Nat
  /\ DelayAfter \in [0..MaxMisses -> Nat] /\ DelayAfter[0] = 0
  /\ \A n \in 1..MaxMisses : DelayAfter[n - 1] <= DelayAfter[n]

VARIABLES
  attempts, \* svc->entries[0 .. entry_count-1]
  cleaned,  \* time since last_cleanup_us
  trying,   \* trying[i]: attempts of i that were allowed and have no outcome yet
  misses    \* history, per claimant: how many failures were counted a units ago,
            \* since the last success or reset

attemptVars == <<attempts, cleaned, trying, misses>>

LongAgo ==                                  \* no comparison tells later ages apart
  LET window == 2 * MissWindow + 1 IN
  IF window > DelayAfter[MaxMisses] THEN window ELSE DelayAfter[MaxMisses]
Past == 0..LongAgo
Attempt == [name : Claimants, used : BOOLEAN, state : {"READY", "THROTTLED", "BLOCKED"},
            count : 0..MaxMisses,               \* failure_count
            last : Past, start : Past \cup {-1}, \* since last_failure_us; since
                                                \* window_start_us, -1 when that is 0
            block : 0..BlockTime,               \* until block_until_us
            delay : 0..DelayAfter[MaxMisses]]   \* current_delay_ms
NoMisses == [a \in 0..(MissWindow - 1) |-> 0]

(* _find_entry                                                             *)
EntryOf(i) == {k \in DOMAIN attempts : attempts[k].used /\ attempts[k].name = i}

NewAttempt(i) == [name |-> i, used |-> TRUE, state |-> "READY", count |-> 0,
                  last |-> LongAgo, start |-> -1, block |-> 0, delay |-> 0]
(* What ozayn_ac_record_success and ozayn_ac_reset leave of an entry.      *)
Cleared(e) == NewAttempt(e.name)

AttemptInit ==
  /\ attempts = <<>> /\ cleaned = 0
  /\ trying = [i \in Claimants |-> 0] /\ misses = [i \in Claimants |-> NoMisses]

(* _lazy_cleanup: an entry with nothing to remember is wiped; its slot is  *)
(* not given out again.                                                    *)
Wiped_ByAge(e) ==                       \* mutant: the wipe looks at the age only
  IF e.used /\ e.start > 2 * MissWindow THEN [e EXCEPT !.used = FALSE] ELSE e
Wiped(e) == IF /\ e.used /\ e.state = "READY" /\ e.count = 0
               /\ e.start > 2 * MissWindow
            THEN [e EXCEPT !.used = FALSE] ELSE e
CleanedUp(table) == IF cleaned < CleanupInterval THEN table
                ELSE [k \in DOMAIN table |-> Wiped(table[k])]

(* The entry once a block, then a delay, that has run out is lifted.       *)
Unblocked(e) == IF e.state = "BLOCKED" /\ e.block = 0
                THEN [e EXCEPT !.state = "READY", !.count = 0, !.delay = 0] ELSE e
Undelayed(e) == IF e.state = "THROTTLED" /\ e.last >= e.delay
                THEN [e EXCEPT !.state = "READY", !.delay = 0] ELSE e
Relieved(e) == Undelayed(Unblocked(e))

InWindow(e) == e.count > 0 /\ e.start < MissWindow

(* ozayn_ac_check_allowed, for an entry: what it becomes, and whether the  *)
(* attempt may proceed.                                                    *)
Checked(e) ==
  LET r == Relieved(e) IN
  CASE r.state # "READY" -> r
    [] r.state = "READY" /\ InWindow(r) /\ r.count >= MaxMisses ->
         [r EXCEPT !.state = "BLOCKED", !.block = BlockTime]
    [] r.state = "READY" /\ InWindow(r) /\ r.count < MaxMisses
         /\ r.last < DelayAfter[r.count] -> [r EXCEPT !.state = "THROTTLED"]
    [] OTHER -> r
Allowed(e) == Checked(e).state = "READY"

(* ozayn_ac_check_allowed: the cleanup comes first, and an identity that   *)
(* is not in the table may proceed.                                        *)
Of(e, i) == e.used /\ e.name = i
CheckedTable(i) ==
  [k \in DOMAIN attempts |-> LET e == CleanedUp(attempts)[k]
                             IN IF Of(e, i) THEN Checked(e) ELSE e]
AllowedNow(i) == \A k \in DOMAIN attempts :
                   Of(CleanedUp(attempts)[k], i) => Allowed(CleanedUp(attempts)[k])
CleanupDone == cleaned' = IF cleaned < CleanupInterval THEN cleaned ELSE 0

CheckAllowed(i) ==
  /\ trying[i] < MaxTrying
  /\ attempts' = CheckedTable(i) /\ CleanupDone
  /\ trying' = [trying EXCEPT ![i] = IF AllowedNow(i) THEN @ + 1 ELSE @]
  /\ UNCHANGED misses

(* ozayn_ac_record_failure, for an entry.  A window that has passed starts *)
(* anew, whatever state the entry was in.                                  *)
Missed(e) ==
  LET f == IF e.count > 0 /\ e.start >= MissWindow
           THEN [e EXCEPT !.count = 0, !.delay = 0, !.state = "READY"] ELSE e
      g == [f EXCEPT !.count = IF @ < MaxMisses THEN @ + 1 ELSE @, !.last = 0,
                     !.start = IF f.count = 0 THEN 0 ELSE @]
  IN IF g.count >= MaxMisses THEN [g EXCEPT !.state = "BLOCKED", !.block = BlockTime, !.delay = 0]
                             ELSE [g EXCEPT !.state = "THROTTLED", !.delay = DelayAfter[g.count]]

(* _find_or_create_entry finds a slot for the identity.                    *)
HasSlot(i) == EntryOf(i) # {} \/ Len(attempts) < MaxTracked

(* ozayn_ac_record_failure; without a slot the failure is not counted.     *)
RecordFailure(i) ==
  /\ trying[i] > 0
  /\ trying' = [trying EXCEPT ![i] = @ - 1]
  /\ UNCHANGED cleaned
  /\ \/ \E k \in EntryOf(i) : attempts' = [attempts EXCEPT ![k] = Missed(@)]
     \/ EntryOf(i) = {} /\ HasSlot(i) /\ attempts' = Append(attempts, Missed(NewAttempt(i)))
     \/ ~HasSlot(i) /\ UNCHANGED attempts
  /\ misses' = IF HasSlot(i) THEN [misses EXCEPT ![i][0] = @ + 1] ELSE misses

(* ozayn_ac_record_success and ozayn_ac_reset.                             *)
Forgiven(table, i) ==
  [k \in DOMAIN table |-> IF Of(table[k], i) THEN Cleared(table[k]) ELSE table[k]]
Forgive(i) ==
  /\ attempts' = Forgiven(attempts, i)
  /\ misses' = [misses EXCEPT ![i] = NoMisses]

RecordSuccess(i) ==
  /\ trying[i] > 0
  /\ trying' = [trying EXCEPT ![i] = @ - 1]
  /\ Forgive(i) /\ UNCHANGED cleaned

ResetAttempts(i) == Forgive(i) /\ UNCHANGED <<cleaned, trying>>

(* One unit of time.                                                       *)
Later(a) == IF a = LongAgo THEN a ELSE a + 1
AttemptElapse ==
  /\ attempts' = [k \in DOMAIN attempts |->
       [attempts[k] EXCEPT !.last = Later(@), !.start = IF @ = -1 THEN -1 ELSE Later(@),
                           !.block = IF @ = 0 THEN 0 ELSE @ - 1]]
  /\ cleaned' = IF cleaned < CleanupInterval THEN cleaned + 1 ELSE cleaned
  /\ misses' = [i \in Claimants |-> [a \in DOMAIN NoMisses |->
                                       IF a = 0 THEN 0 ELSE misses[i][a - 1]]]
  /\ UNCHANGED trying

AttemptNext ==
  \/ \E i \in Claimants :
       CheckAllowed(i) \/ RecordFailure(i) \/ RecordSuccess(i) \/ ResetAttempts(i)
  \/ AttemptElapse

AttemptTypeOK ==
  /\ attempts \in Seq(Attempt) /\ Len(attempts) <= MaxTracked
  /\ cleaned \in 0..CleanupInterval
  /\ trying \in [Claimants -> 0..MaxTrying]
  /\ \A i \in Claimants : Cardinality(EntryOf(i)) <= 1

-----------------------------------------------------------------------------
(* Guessing is bounded: of an identity that has a slot, and makes one     *)
(* attempt at a time, at most twice max_failures - 1 failures are counted  *)
(* within any stretch as long as the window, wherever the windows begin    *)
(* and end (attempt_control.c:385).  That is, under a policy that blocks   *)
(* for as long as the window, as both that come with the code do: after a  *)
(* shorter block the count begins anew within the stretch, and             *)
(* ozayn_ac_validate_policy lets such a policy pass.                       *)
Counted(by) ==
  LET upTo[a \in 0..MissWindow] == IF a = 0 THEN 0 ELSE upTo[a - 1] + by[a - 1]
  IN upTo[MissWindow]
RateLimit == IF MaxMisses = 1 THEN 1 ELSE 2 * (MaxMisses - 1)
OneAtATime == MaxTrying <= 1
FailureRate ==
  OneAtATime /\ BlockTime >= MissWindow => \A i \in Claimants : Counted(misses[i]) <= RateLimit

AttemptsSafe == AttemptTypeOK /\ FailureRate    \* over slots used again and wiped

(* A block is served to its end: until then nothing but a success or a     *)
(* reset ends it, the cleanup does not wipe it, and no attempt is allowed. *)
(* (With several attempts under way a late failure lifts it, because the   *)
(* window that led to it has passed: attempt_control.c:391.)               *)
BlockServed ==
  [][\A k \in DOMAIN attempts :
       OneAtATime /\ attempts[k].state = "BLOCKED" /\ attempts[k].block > 0 =>
         \/ attempts'[k].used /\ attempts'[k].state = "BLOCKED"
            /\ trying'[attempts[k].name] <= trying[attempts[k].name]
         \/ attempts'[k] = Cleared(attempts[k])]_attemptVars
=============================================================================
