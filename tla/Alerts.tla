------------------------------- MODULE Alerts -------------------------------
(***************************************************************************)
(* The alerts of the security services (03_SECURITY/sec_alert.c): creation *)
(* with its limits and its deduplication, the life of an alert, and the    *)
(* queue of notifications about alerts.                                    *)
(*                                                                         *)
(* An alert is reported under a key (its type, component and correlation); *)
(* two reports of a key are the same occurrence.  There is one threshold,  *)
(* for all keys, and one channel, where a provider is added when there is  *)
(* none that is available; its answers are an input.  Severity is a number *)
(* on the scale from INFO to CRITICAL.  Alerts are numbered by             *)
(* alert_sequence, and hashes of their names do not collide.  The          *)
(* expiration time of an alert is set by nobody, so that cleanup_expired   *)
(* finds nothing; RESOLVING, EXPIRED and FAILED are not entered, and       *)
(* nothing leaves SUPPRESSED.  What evaluates health, diagnostics and      *)
(* incidents only creates alerts.  The policy is the default one, but for  *)
(* its numbers; priorities, texts, audit and statistics are left out.      *)
(***************************************************************************)
EXTENDS Integers, FiniteSets, Sequences, SequencesExt

CONSTANTS
  AlertKeys,       \* deduplication keys
  Reported,        \* (bound) severities that are reported, of 0..Critical
  AlertRoom,       \* OZAYN_SALERT_MAX_ALERTS
  MaxActive,       \* policy.max_active_alerts
  DedupRoom,       \* OZAYN_SALERT_MAX_DEDUP_STATE
  DedupWindow,     \* policy.dedup_window_seconds
  RaiseAfter,      \* policy.escalation_threshold
  MaxEscalation,   \* policy.max_escalation_level
  BurstLimit,      \* threshold_count of the threshold
  BurstWindow,     \* its window_seconds
  NotifyRoom,      \* OZAYN_SALERT_MAX_NOTIFY_QUEUE
  NotifyRate,      \* policy.max_notify_per_window
  NotifyWindow,    \* policy.notify_window_seconds
  MaxNotifyRetries,  \* policy.max_notify_retries
  ProviderFails,   \* failures after which a provider is not available, 5 in the code
  RetainResolved,  \* max_age_seconds of cleanup_resolved
  MaxAlerts,       \* (bound) alerts ever created
  MaxDuplicates,   \* (bound) reports that are counted in an alert
  MaxNotices,      \* (bound) notifications ever queued
  MaxProviders     \* providers of the channel, 8 in the code

ASSUME AlertAssumption ==
  /\ {AlertRoom, MaxActive, DedupRoom, BurstLimit, BurstWindow, NotifyRoom, ProviderFails,
      RetainResolved, MaxDuplicates} \subseteq Nat \ {0}
  /\ {DedupWindow, RaiseAfter, MaxEscalation, NotifyRate, NotifyWindow, MaxNotifyRetries,
      MaxAlerts, MaxNotices, MaxProviders} \subseteq Nat
  /\ Reported \subseteq 0..4

VARIABLES
  alerts,        \* the ring of alerts, oldest first
  activeCount,   \* active_count
  dedup,         \* dedup_state: [key, alert, age], age since last_time, up to DedupWindow
  burst,         \* events in the window of the threshold, and its age; -1 without one
  notices,       \* notify_queue: [n, alert, retries, age], n is the how manieth it is
  providers,     \* provider_count
  fails,         \* fail_count of the newest provider; the others are not available
  sequence,      \* alert_sequence
  lostActive,    \* (history) alerts dropped from the ring while they were ACTIVE
  asked,         \* (history) notifications that were queued
  lastSent       \* (history) the how manieth was sent last

alertVars == <<alerts, activeCount, dedup, burst, notices, providers, fails, sequence,
               lostActive, asked, lastSent>>

Severest == 4                \* OZAYN_SALERT_SEV_CRITICAL
RaisedTo == 3                \* OZAYN_SALERT_SEV_HIGH
AlertStates == {"ACTIVE", "ACKNOWLEDGED", "RESOLVED", "SUPPRESSED", "CANCELLED"}
Nameless == -1               \* the identifier of a resolved alert that was cleaned up
NotResolved == -1

PlacesOf(a) == {k \in DOMAIN alerts : alerts[k].id = a}
ActiveAlerts == {k \in DOMAIN alerts : alerts[k].state = "ACTIVE"}

AlertInit ==
  /\ alerts = <<>> /\ activeCount = 0 /\ dedup = <<>> /\ burst = [n |-> -1, age |-> 0]
  /\ notices = <<>> /\ providers = 0 /\ fails = ProviderFails /\ sequence = 0
  /\ lostActive = 0 /\ asked = 0 /\ lastSent = 0

(* ozayn_salert_check_threshold: a window that is over is begun anew.      *)
BurstNow == IF burst.n >= 0 /\ burst.age >= BurstWindow THEN [n |-> 0, age |-> 0] ELSE burst

(* The limit of active alerts and ozayn_salert_check_rate_limit, which     *)
(* come before the deduplication.                                          *)
WithinLimits == activeCount < MaxActive /\ BurstNow.n < BurstLimit

(* ozayn_salert_record_threshold_event.                                    *)
BurstCounted == IF BurstNow.n >= 0 /\ BurstNow.n < BurstLimit THEN [BurstNow EXCEPT !.n = @ + 1] ELSE BurstNow

(* ozayn_salert_check_dedup: only the first entry of a key is looked at.   *)
EntriesOf(key) == {k \in DOMAIN dedup : dedup[k].key = key}
FirstEntry(key) == CHOOSE k \in EntriesOf(key) : \A j \in EntriesOf(key) : k <= j
IsDuplicate(key) == EntriesOf(key) # {} /\ dedup[FirstEntry(key)].age < DedupWindow
Refreshed(key) ==
  IF IsDuplicate(key) THEN [dedup EXCEPT ![FirstEntry(key)].age = 0] ELSE dedup

(* What a duplicate is a duplicate of, if that is still in the ring.       *)
Original(key) == IF IsDuplicate(key) THEN PlacesOf(dedup[FirstEntry(key)].alert) ELSE {}

(* ozayn_salert_register_dedup: in a full table an entry that was quiet    *)
(* for longest makes room, the first of them; of those whose window is     *)
(* over the age is not known, and it may be any.                           *)
Registered(entries, key, new) ==
  LET quietest == {k \in DOMAIN entries : \A j \in DOMAIN entries :
                     \/ entries[j].age < entries[k].age
                     \/ entries[j].age = entries[k].age /\ (k <= j \/ entries[k].age = DedupWindow)}
      kept == IF Len(entries) < DedupRoom THEN {entries} ELSE {RemoveAt(entries, k) : k \in quietest}
  IN {Append(rest, [key |-> key, alert |-> new, age |-> 0]) : rest \in kept}

(* ozayn_salert_create of something that is new, or whose original is      *)
(* gone.  The ring drops its oldest alert (_alloc_alert), whatever state   *)
(* that is in.                                                             *)
CreateAlert(key, severity) ==
  LET full == Len(alerts) = AlertRoom
  IN /\ WithinLimits /\ Original(key) = {} /\ sequence < MaxAlerts
     /\ alerts' = Append(IF full THEN Tail(alerts) ELSE alerts,
                         [id |-> sequence, severity |-> severity, state |-> "ACTIVE", level |-> 0,
                          count |-> 1, quiet |-> NotResolved, notified |-> "NONE", reason |-> 0])
     /\ lostActive' = IF full /\ alerts[1].state = "ACTIVE" THEN lostActive + 1 ELSE lostActive
     /\ activeCount' = activeCount + 1 /\ sequence' = sequence + 1
     /\ dedup' \in Registered(Refreshed(key), key, sequence)
     /\ burst' = BurstCounted
     /\ UNCHANGED <<notices, providers, fails, asked, lastSent>>

(* The same with a report that is a duplicate: it counts in its original,  *)
(* and many of them raise its severity.                                    *)
CountDuplicate(key) ==
  /\ WithinLimits
  /\ \E k \in Original(key) :
       LET count == IF alerts[k].count < MaxDuplicates THEN alerts[k].count + 1 ELSE MaxDuplicates
           raised == count >= RaiseAfter /\ alerts[k].severity < RaisedTo
       IN alerts' = [alerts EXCEPT ![k].count = count,
                                   ![k].severity = IF raised THEN RaisedTo ELSE @]
  /\ dedup' = Refreshed(key) /\ burst' = BurstNow
  /\ UNCHANGED <<activeCount, notices, providers, fails, sequence, lostActive, asked, lastSent>>

(* ozayn_salert_add_threshold, and ozayn_salert_record_rate_event of       *)
(* whoever calls it.                                                       *)
OnlyBurst(new) ==
  /\ burst' = new
  /\ UNCHANGED <<alerts, activeCount, dedup, notices, providers, fails, sequence, lostActive, asked,
                 lastSent>>
AddThreshold == burst.n = -1 /\ OnlyBurst([n |-> 0, age |-> 0])
RecordRateEvent == burst.n >= 0 /\ OnlyBurst(BurstCounted)

(* ozayn_salert_state_transition_valid and _transition.                    *)
AlertMayBecome(from, to) ==
  \/ from = "ACTIVE" /\ to \in AlertStates \ {"ACTIVE"}
  \/ from = "ACKNOWLEDGED" /\ to \in {"RESOLVED", "CANCELLED"}
CountAfter_Closed(from, to) ==           \* mutant: an acknowledged alert still counts as active
  IF from = "ACTIVE" /\ to # "ACKNOWLEDGED" THEN activeCount - 1 ELSE activeCount
CountAfter(from, to) == IF from = "ACTIVE" THEN activeCount - 1 ELSE activeCount
AlertMoved(k, to, alert) ==
  /\ AlertMayBecome(alerts[k].state, to)
  /\ alerts' = [alerts EXCEPT ![k] = [alert EXCEPT !.state = to]]
  /\ activeCount' = CountAfter(alerts[k].state, to)
  /\ UNCHANGED <<dedup, burst, notices, providers, fails, sequence, lostActive, asked, lastSent>>

AcknowledgeAlert(k) == AlertMoved(k, "ACKNOWLEDGED", alerts[k])
ResolveAlert(k) == AlertMoved(k, "RESOLVED", [alerts[k] EXCEPT !.quiet = 0])
CancelAlert(k) == AlertMoved(k, "CANCELLED", alerts[k])
SuppressAlert(k, reason) ==
  /\ alerts[k].severity = Severest => reason > 0
  /\ AlertMoved(k, "SUPPRESSED", [alerts[k] EXCEPT !.reason = reason])

(* ozayn_salert_escalate.                                                  *)
EscalateAlert(k) ==
  /\ alerts[k].level < MaxEscalation /\ alerts[k].state \in {"ACTIVE", "ACKNOWLEDGED"}
  /\ alerts' = [alerts EXCEPT ![k].level = @ + 1,
                              ![k].severity = IF @ < Severest THEN @ + 1 ELSE @]
  /\ UNCHANGED <<activeCount, dedup, burst, notices, providers, fails, sequence, lostActive, asked,
                 lastSent>>

(* ozayn_salert_cleanup_resolved takes their names from alerts that were   *)
(* resolved long ago, and leaves them in the ring.                         *)
CleanupResolved ==
  /\ alerts' = [k \in DOMAIN alerts |->
                  IF alerts[k].quiet > RetainResolved
                  THEN [alerts[k] EXCEPT !.state = "CANCELLED", !.id = Nameless] ELSE alerts[k]]
  /\ UNCHANGED <<activeCount, dedup, burst, notices, providers, fails, sequence, lostActive, asked,
                 lastSent>>

(* ozayn_salert_register_provider, once there is none.                     *)
RegisterProvider ==
  /\ fails = ProviderFails /\ providers < MaxProviders
  /\ providers' = providers + 1 /\ fails' = 0
  /\ UNCHANGED <<alerts, activeCount, dedup, burst, notices, sequence, lostActive, asked, lastSent>>

(* ozayn_salert_queue_notification: the rate is that of what still waits.  *)
QueueNotification(a) ==
  /\ Len(notices) < NotifyRoom /\ asked < MaxNotices
  /\ Cardinality({k \in DOMAIN notices : notices[k].age < NotifyWindow}) < NotifyRate
  /\ asked' = asked + 1
  /\ notices' = Append(notices, [n |-> asked + 1, alert |-> a, retries |-> 0, age |-> 0])
  /\ alerts' = [k \in DOMAIN alerts |->
                  IF k \in PlacesOf(a) THEN [alerts[k] EXCEPT !.notified = "PENDING"] ELSE alerts[k]]
  /\ UNCHANGED <<activeCount, dedup, burst, providers, fails, sequence, lostActive, lastSent>>

(* One round of the loop of ozayn_salert_process_notifications, for the    *)
(* first that is queued then, which the provider accepts or not.           *)
AfterNotice(s, accepts) ==
  LET notice == s.queue[1]
      targets == PlacesOf(notice.alert)
      tried == s.fails < ProviderFails /\ targets # {}
      sent == tried /\ accepts
      again == ~sent /\ notice.retries < MaxNotifyRetries
      Marked(how) == [j \in DOMAIN s.marks |-> IF j \in targets THEN how ELSE s.marks[j]]
  IN IF s.stopped THEN s
     ELSE [fails |-> IF tried /\ ~accepts THEN s.fails + 1 ELSE s.fails,
           marks |-> IF again THEN s.marks ELSE Marked(IF sent THEN "SENT" ELSE "FAILED"),
           queue |-> IF again THEN [s.queue EXCEPT ![1].retries = @ + 1] ELSE Tail(s.queue),
           last |-> IF sent THEN notice.n ELSE s.last, stopped |-> again]

(* The whole of it: what cannot be sent stays at the head, to be tried by  *)
(* the next call, until it has failed too often.                           *)
BeforeNotices == [fails |-> fails, marks |-> [j \in DOMAIN alerts |-> alerts[j].notified],
                  queue |-> notices, last |-> lastSent, stopped |-> FALSE]
NoticeRounds(accepts) ==
  LET after[k \in 0..Len(notices)] ==
        IF k = 0 THEN BeforeNotices ELSE AfterNotice(after[k - 1], accepts[k])
  IN after
ProcessNotifications(accepts) ==
  LET end == NoticeRounds(accepts)[Len(notices)]
  IN /\ notices # <<>>
     /\ notices' = end.queue /\ fails' = end.fails /\ lastSent' = end.last
     /\ alerts' = [j \in DOMAIN alerts |-> [alerts[j] EXCEPT !.notified = end.marks[j]]]
     /\ UNCHANGED <<activeCount, dedup, burst, providers, sequence, lostActive, asked>>

Aged(age, most) == IF age < most THEN age + 1 ELSE age
AlertElapse ==
  /\ dedup' = [k \in DOMAIN dedup |-> [dedup[k] EXCEPT !.age = Aged(@, DedupWindow)]]
  /\ burst' = [burst EXCEPT !.age = IF burst.n < 0 THEN 0 ELSE Aged(@, BurstWindow)]
  /\ notices' = [k \in DOMAIN notices |-> [notices[k] EXCEPT !.age = Aged(@, NotifyWindow)]]
  /\ alerts' = [k \in DOMAIN alerts |->
                  IF alerts[k].quiet = NotResolved THEN alerts[k]
                  ELSE [alerts[k] EXCEPT !.quiet = Aged(@, RetainResolved + 1)]]
  /\ UNCHANGED <<activeCount, providers, fails, sequence, lostActive, asked, lastSent>>

AlertNext ==
  \/ \E key \in AlertKeys : CountDuplicate(key) \/ \E severity \in Reported : CreateAlert(key, severity)
  \/ AddThreshold \/ RecordRateEvent \/ RegisterProvider \/ CleanupResolved \/ AlertElapse
  \/ \E k \in DOMAIN alerts : alerts[k].id # Nameless /\
       \/ AcknowledgeAlert(k) \/ ResolveAlert(k) \/ CancelAlert(k) \/ EscalateAlert(k)
       \/ \E reason \in {0, 1} : SuppressAlert(k, reason)
  \/ \E a \in 0..(sequence - 1) : QueueNotification(a)
  \/ \E accepts \in [DOMAIN notices -> BOOLEAN] : ProcessNotifications(accepts)

(***************************************************************************)
(* Properties.                                                             *)
(***************************************************************************)

AlertTypeOK ==
  /\ alerts \in Seq([id : Nat \cup {Nameless}, severity : 0..Severest, state : AlertStates,
                     level : 0..MaxEscalation, count : 1..MaxDuplicates, quiet : Int,
                     notified : {"NONE", "PENDING", "SENT", "FAILED"}, reason : Nat])
  /\ Len(alerts) <= AlertRoom /\ Len(dedup) <= DedupRoom /\ Len(notices) <= NotifyRoom
  /\ fails \in 0..ProviderFails /\ providers \in 0..MaxProviders

(* The counter of active alerts is that of the ring and of the active ones *)
(* the ring has dropped, for which it is never lowered; so there are never *)
(* more active alerts than the policy allows.                              *)
ActiveCounted ==
  activeCount = Cardinality(ActiveAlerts) + lostActive /\ activeCount <= MaxActive

(* A critical alert is not silenced without a reason, whether it was       *)
(* reported as critical or became so.                                      *)
CriticalNotSilenced ==
  \A k \in DOMAIN alerts :
    alerts[k].state = "SUPPRESSED" /\ alerts[k].severity = Severest => alerts[k].reason > 0

(* Notifications are sent in the order in which they were queued, each     *)
(* once; only the first one is being retried; and an alert that is said to *)
(* await its notification has one in the queue, unless its name was taken. *)
NoticesInOrder ==
  /\ \A j, k \in DOMAIN notices : j < k => notices[j].n < notices[k].n
  /\ \A k \in DOMAIN notices : lastSent < notices[k].n /\ (k > 1 => notices[k].retries = 0)
  /\ \A k \in DOMAIN alerts :
       alerts[k].notified = "PENDING" /\ alerts[k].id # Nameless =>
         \E j \in DOMAIN notices : notices[j].alert = alerts[k].id

AlertsSafe == AlertTypeOK /\ ActiveCounted /\ CriticalNotSilenced /\ NoticesInOrder

(* What does not hold: that the counter is that of the ring, that a report *)
(* of a key within the window of another is a duplicate, that a duplicate  *)
(* counts in an alert that is still open, and that what is sent was not    *)
(* given up.                                                               *)
CountIsActive == activeCount = Cardinality(ActiveAlerts)
NewestEntryCounts ==
  [][\A key \in AlertKeys :
       (\E k \in EntriesOf(key) : dedup[k].age < DedupWindow /\ PlacesOf(dedup[k].alert) # {}) =>
         ~\E severity \in Reported : CreateAlert(key, severity)]_alertVars
DuplicateOfOpen ==
  [][\A k \in DOMAIN alerts \cap DOMAIN alerts' :
       alerts'[k].id = alerts[k].id /\ alerts'[k].count > alerts[k].count =>
         alerts[k].state \in {"ACTIVE", "ACKNOWLEDGED"}]_alertVars

-----------------------------------------------------------------------------
(***************************************************************************)
(* The notification service of 03_SECURITY (sec_notify.c): what becomes of *)
(* an alert that somebody is to be told of - the choice of a channel, the  *)
(* queue, delivery by a provider, retries, expiry, and what is told anew   *)
(* when the alert is escalated.                                            *)
(*                                                                         *)
(* Alerts are an input: `subjects' is what this service reads of them.     *)
(* The classification of a notification is that of its severity, and both  *)
(* change together.  What matches a rule is a set of severities.  A result *)
(* that may be retried (TEMPORARY_FAILURE, TIMEOUT, UNAVAILABLE) is        *)
(* RETRYABLE, one that may not is FINAL.  The back-off is one tick,        *)
(* whatever the policy; of the policy the channels it enables change, its  *)
(* numbers do not.  Content, audit, totals and the list of results are     *)
(* left out, and so are the destinations, which no provider is asked by    *)
(* (what route writes into dest_id without a rule was never read in).      *)
(***************************************************************************)

CONSTANTS
  AlertIds,          \* alerts of the alert service
  AlertSeverities,   \* (bound) severities they have, of 0..4
  Channels,          \* channels in use, LOCAL among them
  ChannelPolicies,   \* (bound) sets of channels a policy enables
  Rules,             \* (bound) routing rules: [severities, order, channel]
  MaxRules,          \* policy.max_routing_rules
  NotificationRoom,  \* OZAYN_SNOTIFY_MAX_NOTIFICATIONS
  Attempts,          \* policy.retry_policy.max_retries + 1
  NotificationLife,  \* policy.expiration_seconds
  SendRate,          \* policy.max_rate_per_window, or 0
  SendWindow,        \* policy.rate_window_seconds
  ChannelProviders,  \* policy.max_providers
  MaxNotified        \* (bound) notifications ever created

ASSUME NotificationAssumption ==
  /\ "LOCAL" \in Channels
  /\ AlertSeverities \subseteq 0..4 /\ ChannelPolicies \subseteq SUBSET Channels
  /\ {NotificationRoom, Attempts, NotificationLife, SendWindow} \subseteq Nat \ {0}
  /\ {MaxRules, SendRate, ChannelProviders, MaxNotified} \subseteq Nat
  /\ Rules \subseteq [severities : SUBSET (0..4), order : Int, channel : Channels]

VARIABLES
  subjects,      \* alert -> [severity, escalated, standing]
  notifications, \* the ring, oldest first
  rules,         \* the routing rules, in table order
  enabled,       \* policy.enabled_channels
  serving,       \* channels with a registered provider
  everServing,   \* provider_count, which never goes down
  notified       \* notif_sequence

notificationVars == <<subjects, notifications, rules, enabled, serving, everServing, notified>>

OpenStates == {"CREATED", "ROUTING", "QUEUED", "DELIVERY_FAILED", "RETRY_SCHEDULED"}
ClosedStates == {"DELIVERED", "EXHAUSTED", "EXPIRED", "CANCELLED"}
Results == {"NONE", "SUCCESS", "RETRYABLE", "FINAL"}

(* ozayn_snotify_state_transition_valid; DELIVERING is passed in one call. *)
NotificationMoves ==
  {<<"CREATED", "ROUTING">>, <<"ROUTING", "QUEUED">>, <<"QUEUED", "DELIVERING">>,
   <<"DELIVERY_FAILED", "RETRY_SCHEDULED">>}

(* ozayn_snotify_severity_to_classification, and what the classification   *)
(* of a severity allows.                                                   *)
ClassificationAllows(severity, channel) ==
  CASE severity = 0 -> TRUE
    [] severity = 1 -> channel \in {"LOCAL", "DESKTOP", "CONTROL_ROOM"}
    [] severity = 2 -> channel \in {"LOCAL", "CONTROL_ROOM"}
    [] OTHER -> channel = "LOCAL"

NotificationInit ==
  /\ subjects \in [AlertIds -> [severity : {s \in AlertSeverities : \A t \in AlertSeverities : s <= t},
                                escalated : {FALSE}, standing : {"OPEN"}]]
  /\ notifications = <<>> /\ rules = <<>> /\ enabled \in ChannelPolicies
  /\ serving = {} /\ everServing = 0 /\ notified = 0

(* ozayn_snotify_create of an alert with no open notification; the oldest  *)
(* one makes room, whatever its state (_alloc_notif).  The channel of one  *)
(* that was not routed is 0, which is LOCAL.                               *)
OpenAbout(a) == {k \in DOMAIN notifications : notifications[k].alert = a /\ notifications[k].state \in OpenStates}
Created(a) ==
  LET kept == IF Len(notifications) = NotificationRoom THEN Tail(notifications) ELSE notifications
  IN Append(kept, [n |-> notified, alert |-> a, severity |-> subjects[a].severity, state |-> "CREATED",
                   result |-> "NONE", channel |-> "LOCAL", attempts |-> 0, age |-> 0,
                   wait |-> 0, again |-> 0])
CreateNotification(a) ==
  /\ OpenAbout(a) = {} /\ notified < MaxNotified
  /\ notifications' = Created(a) /\ notified' = notified + 1
  /\ UNCHANGED <<subjects, rules, enabled, serving, everServing>>

(* ozayn_snotify_process_alert: the first notification of the alert, from  *)
(* the oldest on, that was delivered or is open decides.                   *)
Deciding(a) ==
  {k \in DOMAIN notifications : /\ notifications[k].alert = a
                                /\ notifications[k].state \in OpenStates \cup {"DELIVERED"}}
Reescalated_Queued(notification, subject) ==          \* mutant: goes out the way it went before
  [notification EXCEPT !.severity = subject.severity, !.state = "QUEUED", !.again = @ + 1]
Reescalated(notification, subject) ==
  [notification EXCEPT !.severity = subject.severity, !.state = "CREATED", !.again = @ + 1]
ProcessAlert(a) ==
  /\ subjects[a].standing = "OPEN"
  /\ \/ Deciding(a) = {} /\ CreateNotification(a)
     \/ \E k \in Deciding(a) :
          /\ \A j \in Deciding(a) : k <= j
          /\ notifications[k].state = "DELIVERED"
          /\ subjects[a].escalated /\ notifications[k].severity # subjects[a].severity
          /\ notifications' = [notifications EXCEPT ![k] = Reescalated(@, subjects[a])]
          /\ UNCHANGED <<subjects, rules, enabled, serving, everServing, notified>>

(* ozayn_snotify_routing_evaluate: the first of the rules with the highest *)
(* order, of those whose order is not negative; the default without one is *)
(* LOCAL.                                                                  *)
Matching(severity) == {k \in DOMAIN rules : severity \in rules[k].severities /\ rules[k].order >= 0}
BestRule(severity) ==
  CHOOSE k \in Matching(severity) : \A j \in Matching(severity) :
    rules[j].order < rules[k].order \/ (rules[j].order = rules[k].order /\ k <= j)
RoutedTo(severity) == IF Matching(severity) = {} THEN "LOCAL" ELSE rules[BestRule(severity)].channel

(* ozayn_snotify_check_rate_limit counts the one that is being routed.     *)
WithinRate(ns, channel) ==
  SendRate = 0 \/ Cardinality({k \in DOMAIN ns : ns[k].channel = channel /\ ns[k].age < SendWindow}) < SendRate

(* ozayn_snotify_route: once the channel is known it is kept, whether it   *)
(* is admitted or not.                                                     *)
Routed(ns, k) ==
  LET notification == ns[k]
      subject == subjects[notification.alert]
      channel == RoutedTo(subject.severity)
      routed == [ns EXCEPT ![k].channel = channel]
      admitted == /\ channel \in enabled
                  /\ ClassificationAllows(notification.severity, channel)
                  /\ WithinRate(routed, channel)
      rejected == Matching(subject.severity) = {} /\ channel \notin enabled
  IN IF subject.standing = "GONE" \/ rejected THEN [ns EXCEPT ![k].state = "DELIVERY_FAILED"]
     ELSE [routed EXCEPT ![k].state = IF admitted THEN "ROUTING" ELSE "DELIVERY_FAILED"]

(* ozayn_snotify_enqueue: the queue is full once the ring is.              *)
Enqueued(ns, k) ==
  IF ns[k].state = "ROUTING" /\ Len(ns) < NotificationRoom THEN [ns EXCEPT ![k].state = "QUEUED"] ELSE ns

(* ozayn_snotify_deliver: `answer' is that of the provider; without one    *)
(* the result stays what it was.                                           *)
Delivered(ns, k, answer) ==
  LET tried == [ns EXCEPT ![k].attempts = @ + 1, ![k].state = "DELIVERY_FAILED"]
  IN IF ns[k].channel \notin serving THEN tried
     ELSE [tried EXCEPT ![k].result = answer,
                        ![k].state = IF answer = "SUCCESS" THEN "DELIVERED" ELSE @]

(* ozayn_snotify_retry.                                                    *)
RetryAllowed(notification) == notification.attempts < Attempts
Retried(ns, k) ==
  IF ns[k].result # "RETRYABLE" THEN ns
  ELSE IF ~RetryAllowed(ns[k]) THEN [ns EXCEPT ![k].state = "EXHAUSTED"]
  ELSE IF ns[k].state = "DELIVERY_FAILED" THEN [ns EXCEPT ![k].state = "RETRY_SCHEDULED", ![k].wait = 1]
  ELSE ns

(* ozayn_snotify_expire, of one that is not over.                          *)
Expired(ns, k) ==
  IF ns[k].state \in {"DELIVERED", "CANCELLED", "EXPIRED"} THEN ns
  ELSE [ns EXCEPT ![k].state = "EXPIRED", ![k].result = "FINAL"]
IsExpired(notification) == notification.age >= NotificationLife

(* The body of the loop of ozayn_snotify_process_queue.                    *)
Processed(ns, k, answer) ==
  LET routed == IF ns[k].state = "CREATED" THEN Routed(ns, k) ELSE ns
      queued == Enqueued(routed, k)
      sent == IF queued[k].state = "QUEUED" THEN Delivered(queued, k, answer) ELSE queued
      after == IF queued[k].state = "QUEUED" /\ sent[k].state = "DELIVERY_FAILED"
               THEN IF RetryAllowed(sent[k]) THEN Retried(sent, k) ELSE [sent EXCEPT ![k].state = "EXHAUSTED"]
               ELSE sent
  IN IF ns[k].state \in ClosedStates THEN ns
     ELSE IF IsExpired(ns[k]) THEN Expired(ns, k)
     ELSE IF after[k].state = "RETRY_SCHEDULED" /\ after[k].wait = 0 THEN [after EXCEPT ![k].state = "QUEUED"]
     ELSE after

Answers == Results \ {"NONE"}
OnlyNotifications(new) ==
  /\ notifications' = new
  /\ UNCHANGED <<subjects, rules, enabled, serving, everServing, notified>>
QueueRounds(answers) ==
  LET after[k \in 0..Len(notifications)] ==
        IF k = 0 THEN notifications ELSE Processed(after[k - 1], k, answers[k])
  IN after
ProcessQueue(answers) ==
  /\ notifications # <<>>
  /\ OnlyNotifications(QueueRounds(answers)[Len(notifications)])

(* The same one by one.                                                    *)
MayMove(k, to) == <<notifications[k].state, to>> \in NotificationMoves
RouteNotification(k) == MayMove(k, "ROUTING") /\ OnlyNotifications(Routed(notifications, k))
EnqueueNotification(k) == MayMove(k, "QUEUED") /\ OnlyNotifications(Enqueued(notifications, k))
DeliverNotification(k, answer) ==
  MayMove(k, "DELIVERING") /\ OnlyNotifications(Delivered(notifications, k, answer))
RetryNotification(k) == OnlyNotifications(Retried(notifications, k))
ExpireNotification(k) == OnlyNotifications(Expired(notifications, k))
CancelNotification(k) ==
  /\ notifications[k].state \in OpenStates
  /\ OnlyNotifications([notifications EXCEPT ![k].state = "CANCELLED", ![k].result = "FINAL"])

(* ozayn_snotify_cleanup_expired looks at what is over, and expire changes *)
(* only what is EXHAUSTED.                                                 *)
CleanupExpired ==
  OnlyNotifications([k \in DOMAIN notifications |->
    IF notifications[k].state = "EXHAUSTED" /\ IsExpired(notifications[k])
    THEN Expired(notifications, k)[k] ELSE notifications[k]])

(* ozayn_snotify_routing_add and _remove: the last rule takes the place of *)
(* one that goes.                                                          *)
AddRule(rule) ==
  /\ Len(rules) < MaxRules /\ rule \notin ToSet(rules)
  /\ rules' = Append(rules, rule)
  /\ UNCHANGED <<subjects, notifications, enabled, serving, everServing, notified>>
RemoveRule(k) ==
  /\ rules' = Front([rules EXCEPT ![k] = Last(rules)])
  /\ UNCHANGED <<subjects, notifications, enabled, serving, everServing, notified>>

(* ozayn_snotify_set_policy.                                               *)
SetChannels(policy) ==
  /\ enabled' = policy
  /\ UNCHANGED <<subjects, notifications, rules, serving, everServing, notified>>

(* ozayn_snotify_register_provider and _unregister_provider: a place in    *)
(* the table is not used again.                                            *)
RegisterSender(channel) ==
  /\ channel \notin serving /\ everServing < ChannelProviders
  /\ serving' = serving \cup {channel} /\ everServing' = everServing + 1
  /\ UNCHANGED <<subjects, notifications, rules, enabled, notified>>
UnregisterSender(channel) ==
  /\ channel \in serving /\ serving' = serving \ {channel}
  /\ UNCHANGED <<subjects, notifications, rules, enabled, everServing, notified>>

(* The alert service: an alert is escalated, its severity is raised by     *)
(* what repeats it, it is suppressed or resolved, or it leaves its ring.   *)
AlertChanges(a, subject) ==
  /\ subjects[a].standing # "GONE" /\ subject # subjects[a]
  /\ subject.severity >= subjects[a].severity
  /\ subjects[a].escalated => subject.escalated
  /\ subject.standing = "OPEN" => subjects[a].standing = "OPEN"
  /\ subjects' = [subjects EXCEPT ![a] = subject]
  /\ UNCHANGED <<notifications, rules, enabled, serving, everServing, notified>>

NotificationElapse ==
  OnlyNotifications([k \in DOMAIN notifications |->
    [notifications[k] EXCEPT !.wait = 0,
                             !.age = IF @ < NotificationLife \/ @ < SendWindow THEN @ + 1 ELSE @]])

NotificationNext ==
  \/ \E a \in AlertIds :
       \/ CreateNotification(a) \/ ProcessAlert(a)
       \/ \E subject \in [severity : AlertSeverities, escalated : BOOLEAN, standing : {"OPEN", "MUTED", "GONE"}] :
            AlertChanges(a, subject)
  \/ \E answers \in [DOMAIN notifications -> Answers] : ProcessQueue(answers)
  \/ \E k \in DOMAIN notifications :
       \/ RouteNotification(k) \/ EnqueueNotification(k) \/ RetryNotification(k) \/ ExpireNotification(k) \/ CancelNotification(k)
       \/ \E answer \in Answers : DeliverNotification(k, answer)
  \/ CleanupExpired \/ NotificationElapse
  \/ \E rule \in Rules : AddRule(rule)
  \/ \E k \in DOMAIN rules : RemoveRule(k)
  \/ \E policy \in ChannelPolicies : SetChannels(policy)
  \/ \E channel \in Channels : RegisterSender(channel) \/ UnregisterSender(channel)

(***************************************************************************)
(* Properties.                                                             *)
(***************************************************************************)

NotificationTypeOK ==
  /\ notifications \in Seq([n : Nat, alert : AlertIds, severity : AlertSeverities,
                            state : OpenStates \cup ClosedStates, result : Results, channel : Channels,
                            attempts : Nat, age : Nat, wait : 0..1, again : Nat])
  /\ Len(notifications) <= NotificationRoom /\ Len(rules) <= MaxRules
  /\ serving \subseteq Channels /\ everServing <= ChannelProviders

(* What is queued, waits for another attempt or could be given one, or was *)
(* sent, is on a channel that the classification of its severity allows:   *)
(* across escalations, which raise the severity of what was sent before,   *)
(* changes of rules and channels, and results that are left over from an   *)
(* earlier attempt (ozayn_snotify_route, _retry, _process_alert).          *)
ChannelAllowed ==
  \A k \in DOMAIN notifications :
    LET notification == notifications[k] IN
      \/ notification.state \in {"ROUTING", "QUEUED", "RETRY_SCHEDULED", "DELIVERED"}
      \/ notification.state = "DELIVERY_FAILED" /\ notification.result = "RETRYABLE"
      => ClassificationAllows(notification.severity, notification.channel)

(* No more attempts are made than the policy allows, and one for each time *)
(* the alert was escalated after it had been told of; one that is to be    *)
(* made again has some left.                                               *)
AttemptsBounded ==
  \A k \in DOMAIN notifications :
    LET notification == notifications[k] IN
      /\ notification.attempts <= Attempts + notification.again
      /\ notification.state = "RETRY_SCHEDULED" => RetryAllowed(notification)

(* 03_SECURITY/README.md:432, "same alert re-evaluation creates no         *)
(* duplicate": of two open notifications of an alert one was delivered     *)
(* before, and opened again by an escalation.                              *)
DuplicateExplained ==
  \A j, k \in DOMAIN notifications :
    /\ j # k /\ notifications[j].alert = notifications[k].alert
    /\ {notifications[j].state, notifications[k].state} \subseteq OpenStates
    => notifications[j].again + notifications[k].again > 0

NotificationsSafe == NotificationTypeOK /\ ChannelAllowed /\ AttemptsBounded /\ DuplicateExplained

(* What does not hold: that an alert has one open notification at most,    *)
(* and that what was escalated is told of before it expires with what was  *)
(* sent.                                                                   *)
OneOpenAtMost == \A a \in AlertIds : Cardinality(OpenAbout(a)) <= 1
EscalationInTime ==
  \A k \in DOMAIN notifications :
    notifications[k].state = "CREATED" /\ notifications[k].again > 0 => ~IsExpired(notifications[k])
=============================================================================
