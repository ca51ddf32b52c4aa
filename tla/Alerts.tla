------------------------------- MODULE Alerts -------------------------------
(***************************************************************************)
(* In-app notifications and e-mail alerts of one workspace: the subscriber *)
(* that runs when a scan ends (scanner_engine/orchestrator.py and          *)
(* modules/notifications/service.py), the dispatch of an e-mail            *)
(* (alerts.py), and the Celery task that sends it                          *)
(* (celery_app/tasks/notification_tasks.py), with its Redis deduplication, *)
(* its retries and its redelivery when a worker dies.                      *)
(***************************************************************************)
EXTENDS Integers, FiniteSets

CONSTANTS
  Events,           \* things that raise an alert: ended scans, failed backups, dead letters
  Counts,           \* numbers of new high or critical findings of a scan
  EMAIL_MAX_RETRIES,
  MaxTroubles,      \* bound: how often Redis stops answering or a worker dies
  MaxWindows        \* bound: how many deduplication windows pass

ASSUME AlertsAssumption ==
  EMAIL_MAX_RETRIES \in Nat /\ MaxTroubles \in Nat /\ MaxWindows \in Nat

VARIABLES
  email,    \* email_enabled where alerts are raised and on the worker that
            \* sends them, and the recipients there are to find
  session,  \* event -> the state of the handler that reacts to it
  notes,    \* committed notifications
  mails,    \* event -> the e-mail task it enqueued
  marks,    \* the deduplication keys present in Redis
  cacheUp,  \* whether Redis answers
  passed,   \* history: <<key, event>> let through on Redis' word in this window
  spent     \* [faults, windows] used so far

alertVars == <<email, session, notes, mails, marks, cacheUp, passed, spent>>

\* What an ended scan comes to, with the number of new high or critical
\* findings in the subject of its alert, and the two system alerts.
Kinds == {"scan_failed", "critical_findings", "scan_completed",
          "backup_failed", "reliability_dlq"}
EMAILABLE_SCAN_TYPES == {"scan_failed", "critical_findings"}
System == {"backup_failed", "reliability_dlq"}

NoMail == [state |-> "none", key |-> <<>>, retries |-> 0, result |-> "none"]

\* The key is the category, the workspace and a hash of the subject: a failed
\* scan has always the same subject, new findings are told apart by number.
_dedup_key(kind, n) == <<kind, IF kind = "critical_findings" THEN n ELSE 0>>

AlertsInit ==
  /\ email \in [enabled : BOOLEAN, worker : BOOLEAN, members : BOOLEAN, admins : BOOLEAN]
  /\ session = [e \in Events |-> "idle"]
  /\ notes = {} /\ marks = {} /\ passed = {} /\ cacheUp = TRUE
  /\ mails = [e \in Events |-> NoMail]
  /\ spent = [faults |-> 0, windows |-> 0]

Queued(key) == [NoMail EXCEPT !.state = "queued", !.key = key]

\* email_scan_alert and email_system_alert: gated, and silent when nobody is
\* to be told; the broker may refuse the message, which is swallowed.
email_scan_alert(e, kind, n, accepted) ==
  mails' = IF /\ email.enabled /\ kind \in EMAILABLE_SCAN_TYPES
              /\ email.members /\ accepted
           THEN [mails EXCEPT ![e] = Queued(_dedup_key(kind, n))]
           ELSE mails

email_system_alert(e, kind, accepted) ==
  mails' = IF email.enabled /\ email.admins /\ accepted
           THEN [mails EXCEPT ![e] = Queued(_dedup_key(kind, 0))]
           ELSE mails

\* The note of notify_scan_finished; it starts unread.
create_notification(e, kind) == [event |-> e, type |-> kind, read |-> FALSE]

\* notify_scan_finished: the note is flushed and the e-mail task enqueued
\* before anything is committed.
notify_scan_finished(e, kind, n, accepted) ==
  /\ session[e] = "idle" /\ kind \notin System
  /\ session' = [session EXCEPT ![e] = kind]
  /\ email_scan_alert(e, kind, n, accepted)
  /\ UNCHANGED <<email, notes, marks, cacheUp, passed, spent>>

\* _emit_scan_notification commits the note, or swallows the failure and the
\* note is gone although its e-mail is on its way.
_emit_scan_notification(e, commits) ==
  /\ session[e] \in Kinds
  /\ notes' = IF commits THEN notes \cup {create_notification(e, session[e])} ELSE notes
  /\ session' = [session EXCEPT ![e] = "done"]
  /\ UNCHANGED <<email, mails, marks, cacheUp, passed, spent>>

\* The two sites outside a scan: run_backup of a failed set, and _record_dlq.
\* They leave no note.
SystemAlert(e, kind, accepted) ==
  /\ session[e] = "idle" /\ kind \in System
  /\ session' = [session EXCEPT ![e] = "done"]
  /\ email_system_alert(e, kind, accepted)
  /\ UNCHANGED <<email, notes, marks, cacheUp, passed, spent>>

\* mark_read of one notification, mark_all_read of the workspace's.
mark_read(some) ==
  /\ some # {} /\ some \subseteq {n \in notes : ~ n.read}
  /\ notes' = (notes \ some) \cup {[n EXCEPT !.read = TRUE] : n \in some}
  /\ UNCHANGED <<email, session, mails, marks, cacheUp, passed, spent>>

\* Mutant: the key is looked up and never written.
_dedup_seen_and_markUnwritten(key) == [seen |-> cacheUp /\ key \in marks, marks |-> marks]

\* SET NX EX: the first to write the key is not a duplicate; a Redis that does
\* not answer lets everyone through.
_dedup_seen_and_mark(key) ==
  [seen  |-> cacheUp /\ key \in marks,
   marks |-> IF cacheUp THEN marks \cup {key} ELSE marks]

\* A task returns and is acknowledged.
Ends(e, result) ==
  /\ mails' = [mails EXCEPT ![e].state = "ended", ![e].result = result]
  /\ UNCHANGED <<email, session, notes, marks, cacheUp, passed, spent>>

\* The worker's own settings have e-mail switched off.
Disabled(e) ==
  /\ mails[e].state = "queued" /\ ~ email.worker
  /\ Ends(e, "disabled")

\* A worker takes a task from the queue. Only the first attempt is
\* deduplicated, and its key is written before anything is sent.
TakeMail(e) ==
  /\ mails[e].state = "queued" /\ email.worker
  /\ LET key   == mails[e].key
         first == mails[e].retries = 0
         d     == _dedup_seen_and_mark(key)
     IN  /\ marks' = IF first THEN d.marks ELSE marks
         /\ IF first /\ d.seen
            THEN /\ mails' = [mails EXCEPT ![e].state = "ended", ![e].result = "deduped"]
                 /\ UNCHANGED passed
            ELSE /\ mails' = [mails EXCEPT ![e].state = "sending"]
                 /\ passed' = IF first /\ cacheUp THEN passed \cup {<<key, e>>} ELSE passed
  /\ UNCHANGED <<email, session, notes, cacheUp, spent>>

\* smtp_send came back.
Sent(e) == mails[e].state = "sending" /\ Ends(e, "sent")

\* EmailDeliveryError: queued again after the back-off while retries are left.
DeliveryError(e) ==
  /\ mails[e].state = "sending"
  /\ IF mails[e].retries < EMAIL_MAX_RETRIES
     THEN /\ mails' = [mails EXCEPT ![e].state = "queued", ![e].retries = @ + 1]
          /\ UNCHANGED <<email, session, notes, marks, cacheUp, passed, spent>>
     ELSE Ends(e, "failed")

\* Anything else that goes wrong is not retried.
OtherError(e) == mails[e].state = "sending" /\ Ends(e, "failed")

\* The worker dies: the message was not acknowledged, and is delivered again
\* with the retry count it had.
WorkerDies(e) ==
  /\ mails[e].state = "sending" /\ spent.faults < MaxTroubles
  /\ mails' = [mails EXCEPT ![e].state = "queued"]
  /\ spent' = [spent EXCEPT !.faults = @ + 1]
  /\ UNCHANGED <<email, session, notes, marks, cacheUp, passed>>

\* The window of a key is over: Redis drops the key.
WindowEnds(key) ==
  /\ key \in marks /\ spent.windows < MaxWindows
  /\ marks' = marks \ {key}
  /\ passed' = {p \in passed : p[1] # key}
  /\ spent' = [spent EXCEPT !.windows = @ + 1]
  /\ UNCHANGED <<email, session, notes, mails, cacheUp>>

CacheFlips ==
  /\ cacheUp => spent.faults < MaxTroubles
  /\ cacheUp' = ~ cacheUp
  /\ spent' = [spent EXCEPT !.faults = @ + (IF cacheUp THEN 1 ELSE 0)]
  /\ UNCHANGED <<email, session, notes, mails, marks, passed>>

AlertsNext ==
  \/ \E e \in Events :
       \/ \E k \in Kinds, n \in Counts, b \in BOOLEAN : notify_scan_finished(e, k, n, b)
       \/ \E k \in System, b \in BOOLEAN : SystemAlert(e, k, b)
       \/ \E b \in BOOLEAN : _emit_scan_notification(e, b)
       \/ Disabled(e) \/ TakeMail(e) \/ Sent(e) \/ DeliveryError(e) \/ OtherError(e) \/ WorkerDies(e)
  \/ \E some \in SUBSET notes : mark_read(some)
  \/ \E key \in marks : WindowEnds(key)
  \/ CacheFlips

-----------------------------------------------------------------------------
AlertsTypeOK ==
  /\ session \in [Events -> Kinds \cup {"idle", "done"}]
  /\ \A n \in notes : n.event \in Events /\ n.type \in Kinds \ System
  /\ \A e \in Events :
       /\ mails[e].state \in {"none", "queued", "sending", "ended"}
       /\ mails[e].retries \in 0 .. EMAIL_MAX_RETRIES
       /\ mails[e].result \in {"none", "disabled", "deduped", "sent", "failed"}
  /\ cacheUp \in BOOLEAN

\* Within one deduplication window at most one alert of a key goes on to the
\* mail server on Redis' word, whichever workers race for it, however often it
\* is retried, redelivered after a crash, or interleaved with a Redis outage
\* (notification_tasks.py _dedup_seen_and_mark).
OneAlertPerWindow ==
  \A p, q \in passed : p[1] = q[1] => p = q
=============================================================================
