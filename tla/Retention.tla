------------------------------ MODULE Retention ------------------------------
(***************************************************************************)
(* RetentionScheduler and RetentionCleanupService: once at startup and     *)
(* then daily, cleanup_all deletes old events, then old dismissed alerts.  *)
(*                                                                         *)
(* A row carries CURRENT_TIMESTAMP, 'YYYY-MM-DD HH:MM:SS'; the cutoff is   *)
(* isoformat(), 'YYYY-MM-DDTHH:MM:SS...'.  SQLite compares the two as      *)
(* strings: equal dates are told apart by ' ' < 'T', and so every row of   *)
(* the cutoff's own day counts as older than the cutoff.                   *)
(*                                                                         *)
(* Time is counted in ticks, Day of them to a UTC day.  A cleanup takes no *)
(* time, as the event loop runs cleanup_all without awaiting anything; the *)
(* scanner's thread still records events between its two halves.           *)
(***************************************************************************)
EXTENDS Integers

CONSTANTS
    Event,          \* the events that may be recorded
    Days,           \* RETENTION_DAYS
    Day,            \* ticks in a day
    CleanupHour,    \* RETENTION_CLEANUP_HOUR, as a tick of the day
    MaxNow,         \* bound: the clock
    MaxMissed       \* bound: cleanups missed or failed

ASSUME TimeAssumption ==
    /\ Days \in Nat \ {0} /\ Day \in Nat \ {0}
    /\ CleanupHour \in 0..(Day - 1)
    /\ MaxNow \in Nat /\ MaxMissed \in Nat

Never == -1

VARIABLES
    now,        \* the clock
    stamp,      \* timestamp of each event in device_events, or Never
    alert,      \* the alert of each event: "none", "active", "dismissed"
    dismissed,  \* dismissed_at of the alert, or Never
    job,        \* _cleanup_task: "down", "idle", "due", "alerts"
    missed,     \* history: cleanups of the events missed or failed
    down        \* history: ticks the process was not running

retentionVars == <<now, stamp, alert, dismissed, job, missed, down>>

RetentionInit ==
    /\ now = 0
    /\ stamp = [e \in Event |-> Never]
    /\ alert = [e \in Event |-> "none"]
    /\ dismissed = [e \in Event |-> Never]
    /\ job = "due"                          \* start() runs a first cleanup
    /\ missed = 0 /\ down = 0

Recorded == {e \in Event : stamp[e] # Never}

(* Mutants of Older: the day of the cutoff spared; a day too many. *)
OlderStrict(t) == t \div Day < (now - Days * Day) \div Day
OlderEarly(t)  == t \div Day <= (now - (Days - 1) * Day) \div Day

(* timestamp < (now - timedelta(days)).isoformat(), as strings *)
Older(t) == t \div Day <= (now - Days * Day) \div Day

-----------------------------------------------------------------------------
(* record_event and, for some, create_alert: the scanner's thread *)
RecordEvent(e) ==
    /\ job # "down" /\ stamp[e] = Never
    /\ stamp' = [stamp EXCEPT ![e] = now]
    /\ \E a \in {"none", "active"} : alert' = [alert EXCEPT ![e] = a]
    /\ UNCHANGED <<now, dismissed, job, missed, down>>

(* Mutant of DismissAlert: an alert whose row is gone. *)
DismissAlertAny(e) ==
    /\ job \in {"idle", "due"}
    /\ alert' = [alert EXCEPT ![e] = "dismissed"]
    /\ dismissed' = [dismissed EXCEPT ![e] = now]
    /\ UNCHANGED <<now, stamp, job, missed, down>>

(* dismiss_alert: also of an alert dismissed before *)
DismissAlert(e) ==
    /\ job \in {"idle", "due"} /\ alert[e] # "none"
    /\ alert' = [alert EXCEPT ![e] = "dismissed"]
    /\ dismissed' = [dismissed EXCEPT ![e] = now]
    /\ UNCHANGED <<now, stamp, job, missed, down>>

(* cleanup_old_events; the alerts of a deleted event go by cascade *)
CleanupEvents ==
    /\ job = "due"
    /\ LET old == {e \in Recorded : Older(stamp[e])} IN
       /\ stamp' = [e \in Event |-> IF e \in old THEN Never ELSE stamp[e]]
       /\ alert' = [e \in Event |-> IF e \in old THEN "none" ELSE alert[e]]
       /\ dismissed' = [e \in Event |-> IF e \in old THEN Never ELSE dismissed[e]]
    /\ job' = "alerts"
    /\ UNCHANGED <<now, missed, down>>

(* It raises: cleanup_all goes on to the alerts. *)
CleanupEventsFails ==
    /\ job = "due" /\ missed < MaxMissed
    /\ missed' = missed + 1 /\ job' = "alerts"
    /\ UNCHANGED <<now, stamp, alert, dismissed, down>>

(* cleanup_old_alerts, or its failure *)
CleanupAlerts ==
    /\ job = "alerts"
    /\ \/ LET old == {e \in Event : alert[e] = "dismissed" /\ Older(dismissed[e])} IN
          /\ alert' = [e \in Event |-> IF e \in old THEN "none" ELSE alert[e]]
          /\ dismissed' = [e \in Event |-> IF e \in old THEN Never ELSE dismissed[e]]
       \/ UNCHANGED <<alert, dismissed>>
    /\ job' = "idle"
    /\ UNCHANGED <<now, stamp, missed, down>>

(* The event loop was busy for more than the scheduler's grace time. *)
Misfire ==
    /\ job = "due" /\ missed < MaxMissed
    /\ missed' = missed + 1 /\ job' = "idle"
    /\ UNCHANGED <<now, stamp, alert, dismissed, down>>

(* The clock; the daily job comes due at its hour. *)
ClockTicks ==
    /\ job \in {"idle", "down"} /\ now < MaxNow
    /\ now' = now + 1
    /\ job' = IF job = "idle" /\ now' % Day = CleanupHour THEN "due" ELSE job
    /\ down' = IF job = "down" THEN down + 1 ELSE down
    /\ UNCHANGED <<stamp, alert, dismissed, missed>>

(* The process dies, also between the two halves of a cleanup, and is
   started again.                                                           *)
SchedulerDies ==
    /\ job # "down" /\ job' = "down"
    /\ UNCHANGED <<now, stamp, alert, dismissed, missed, down>>

SchedulerStarts ==
    /\ job = "down" /\ job' = "due"
    /\ UNCHANGED <<now, stamp, alert, dismissed, missed, down>>

RetentionNext ==
    \/ ClockTicks \/ SchedulerDies \/ SchedulerStarts
    \/ CleanupEvents \/ CleanupEventsFails \/ CleanupAlerts \/ Misfire
    \/ \E e \in Event : RecordEvent(e) \/ DismissAlert(e)

RetentionSpec == RetentionInit /\ [][RetentionNext]_retentionVars

-----------------------------------------------------------------------------
(* Properties *)

RetentionTypeOK ==
    /\ now \in Nat
    /\ stamp \in [Event -> Nat \cup {Never}]
    /\ alert \in [Event -> {"none", "active", "dismissed"}]
    /\ dismissed \in [Event -> Nat \cup {Never}]
    /\ job \in {"down", "idle", "due", "alerts"}
    /\ missed \in Nat /\ down \in Nat

Age(t) == now - t

(* The two columns of an alert and its event agree through every order of
   dismissal, deletion and cascade: an alert has its event, it is dismissed
   exactly when it has a date of dismissal, and that is no earlier than the
   event and no later than the present.                                     *)
AlertConsistent ==
    \A e \in Event :
        /\ alert[e] # "none" => stamp[e] # Never
        /\ IF alert[e] = "dismissed" THEN dismissed[e] \in stamp[e]..now
                                     ELSE dismissed[e] = Never

(* The table stays bounded: an event is gone a day after it falls out of
   the retention period, plus what missed cleanups and down time cost.      *)
AgeBounded ==
    job \in {"idle", "alerts"} =>
        \A e \in Recorded : Age(stamp[e]) < (Days + 1 + missed) * Day + down

(* The string comparison deletes less than a day too early: neither an
   event nor a dismissed alert goes before Days - 1 full days.              *)
KeptAtLeast ==
    [][/\ CleanupEvents => \A e \in Recorded :
            stamp'[e] = Never => Age(stamp[e]) > (Days - 1) * Day
       /\ CleanupAlerts => \A e \in Event :
            (alert[e] # "none" /\ alert'[e] = "none") =>
                alert[e] = "dismissed" /\ Age(dismissed[e]) > (Days - 1) * Day]_retentionVars

=============================================================================
