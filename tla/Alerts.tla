------------------------------- MODULE Alerts --------------------------------
(* The monitor (telegram/monitor.py): once a minute one process, which the  *)
(* lock "telegram:monitor" names, turns what it finds in the audit log, the *)
(* backup runs and its own measurements into notices for the administrators'*)
(* group.  A tick is one transaction; what a process remembers of an outage *)
(* of the database is in its memory and not part of it.                     *)
(*                                                                          *)
(* The audit log is read behind a cursor, the highest id seen so far, and   *)
(* ids are given before their rows are committed.                           *)
EXTENDS Naturals, Sequences, FiniteSets

CONSTANTS
    MaxNow,      \* bound on the clock, in ticks
    MaxEvents,   \* bound on audit events
    BackupRuns,  \* backup runs
    Keep,        \* age at which an event is no longer looked at (15 minutes)
    Burst,       \* the window in which refused log-ins are counted (5 minutes)
    Threshold,   \* how many of them make an alert
    Limit,       \* events read by one tick (200)
    Cooldown,    \* cooldownMinutes
    Duration,    \* how long a measurement must fail
    NoTime

ASSUME AlertsAssumption ==
    /\ Threshold \in Nat \ {0} /\ Limit \in Nat \ {0} /\ Cooldown \in Nat \ {0}
    /\ MaxNow \in Nat /\ MaxEvents \in Nat
    /\ Keep \in Nat /\ Burst \in Nat /\ Duration \in Nat
    /\ NoTime \notin 0..MaxNow

VARIABLES
    now,      \* the clock
    ticked,   \* whether the monitor has ticked in this instant
    log,      \* audit_events by id, written but perhaps not yet committed
    cursor,   \* measured_value of the incident row "audit_cursor"
    finished, \* when each backup run finished
    incident, \* the incident row of one measurement
    outage,   \* the process' memory of a database that does not answer
    enabled,  \* the rule: Telegram on, a group, the category enabled
    alerts    \* the notices queued so far

alertVars == <<now, ticked, log, cursor, finished, incident, outage, enabled, alerts>>

Minutes == 0..MaxNow
(* LOGIN_FAILED stands for the kinds that are counted, ACCOUNT_LOCKED for   *)
(* those of which one is enough.  The last two fields are history: a tick   *)
(* has read the event; the cursor had passed it when it was committed.      *)
AuditKinds == {"LOGIN_FAILED", "ACCOUNT_LOCKED"}
Event == [kind : AuditKinds, at : Minutes, state : {"open", "committed", "lost"},
          seen : BOOLEAN, overtaken : BOOLEAN]
IncidentStates == {"NONE", "PENDING", "ACTIVE", "RESOLVED"}
(* A notice is told apart by its event and its reference: the beginning of  *)
(* the incident, or the backup run.                                         *)
Subjects == AuditKinds \cup {"INCIDENT", "RECOVERED", "BACKUP", "DATABASE_RECOVERED"}

AlertsTypeOK ==
    /\ now \in Minutes /\ ticked \in BOOLEAN /\ cursor \in 0..MaxEvents /\ enabled \in BOOLEAN
    /\ log \in Seq(Event) /\ finished \in [BackupRuns -> Minutes \cup {NoTime}]
    /\ incident \in [state : IncidentStates, since : Minutes, told : Minutes \cup {NoTime}]
    /\ outage \in [failed : Minutes \cup {NoTime}, told : Minutes \cup {NoTime}]
    /\ \A a \in alerts : a.subject \in Subjects /\ a.at \in Minutes

-----------------------------------------------------------------------------
(* A transaction writes an audit event, which takes the next id, and        *)
(* commits it later or not at all.                                          *)
WriteEvent(k) ==
    /\ Len(log) < MaxEvents
    /\ log' = Append(log, [kind |-> k, at |-> now, state |-> "open", seen |-> FALSE,
                           overtaken |-> FALSE])
    /\ UNCHANGED <<now, ticked, cursor, finished, incident, outage, enabled, alerts>>
EndEvent(n, state) ==
    /\ log[n].state = "open"
    /\ log' = [log EXCEPT ![n].state = state,
                          ![n].overtaken = state = "committed" /\ n <= cursor]
    /\ UNCHANGED <<now, ticked, cursor, finished, incident, outage, enabled, alerts>>
FinishBackup(r) ==
    /\ finished[r] = NoTime
    /\ finished' = [finished EXCEPT ![r] = now]
    /\ UNCHANGED <<now, ticked, log, cursor, incident, outage, enabled, alerts>>
SwitchRule ==
    /\ enabled' = ~enabled
    /\ UNCHANGED <<now, ticked, log, cursor, finished, incident, outage, alerts>>
Pass ==
    /\ now < MaxNow
    /\ now' = now + 1 /\ ticked' = FALSE
    /\ UNCHANGED <<log, cursor, finished, incident, outage, enabled, alerts>>

-----------------------------------------------------------------------------
Unread(n) == log[n].state = "committed" /\ n > cursor /\ log[n].at + Keep >= now
(* Mutant: a batch in the order in which the database finds the rows.       *)
AnyBatch == LET unread == {n \in DOMAIN log : Unread(n)}
            IN  {n \in unread : Cardinality({m \in unread : m > n}) < Limit}
(* The events a tick reads: the oldest that the cursor has not passed.      *)
Batch == LET unread == {n \in DOMAIN log : Unread(n)}
         IN  {n \in unread : Cardinality({m \in unread : m < n}) < Limit}
Worthy(n) ==
    \/ log[n].kind = "ACCOUNT_LOCKED"
    \/ Cardinality({m \in DOMAIN log : /\ log[m].kind = log[n].kind /\ log[m].state = "committed"
                                       /\ log[m].at + Burst >= now}) >= Threshold
(* Mutant: only what was queued under the same deduplication key counts.    *)
SameBucket(k) == \E a \in alerts : a.subject = k /\ a.at \div Cooldown = now \div Cooldown
(* enqueue_admin refuses a security notice when one of its kind is recent.  *)
Recent(k) == \E a \in alerts : a.subject = k /\ a.at + Cooldown > now
Notice(subject, reference) == [subject |-> subject, reference |-> reference, at |-> now]
SecurityNotices ==
    {Notice(k, 0) : k \in {l \in AuditKinds :
                             ~Recent(l) /\ \E n \in Batch : log[n].kind = l /\ Worthy(n)}}

(* backup_events: a run is told under its own key, however often the day's  *)
(* runs are read.                                                           *)
BackupNotices ==
    {Notice("BACKUP", r) : r \in {q \in BackupRuns :
        finished[q] # NoTime /\ ~\E a \in alerts : a.subject = "BACKUP" /\ a.reference = q}}

(* incident: what a failing measurement makes of the row.  A tick that goes *)
(* well while it is PENDING starts it again; between the two thresholds an  *)
(* ACTIVE incident neither fails nor has recovered.                         *)
Opened == IF incident.state \in {"NONE", "RESOLVED"}
          THEN [state |-> "PENDING", since |-> now, told |-> NoTime]
          ELSE incident
(* Mutant: the cooldown is left to the deduplication key.                   *)
CooledByKey(i) == TRUE
Cooled(i) == i.told = NoTime \/ now >= i.told + Cooldown
Tells == /\ enabled /\ now >= Opened.since + Duration /\ Cooled(Opened)
         /\ ~\E a \in alerts : /\ a.subject = "INCIDENT" /\ a.reference = Opened.since
                               /\ a.at \div Cooldown = now \div Cooldown
Failing ==
    IF Tells THEN [state |-> "ACTIVE", since |-> Opened.since, told |-> now] ELSE Opened
Resolved == [incident EXCEPT !.state = "RESOLVED", !.told = NoTime]
Passing(recovered) ==
    IF incident.state = "PENDING" \/ (recovered /\ incident.state = "ACTIVE")
    THEN Resolved ELSE incident
RecoveryTold(recovered) == enabled /\ recovered /\ incident.state = "ACTIVE"
IncidentNotices(failing, recovered) ==
    IF failing THEN IF Tells THEN {Notice("INCIDENT", Opened.since)} ELSE {}
    ELSE IF RecoveryTold(recovered) THEN {Notice("RECOVERED", incident.since)} ELSE {}

(* monitor_tick of the process that has the lock, which keeps two ticks     *)
(* from the same instant.                                                   *)
MonitorTick(failing, recovered) ==
    /\ ~ticked /\ ticked' = TRUE
    /\ failing => ~recovered
    /\ cursor' = IF Batch = {} THEN cursor ELSE CHOOSE n \in Batch : \A m \in Batch : m <= n
    /\ log' = [n \in DOMAIN log |-> [log[n] EXCEPT !.seen = @ \/ n \in Batch]]
    /\ incident' = IF failing THEN Failing ELSE Passing(recovered)
    /\ alerts' = alerts \cup IncidentNotices(failing, recovered) \cup
                 IF ~enabled THEN {}
                 ELSE SecurityNotices \cup BackupNotices \cup
                      IF outage.told # NoTime THEN {Notice("DATABASE_RECOVERED", outage.failed)} ELSE {}
    /\ outage' = [failed |-> NoTime, told |-> NoTime]
    /\ UNCHANGED <<now, finished, enabled>>
(* The tick fails, or its process dies: the transaction is lost and with it *)
(* all but what the process has already forgotten.                          *)
MonitorFails ==
    /\ outage.failed # NoTime
    /\ outage' = [failed |-> NoTime, told |-> NoTime]
    /\ UNCHANGED <<now, ticked, log, cursor, finished, incident, enabled, alerts>>
MayTell == /\ outage.failed # NoTime /\ now > outage.failed
           /\ outage.told = NoTime \/ now >= outage.told + Cooldown
(* _database_failure: the probe fails; the group is told directly, under    *)
(* the settings read last, unless it was told lately or the call fails.     *)
DatabaseFailure(tells) ==
    /\ tells \in {FALSE, MayTell}
    /\ outage' = [failed |-> IF outage.failed = NoTime THEN now ELSE outage.failed,
                  told |-> IF tells THEN now ELSE outage.told]
    /\ UNCHANGED <<now, ticked, log, cursor, finished, incident, enabled, alerts>>

-----------------------------------------------------------------------------
AlertsInit ==
    /\ now = 0 /\ ticked = FALSE /\ log = <<>> /\ cursor = 0 /\ enabled = TRUE /\ alerts = {}
    /\ finished = [r \in BackupRuns |-> NoTime]
    /\ incident = [state |-> "NONE", since |-> 0, told |-> NoTime]
    /\ outage = [failed |-> NoTime, told |-> NoTime]

AlertsNext ==
    \/ \E k \in AuditKinds : WriteEvent(k)
    \/ \E n \in DOMAIN log, state \in {"committed", "lost"} : EndEvent(n, state)
    \/ \E r \in BackupRuns : FinishBackup(r)
    \/ SwitchRule \/ Pass
    \/ \E failing, recovered \in BOOLEAN : MonitorTick(failing, recovered)
    \/ MonitorFails
    \/ \E tells \in BOOLEAN : DatabaseFailure(tells)

AlertsSpec == AlertsInit /\ [][AlertsNext]_alertVars

-----------------------------------------------------------------------------
(* The monitor leaves out an audit event for two reasons only: a later one  *)
(* was read before its transaction committed, or nobody looked for fifteen  *)
(* minutes (security_events reads on from the cursor).                      *)
SkippedOnlyIfLate ==
    \A n \in DOMAIN log :
        log[n].state = "committed" /\ n <= cursor
           => log[n].seen \/ log[n].overtaken \/ log[n].at + Keep < now

(* The group is not told the same twice within the cooldown: not of two     *)
(* events of a kind, nor of one incident while it lasts; and of a backup    *)
(* run once (enqueue_admin, incident, backup_events).                       *)
CooldownKept ==
    \A a, b \in alerts :
        a.subject = b.subject /\ a.reference = b.reference /\ a.at < b.at
           => a.subject # "BACKUP" /\ b.at >= a.at + Cooldown
=============================================================================
