---------------------------- MODULE ConfigVersions ----------------------------
(* Publication of the dynamic Service Order configuration                    *)
(* (master_data/config_versions.py).  Tabs, groups and attributes are edited *)
(* in place; publishing freezes them as a numbered version, one of which is  *)
(* in force and stamped on the live tabs.  The snapshot is read by several   *)
(* SELECTs before the publication lock is taken, so edits and other          *)
(* publications fall between the reads and the commit.                       *)
EXTENDS Integers, FiniteSets

CONSTANTS
    Publishers,       \* the requests, each one process at a time
    Selects,          \* the SELECTs of live_snapshot, in order
    Contents,         \* what one SELECT may find
    Empty,            \* what the first finds when no tab is active
    MaxVersions,      \* bound on version numbers
    MaxConfigEdits,   \* bound on edits of the live configuration
    MaxPublishing,    \* bound on requests
    NoPublisher

ASSUME ConfigAssumption ==
    /\ Selects \in Nat \ {0} /\ MaxVersions \in Nat
    /\ MaxConfigEdits \in Nat /\ MaxPublishing \in Nat
    /\ Empty \in Contents /\ NoPublisher \notin Publishers

Nos == 1..MaxVersions
Snapshots == [1..Selects -> Contents]

VARIABLES
    live,          \* the rows of tabs, groups and attributes, as the SELECTs see them
    versions,      \* the rows of configuration_versions, by version_no
    stamp,         \* config_version_id of the live tabs, 0 before any
    publishLock,   \* the holder of pg_advisory_xact_lock(PUBLISH_LOCK_KEY)
    pub,           \* the publishers' steps and what they read
    clashed,       \* history: the unique indexes refused a publication
    overrun,       \* history: versions retired by a request that read an older status
    configBudget   \* edits and requests left

configVars ==
    <<live, versions, stamp, publishLock, pub, clashed, overrun, configBudget>>

Absent == [status |-> "ABSENT", snap |-> [s \in 1..Selects |-> Empty], source |-> 0]
Statuses == {"ABSENT", "DRAFT", "PUBLISHED", "RETIRED"}
PubSteps == {"idle", "reading", "check", "lock", "again", "write", "retire"}
Idle == [step |-> "idle", op |-> "none", no |-> 0,
         snap |-> [s \in 1..Selects |-> Empty], done |-> 0, seen |-> "ABSENT"]

ConfigTypeOK ==
    /\ live \in Snapshots
    /\ versions \in [Nos -> [status : Statuses, snap : Snapshots, source : 0..MaxVersions]]
    /\ stamp \in 0..MaxVersions
    /\ publishLock \in Publishers \cup {NoPublisher}
    /\ pub \in [Publishers -> [step : PubSteps, op : {"none", "publish", "activate", "rollback", "retire"},
                               no : 0..MaxVersions, snap : Snapshots, done : 0..Selects, seen : Statuses]]
    /\ clashed \in BOOLEAN /\ overrun \subseteq Nos
    /\ configBudget \in [edits : 0..MaxConfigEdits, requests : 0..MaxPublishing]

VersionRows == {n \in Nos : versions[n].status # "ABSENT"}
Published == {n \in Nos : versions[n].status = "PUBLISHED"}
(* What _published_version returns: the row in force, 0 when there is none. *)
InForce == IF Published = {} THEN 0 ELSE CHOOSE n \in Published : TRUE
NextNo == 1 + (IF VersionRows = {} THEN 0 ELSE CHOOSE n \in VersionRows : \A o \in VersionRows : o <= n)

Begin(p, op, n, step, seen) ==
    /\ pub[p].step = "idle" /\ configBudget.requests > 0
    /\ configBudget' = [configBudget EXCEPT !.requests = @ - 1]
    /\ pub' = [pub EXCEPT ![p] = [Idle EXCEPT !.op = op, !.no = n, !.step = step, !.seen = seen]]
To(p, step) == pub' = [pub EXCEPT ![p].step = step]
(* The transaction ends, by commit or by rollback, and its lock with it.    *)
Finish(p) ==
    /\ pub' = [pub EXCEPT ![p] = Idle]
    /\ publishLock' = IF publishLock = p THEN NoPublisher ELSE publishLock

-----------------------------------------------------------------------------
(* An administrator changes rows that one of the SELECTs reads.             *)
EditLive ==
    /\ configBudget.edits > 0
    /\ configBudget' = [configBudget EXCEPT !.edits = @ - 1]
    /\ \E s \in 1..Selects, c \in Contents :
          /\ c # live[s] /\ (c = Empty => s = 1)
          /\ live' = [live EXCEPT ![s] = c]
    /\ UNCHANGED <<versions, stamp, publishLock, pub, clashed, overrun>>

StartPublish(p) ==
    /\ Begin(p, "publish", 0, "reading", "ABSENT")
    /\ UNCHANGED <<live, versions, stamp, publishLock, clashed, overrun>>

(* live_snapshot, one SELECT at a time.                                     *)
ReadPart(p) ==
    /\ pub[p].step = "reading"
    /\ LET s == pub[p].done + 1
       IN pub' = [pub EXCEPT ![p].snap[s] = live[s], ![p].done = s,
                             ![p].step = IF s = Selects THEN "check" ELSE "reading"]
    /\ UNCHANGED <<live, versions, stamp, publishLock, clashed, overrun, configBudget>>

Publishable(snap) == snap[1] # Empty
Unchanged(p) == InForce # 0 /\ versions[InForce].snap = pub[p].snap

(* validate_snapshot and the comparison with the version in force.          *)
CheckSnapshot(p) ==
    /\ pub[p].step = "check"
    /\ IF Publishable(pub[p].snap) /\ ~Unchanged(p)
       THEN To(p, "lock") /\ UNCHANGED publishLock
       ELSE Finish(p)
    /\ UNCHANGED <<live, versions, stamp, clashed, overrun, configBudget>>

(* Mutant: publications are not serialised. *)
TakePublishLockM(p) ==
    /\ pub[p].step = "lock"
    /\ To(p, IF pub[p].op = "publish" THEN "again" ELSE "write")
    /\ UNCHANGED <<live, versions, stamp, publishLock, clashed, overrun, configBudget>>

TakePublishLock(p) ==
    /\ pub[p].step = "lock" /\ publishLock = NoPublisher
    /\ publishLock' = p
    /\ To(p, IF pub[p].op = "publish" THEN "again" ELSE "write")
    /\ UNCHANGED <<live, versions, stamp, clashed, overrun, configBudget>>

(* Mutant: the comparison before the lock is trusted. *)
CheckAgainM(p) ==
    /\ pub[p].step = "again"
    /\ pub' = [pub EXCEPT ![p].step = "write", ![p].no = InForce]
    /\ UNCHANGED <<live, versions, stamp, publishLock, clashed, overrun, configBudget>>

(* publish, once it holds the lock, reads the version in force again.       *)
CheckAgain(p) ==
    /\ pub[p].step = "again"
    /\ IF Unchanged(p)
       THEN Finish(p)
       ELSE /\ pub' = [pub EXCEPT ![p].step = "write", ![p].no = InForce]
            /\ UNCHANGED publishLock
    /\ UNCHANGED <<live, versions, stamp, clashed, overrun, configBudget>>

(* The version that was in force is retired and a new one inserted; the     *)
(* unique indexes refuse a second one in force.  publish retires the one it *)
(* read under the lock, rollback the one it locks now.                      *)
Replace(p, old, snap, source) ==
    LET rest == Published \ {old}
    IN /\ NextNo \in Nos
       /\ IF rest # {}
          THEN clashed' = TRUE /\ UNCHANGED <<versions, stamp>>
          ELSE /\ versions' = [n \in Nos |->
                     IF n = NextNo THEN [status |-> "PUBLISHED", snap |-> snap, source |-> source]
                     ELSE IF n = old THEN [versions[n] EXCEPT !.status = "RETIRED"]
                     ELSE versions[n]]
               /\ stamp' = NextNo
               /\ UNCHANGED clashed
       /\ Finish(p)

CommitPublish(p) ==
    /\ pub[p].step = "write" /\ pub[p].op = "publish"
    /\ Replace(p, pub[p].no, pub[p].snap, 0)
    /\ UNCHANGED <<live, overrun, configBudget>>

StartChange(p, op, n) ==
    /\ versions[n].status # "ABSENT"
    /\ Begin(p, op, n, "lock", "ABSENT")
    /\ UNCHANGED <<live, versions, stamp, publishLock, clashed, overrun>>

Activatable(n) == versions[n].status \in {"PUBLISHED", "RETIRED"} /\ Publishable(versions[n].snap)

Activate(p) ==
    /\ pub[p].step = "write" /\ pub[p].op = "activate"
    /\ LET n == pub[p].no
       IN IF Activatable(n) /\ n # InForce
          THEN /\ versions' = [o \in Nos |->
                     IF o = n THEN [versions[o] EXCEPT !.status = "PUBLISHED"]
                     ELSE IF o = InForce THEN [versions[o] EXCEPT !.status = "RETIRED"]
                     ELSE versions[o]]
               /\ stamp' = n
          ELSE UNCHANGED <<versions, stamp>>
    /\ Finish(p)
    /\ UNCHANGED <<live, clashed, overrun, configBudget>>

Rollback(p) ==
    /\ pub[p].step = "write" /\ pub[p].op = "rollback"
    /\ LET n == pub[p].no
       IN IF Activatable(n) /\ n # InForce
          THEN Replace(p, InForce, versions[n].snap, n)
          ELSE Finish(p) /\ UNCHANGED <<versions, stamp, clashed>>
    /\ UNCHANGED <<live, overrun, configBudget>>

(* Mutant: the version in force may be retired. *)
StartRetireM(p, n) ==
    /\ versions[n].status \in {"DRAFT", "PUBLISHED"}
    /\ Begin(p, "retire", n, "retire", versions[n].status)
    /\ UNCHANGED <<live, versions, stamp, publishLock, clashed, overrun>>

(* retire reads the row without a lock and refuses the one in force.        *)
StartRetire(p, n) ==
    /\ versions[n].status = "DRAFT"
    /\ Begin(p, "retire", n, "retire", versions[n].status)
    /\ UNCHANGED <<live, versions, stamp, publishLock, clashed, overrun>>

(* The commit of retire: the row may have been retired and activated since, *)
(* and a row deleted since fails the flush.                                 *)
CommitRetire(p) ==
    /\ pub[p].step = "retire"
    /\ LET n == pub[p].no
       IN IF versions[n].status = "ABSENT"
          THEN UNCHANGED <<versions, overrun>>
          ELSE /\ versions' = [versions EXCEPT ![n].status = "RETIRED"]
               /\ overrun' = IF versions[n].status = pub[p].seen
                             THEN overrun ELSE overrun \cup {n}
    /\ Finish(p)
    /\ UNCHANGED <<live, stamp, clashed, configBudget>>

(* delete_draft locks the row, and refuses a draft some version copies or   *)
(* the live tabs carry.                                                     *)
DeleteDraft(n) ==
    /\ configBudget.requests > 0
    /\ configBudget' = [configBudget EXCEPT !.requests = @ - 1]
    /\ versions[n].status = "DRAFT"
    /\ stamp # n /\ \A o \in Nos : versions[o].source # n
    /\ versions' = [versions EXCEPT ![n] = Absent]
    /\ UNCHANGED <<live, stamp, publishLock, pub, clashed, overrun>>

-----------------------------------------------------------------------------
(* A table that holds at most one draft.                                    *)
ConfigInit ==
    /\ live \in {l \in Snapshots : \A s \in 2..Selects : l[s] # Empty}
    /\ \E first \in {Absent, [Absent EXCEPT !.status = "DRAFT", !.snap = live]} :
          versions = [n \in Nos |-> IF n = 1 THEN first ELSE Absent]
    /\ stamp = 0
    /\ publishLock = NoPublisher
    /\ pub = [p \in Publishers |-> Idle]
    /\ clashed = FALSE /\ overrun = {}
    /\ configBudget = [edits |-> MaxConfigEdits, requests |-> MaxPublishing]

ConfigNext ==
    \/ EditLive
    \/ \E n \in Nos : DeleteDraft(n)
    \/ \E p \in Publishers :
          \/ StartPublish(p) \/ ReadPart(p) \/ CheckSnapshot(p)
          \/ TakePublishLock(p) \/ CheckAgain(p) \/ CommitPublish(p)
          \/ Activate(p) \/ Rollback(p) \/ CommitRetire(p)
          \/ \E n \in Nos :
                \/ \E op \in {"activate", "rollback"} : StartChange(p, op, n)
                \/ StartRetire(p, n)

ConfigSpec == ConfigInit /\ [][ConfigNext]_configVars

-----------------------------------------------------------------------------
(* The advisory lock serialises publish, activate and rollback, so that the *)
(* unique indexes never refuse a publication as CONFIGURATION_PUBLISH_      *)
(* CONFLICT.                                                                *)
LockLeavesNoConflict == ~clashed

(* The version the live tabs are stamped with is the one in force: none of  *)
(* publish, activate, rollback, retire and delete_draft leaves the system   *)
(* without a published version, unless a retirement that had read a draft   *)
(* commits after that version was activated.                                *)
StampedIsInForce ==
    stamp # 0 => versions[stamp].status = "PUBLISHED" \/ stamp \in overrun

(* No publication repeats the version it replaces: publish compares again   *)
(* under the lock what it compared before it.                               *)
NoIdlePublication ==
    [][\A n \in Nos :
          stamp' = n /\ n \notin VersionRows /\ versions'[n].source = 0 /\ InForce # 0
              => versions'[n].snap # versions[InForce].snap]_configVars
=============================================================================
