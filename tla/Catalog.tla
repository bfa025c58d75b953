------------------------------- MODULE Catalog -------------------------------
(* Master data and its archive (master_data/service.py, status_service.py,   *)
(* archive/service.py, core/deletion.py).  A record is created, switched     *)
(* between ACTIVE and INACTIVE, archived once inactive, then restored or     *)
(* erased.  A deletion loads its rows and checks them without a lock, and    *)
(* archives each in a transaction of its own, locking the row and then its   *)
(* archive entry; a restoration locks the entry and then the row.            *)
EXTENDS FiniteSets, Naturals

CONSTANTS
    Clerks,        \* the requests, each one process at a time
    Records,       \* rows of the reference collections
    PartyRoles,    \* those that are party roles ...
    Parties,       \* ... and business parties
    Alikes,        \* pairs of records with the same unique value
    InitialRecords,\* the records there at the start
    MaxClerking    \* bound on requests

ASSUME CatalogAssumption ==
    /\ PartyRoles \cap Parties = {} /\ PartyRoles \cup Parties \subseteq Records
    /\ Alikes \subseteq Records \X Records /\ InitialRecords \subseteq Records
    /\ MaxClerking \in Nat

VARIABLES
    row,          \* the table: status, and whether deleted_at is set
    entry,        \* archive_records.status by record, NONE before any
    assigned,     \* business_party_roles
    clerk,        \* the requests' steps and what they read
    crossed,      \* history: roles archived while an assignment overlapped
    clerking      \* requests left

catalogVars == <<row, entry, assigned, clerk, crossed, clerking>>

RowStates == {"ABSENT", "LIVE", "DELETED", "ERASED"}
Row == [at : RowStates, status : {"ACTIVE", "INACTIVE"}]
ClerkSteps == {"idle", "save", "status", "inUse", "lockRow", "lockEntry", "takeEntry", "takeRow"}
Asked == [step |-> "idle", op |-> "none", on |-> {}, roles |-> {}, seen |-> {}, holds |-> {}]

CatalogTypeOK ==
    /\ row \in [Records -> Row]
    /\ entry \in [Records -> {"NONE", "ARCHIVED", "RESTORED", "HARD_DELETED"}]
    /\ assigned \subseteq Parties \X PartyRoles
    /\ clerk \in [Clerks -> [step : ClerkSteps, op : {"none", "create", "update", "status", "delete",
                                                     "restore", "erase"},
                             on : SUBSET Records, roles : SUBSET PartyRoles,
                             seen : SUBSET Records, holds : SUBSET (Records \X {"row", "entry"})]]
    /\ crossed \subseteq PartyRoles /\ clerking \in 0..MaxClerking

Exists(r) == row[r].at \in {"LIVE", "DELETED"}
Live(r) == row[r].at = "LIVE"
(* The partial unique index, and the look-up restore_record makes first.    *)
Taken(r) == \E o \in Records : <<r, o>> \in Alikes \cup {<<p[2], p[1]>> : p \in Alikes} /\ Live(o)
InUse(r) == \E p \in Parties : <<p, r>> \in assigned
RowLockFree(c, r) == \A o \in Clerks \ {c} : <<r, "row">> \notin clerk[o].holds
EntryFree(c, r) == \A o \in Clerks \ {c} : <<r, "entry">> \notin clerk[o].holds
One(S) == CHOOSE r \in S : TRUE

ClerkBegins(c, a) ==
    /\ clerk[c].step = "idle" /\ clerking > 0
    /\ clerking' = clerking - 1
    /\ clerk' = [clerk EXCEPT ![c] = a]
ClerkEnds(c) == clerk' = [clerk EXCEPT ![c] = Asked]

-----------------------------------------------------------------------------
(* create_reference and update_reference read the record, and for a party   *)
(* the roles that are not deleted (_sync_business_party_roles).             *)
ReadSave(c, r, roles) ==
    /\ r \notin Parties => roles = {}
    /\ \A x \in roles : Live(x)
    /\ \/ /\ row[r].at = "ABSENT"
          /\ ClerkBegins(c, [Asked EXCEPT !.step = "save", !.op = "create", !.on = {r}, !.roles = roles])
       \/ /\ Live(r) /\ roles # {}
          /\ ClerkBegins(c, [Asked EXCEPT !.step = "save", !.op = "update", !.on = {r}, !.roles = roles])
    /\ UNCHANGED <<row, entry, assigned, crossed>>

(* The commit.  An insertion waits for the locked role rows it refers to;   *)
(* the unique index and the foreign keys refuse what has changed since.     *)
CommitSave(c) ==
    /\ clerk[c].step = "save"
    /\ LET r == One(clerk[c].on)
           roles == clerk[c].roles
           creates == clerk[c].op = "create"
       IN /\ \A x \in roles \cup {r} : RowLockFree(c, x)
          /\ IF (IF creates THEN row[r].at = "ABSENT" /\ ~Taken(r) ELSE Exists(r))
                /\ \A x \in roles : Exists(x)
             THEN /\ \E s \in {"ACTIVE", "INACTIVE"} :
                        row' = IF creates THEN [row EXCEPT ![r] = [at |-> "LIVE", status |-> s]] ELSE row
                  /\ assigned' = {a \in assigned : a[1] # r} \cup {r} \X roles
                  /\ crossed' = crossed \cup {x \in roles : ~Live(x)}
             ELSE UNCHANGED <<row, assigned, crossed>>
    /\ ClerkEnds(c)
    /\ UNCHANGED <<entry, clerking>>

(* change_status reads the status and checks the transition; the applier    *)
(* writes over whatever the row holds by then.                              *)
ReadStatus(c, r) ==
    /\ Live(r)
    /\ ClerkBegins(c, [Asked EXCEPT !.step = "status", !.op = "status", !.on = {r},
                                    !.seen = IF row[r].status = "ACTIVE" THEN {r} ELSE {}])
    /\ UNCHANGED <<row, entry, assigned, crossed>>

CommitStatus(c) ==
    /\ clerk[c].step = "status"
    /\ LET r == One(clerk[c].on)
       IN /\ RowLockFree(c, r)
          /\ row' = IF Exists(r)
                    THEN [row EXCEPT ![r].status = IF r \in clerk[c].seen THEN "INACTIVE" ELSE "ACTIVE"]
                    ELSE row
    /\ ClerkEnds(c)
    /\ UNCHANGED <<entry, assigned, crossed, clerking>>

(* delete_reference loads the rows and refuses an active one.  "seen" keeps *)
(* those it finds already archived.                                         *)
ReadDelete(c, rs) ==
    /\ LET found == {r \in rs : Exists(r)}
       IN /\ found # {}
          /\ \A r \in found : row[r].status # "ACTIVE"
          /\ ClerkBegins(c, [Asked EXCEPT !.step = IF found \subseteq PartyRoles THEN "inUse" ELSE "lockRow",
                                          !.op = "delete", !.on = found,
                                          !.seen = {r \in found : ~Live(r)}])
    /\ UNCHANGED <<row, entry, assigned, crossed>>

(* Mutant: the assignments are not looked at. *)
CheckInUseM(c) ==
    /\ clerk[c].step = "inUse"
    /\ clerk' = [clerk EXCEPT ![c].step = "lockRow", ![c].roles = {r \in clerk[c].on : ~InUse(r)}]
    /\ UNCHANGED <<row, entry, assigned, crossed, clerking>>

(* PARTY_ROLE_IN_USE.  "roles" keeps those found unassigned.                *)
CheckInUse(c) ==
    /\ clerk[c].step = "inUse"
    /\ IF \E r \in clerk[c].on : InUse(r)
       THEN ClerkEnds(c)
       ELSE clerk' = [clerk EXCEPT ![c].step = "lockRow", ![c].roles = clerk[c].on]
    /\ UNCHANGED <<row, entry, assigned, crossed, clerking>>

(* Mutant: a row already archived is archived again. *)
LockRowM(c, r) ==
    /\ clerk[c].step = "lockRow" /\ r \in clerk[c].on
    /\ RowLockFree(c, r)
    /\ IF ~Exists(r)
       THEN ClerkEnds(c)
       ELSE clerk' = [clerk EXCEPT ![c].step = "lockEntry", ![c].holds = {<<r, "row">>}]
    /\ UNCHANGED <<row, entry, assigned, crossed, clerking>>

(* archive_record locks the row.  The loaded object is not refreshed, so    *)
(* the check on deleted_at is of what the deletion had read.                *)
LockRow(c, r) ==
    /\ clerk[c].step = "lockRow" /\ r \in clerk[c].on
    /\ RowLockFree(c, r)
    /\ IF ~Exists(r) \/ r \in clerk[c].seen
       THEN ClerkEnds(c)
       ELSE clerk' = [clerk EXCEPT ![c].step = "lockEntry", ![c].holds = {<<r, "row">>}]
    /\ UNCHANGED <<row, entry, assigned, crossed, clerking>>

(* Then the entry, which it writes and commits with the row's deleted_at.   *)
Archive(c) ==
    /\ clerk[c].step = "lockEntry"
    /\ LET r == One({l[1] : l \in clerk[c].holds})
           left == clerk[c].on \ {r}
       IN /\ EntryFree(c, r)
          /\ row' = [row EXCEPT ![r].at = "DELETED"]
          /\ entry' = [entry EXCEPT ![r] = "ARCHIVED"]
          /\ crossed' = IF InUse(r) /\ r \in clerk[c].roles THEN crossed \cup {r} ELSE crossed
          /\ clerk' = [clerk EXCEPT ![c] = IF left = {} THEN Asked
                           ELSE [@ EXCEPT !.step = "lockRow", !.on = left, !.holds = {}]]
    /\ UNCHANGED <<assigned, clerking>>

(* restore_record and hard_delete_record lock the entry, which must be      *)
(* ARCHIVED ...                                                             *)
AskArchive(c, r, op) ==
    /\ entry[r] # "NONE"
    /\ ClerkBegins(c, [Asked EXCEPT !.step = "takeEntry", !.op = op, !.on = {r}])
    /\ UNCHANGED <<row, entry, assigned, crossed>>

TakeEntry(c) ==
    /\ clerk[c].step = "takeEntry"
    /\ LET r == One(clerk[c].on)
       IN /\ EntryFree(c, r)
          /\ IF entry[r] = "ARCHIVED"
             THEN clerk' = [clerk EXCEPT ![c].step = "takeRow", ![c].holds = {<<r, "entry">>}]
             ELSE ClerkEnds(c)
    /\ UNCHANGED <<row, entry, assigned, crossed, clerking>>

(* ... and then the row.  A restoration refuses a unique value in use.      *)
Restore(c) ==
    /\ clerk[c].step = "takeRow" /\ clerk[c].op = "restore"
    /\ LET r == One(clerk[c].on)
       IN /\ RowLockFree(c, r)
          /\ IF row[r].at = "DELETED" /\ ~Taken(r)
             THEN row' = [row EXCEPT ![r].at = "LIVE"] /\ entry' = [entry EXCEPT ![r] = "RESTORED"]
             ELSE UNCHANGED <<row, entry>>
    /\ ClerkEnds(c)
    /\ UNCHANGED <<assigned, crossed, clerking>>

(* dependent_references: the rows of other tables that point at this one.   *)
Dependents(r) == {a \in assigned : r \in {a[1], a[2]}}

(* Mutant: the failed erasure keeps the status it gave the entry. *)
EraseM(c) ==
    /\ clerk[c].step = "takeRow" /\ clerk[c].op = "erase"
    /\ LET r == One(clerk[c].on)
       IN /\ RowLockFree(c, r)
          /\ entry' = IF Exists(r) THEN [entry EXCEPT ![r] = "HARD_DELETED"] ELSE entry
          /\ row' = IF Exists(r) /\ Dependents(r) = {} THEN [row EXCEPT ![r].at = "ERASED"] ELSE row
    /\ ClerkEnds(c)
    /\ UNCHANGED <<assigned, crossed, clerking>>

(* A permanent deletion refuses a row something still refers to; a          *)
(* reference inserted since fails the commit, which is rolled back.         *)
Erase(c) ==
    /\ clerk[c].step = "takeRow" /\ clerk[c].op = "erase"
    /\ LET r == One(clerk[c].on)
       IN /\ RowLockFree(c, r)
          /\ IF Exists(r) /\ Dependents(r) = {}
             THEN row' = [row EXCEPT ![r].at = "ERASED"] /\ entry' = [entry EXCEPT ![r] = "HARD_DELETED"]
             ELSE UNCHANGED <<row, entry>>
    /\ ClerkEnds(c)
    /\ UNCHANGED <<assigned, crossed, clerking>>

(* Two requests that hold what the other waits for; PostgreSQL aborts one.  *)
WaitsFor(c) ==
    CASE clerk[c].step = "lockEntry" -> {<<l[1], "entry">> : l \in clerk[c].holds}
      [] clerk[c].step = "takeRow" -> {<<r, "row">> : r \in clerk[c].on}
      [] OTHER -> {}
Circular(c, o) ==
    /\ c # o
    /\ WaitsFor(c) \cap clerk[o].holds # {} /\ WaitsFor(o) \cap clerk[c].holds # {}
DeadlockVictim(c) ==
    /\ \E o \in Clerks : Circular(c, o)
    /\ ClerkEnds(c)
    /\ UNCHANGED <<row, entry, assigned, crossed, clerking>>

-----------------------------------------------------------------------------
CatalogInit ==
    /\ row = [r \in Records |-> [at |-> IF r \in InitialRecords THEN "LIVE" ELSE "ABSENT",
                                 status |-> "INACTIVE"]]
    /\ entry = [r \in Records |-> "NONE"]
    /\ assigned = {}
    /\ clerk = [c \in Clerks |-> Asked]
    /\ crossed = {}
    /\ clerking = MaxClerking

CatalogNext ==
    \E c \in Clerks :
       \/ \E r \in Records :
             \/ \E roles \in SUBSET PartyRoles : ReadSave(c, r, roles)
             \/ ReadStatus(c, r) \/ LockRow(c, r)
             \/ \E op \in {"restore", "erase"} : AskArchive(c, r, op)
       \/ \E rs \in {PartyRoles} \cup {{r} : r \in Records} : ReadDelete(c, rs)
       \/ CommitSave(c) \/ CommitStatus(c) \/ CheckInUse(c) \/ Archive(c)
       \/ TakeEntry(c) \/ Restore(c) \/ Erase(c) \/ DeadlockVictim(c)

CatalogSpec == CatalogInit /\ [][CatalogNext]_catalogVars

-----------------------------------------------------------------------------
(* The archive tells the truth about the row: its entry is ARCHIVED exactly *)
(* while deleted_at is set, HARD_DELETED exactly when the row is gone, and  *)
(* a live row has none or a RESTORED one.  archive_record, restore_record   *)
(* and hard_delete_record each write both under their locks.                *)
ArchiveMatchesRow ==
    \A r \in Records :
       /\ entry[r] = "ARCHIVED" <=> row[r].at = "DELETED"
       /\ entry[r] = "HARD_DELETED" <=> row[r].at = "ERASED"

(* A role some party holds is not archived (PARTY_ROLE_IN_USE), unless the  *)
(* assignment and the deletion overlapped: both check without a lock.       *)
AssignedRolesLive ==
    \A a \in assigned : row[a[2]].at # "ERASED" /\ (row[a[2]].at = "DELETED" => a[2] \in crossed)

(* Archiving takes the row before the entry and restoring the entry before  *)
(* the row, yet they wait for each other only when the deletion had read    *)
(* the row before another deletion archived it.                             *)
CircularWaitsNeedTwoDeletions ==
    \A c, o \in Clerks :
       Circular(c, o) /\ clerk[c].op = "delete" =>
          \A l \in clerk[c].holds : row[l[1]].at = "DELETED" /\ l[1] \notin clerk[c].seen

(* Archiving, restoring and erasing agree with each other on a row, its     *)
(* entry and the roles that name it, and seldom wait in a circle.           *)
ArchivesAgree == ArchiveMatchesRow /\ AssignedRolesLive /\ CircularWaitsNeedTwoDeletions
=============================================================================
