------------------------------ MODULE Backups ------------------------------
(* Backup runs to the spreadsheet (backup/service.py, backup/scheduler.py): *)
(* each replica runs one at a time, and different replicas may overlap.  A  *)
(* run sends again what earlier runs stored and could not send; then, table *)
(* by table, it compares a row with the hash in backup_states, stores a     *)
(* changed row in backup_records and appends it to the table's sheet; at    *)
(* its end it uploads the newest record of every row.  A restore writes the *)
(* newest versions of the sheet back into the tables.                       *)
(* A table stands for one of its rows; the order of the tables is fixed.    *)
EXTENDS Naturals, Sequences

CONSTANTS
    Replicas,   \* processes that run backups
    Tables,     \* the tables in dependency order
    Hashes,     \* hashes of a row's contents
    NoHash,     \* no backup_states row
    MaxRowEdits,\* bound on changes of the rows
    MaxRuns,    \* bound on runs
    CallRetries,\* how often the client repeats a call that failed
    MaxCalls,   \* bound on calls to Google that fail
    MaxRestores \* bound on restores

ASSUME BackupsAssumption ==
    /\ Tables \in Seq(STRING) /\ NoHash \notin Hashes
    /\ {MaxRowEdits, MaxRuns, CallRetries, MaxCalls, MaxRestores} \subseteq Nat

VARIABLES
    contents, \* each table's row: its hash
    known,    \* backup_states.row_hash
    records,  \* backup_records: table and hash, which are unique
    synced,   \* the records marked synced
    recordVersion, \* backup_records.backup_version; 0 where there is no record
    sheet,    \* how often the table's sheet has the row of a hash
    echoed,   \* how often a repeated call brought the row again (history)
    backup,     \* each replica's run
    bucket,   \* the last snapshot in R2: what it has of every table's row
    restore,  \* the restore under way: the next table and what the sheet has of it
    spent,    \* row edits, runs, failed calls and restores so far
    overlapped\* whether two runs were ever under way at once (history)

stored == <<known, records, recordVersion>>
backupVars == <<contents, stored, synced, sheet, echoed, bucket, backup, restore, spent,
                overlapped>>

Names == {Tables[i] : i \in DOMAIN Tables}
RowVersions == Names \X Hashes
(* "owed" is what the run has to bring to the sheet: the records stored     *)
(* before it began, and its own (history).  "landed": the rows of the call  *)
(* under way have arrived, though the client does not know.                 *)
NoJob == [step |-> "none", table |-> 1, was |-> NoHash, row |-> NoHash, batch |-> {},
          title |-> "", there |-> {}, tries |-> 0, landed |-> FALSE, failed |-> FALSE,
          status |-> "none", owed |-> {}]

BackupsTypeOK ==
    /\ contents \in [Names -> Hashes] /\ known \in [Names -> Hashes \cup {NoHash}]
    /\ records \subseteq RowVersions /\ synced \subseteq records
    /\ sheet \in [RowVersions -> Nat] /\ echoed \in [RowVersions -> Nat] /\ overlapped \in BOOLEAN
    /\ spent \in [edits : 0..MaxRowEdits, runs : 0..MaxRuns, calls : 0..MaxCalls,
                 restores : 0..MaxRestores]
    /\ recordVersion \in [RowVersions -> 0..(MaxRowEdits + MaxRestores + 1)]
    /\ bucket \in [Names -> Hashes \cup {NoHash}]
    /\ restore \in [table : 0..Len(Tables), row : Hashes \cup {NoHash}]
    /\ \A r \in Replicas :
         /\ backup[r].step \in {"none", "flush", "table", "store", "sync",
                               "append", "mark", "stuck"}
         /\ backup[r].table \in 1..(Len(Tables) + 1)
         /\ backup[r].batch \subseteq RowVersions /\ backup[r].there \subseteq Hashes
         /\ backup[r].tries \in 0..CallRetries /\ backup[r].landed \in BOOLEAN
         /\ backup[r].owed \subseteq RowVersions
         /\ backup[r].status \in {"none", "running", "success", "partial", "failed"}

Job(r, job) == backup' = [backup EXCEPT ![r] = job]
OfTitle(r) == {b \in backup[r].batch : b[1] = backup[r].title}

-----------------------------------------------------------------------------
(* A row changes; it may return to an earlier value, which a table without  *)
(* updated_at hashes alike.                                                 *)
EditRow(t) ==
    /\ spent.edits < MaxRowEdits
    /\ \E h \in Hashes \ {contents[t]} : contents' = [contents EXCEPT ![t] = h]
    /\ spent' = [spent EXCEPT !.edits = @ + 1]
    /\ UNCHANGED <<stored, synced, sheet, echoed, bucket, backup, restore, overlapped>>

(* start_backup and run_now: refused while this process has a run.  The     *)
(* scheduler's advisory lock keeps scheduled runs apart, not the manual.    *)
StartRun(r) ==
    /\ backup[r].step = "none" /\ spent.runs < MaxRuns
    /\ Job(r, [NoJob EXCEPT !.step = "flush", !.status = "running", !.owed = records])
    /\ spent' = [spent EXCEPT !.runs = @ + 1]
    /\ overlapped' = (overlapped \/ \E s \in Replicas \ {r} : backup[s].step # "none")
    /\ UNCHANGED <<contents, stored, synced, sheet, echoed, bucket, restore>>

(* A batch is synced title by title; then the run goes on.                  *)
Rest(r, batch) == [backup[r] EXCEPT !.batch = batch, !.title = "", !.there = {},
                                  !.tries = 0, !.landed = FALSE,
                                  !.step = IF batch = {} THEN "table" ELSE "sync"]

(* _flush_unsynced.                                                         *)
FlushUnsynced(r) ==
    /\ backup[r].step = "flush"
    /\ Job(r, Rest(r, records \ synced))
    /\ UNCHANGED <<contents, stored, synced, sheet, echoed, bucket, restore, spent, overlapped>>

(* Mutant: what the sheet has is not looked at. *)
NoHashes(t) == {}

ExistingHashes(t) == {h \in Hashes : sheet[<<t, h>>] > 0}

(* _sync_records: the sheet is read; rows it does not have are appended;    *)
(* and the records, appended or found there, are marked.                    *)
ReadSheet(r) ==
    /\ backup[r].step = "sync"
    /\ \E b \in backup[r].batch :
          Job(r, [backup[r] EXCEPT !.step = "append", !.title = b[1],
                                   !.there = ExistingHashes(b[1])])
    /\ UNCHANGED <<contents, stored, synced, sheet, echoed, bucket, restore, spent, overlapped>>
Missing(r) == {b \in OfTitle(r) : b[2] \notin backup[r].there}
Appended(r) == [b \in RowVersions |-> IF b \in Missing(r) THEN sheet[b] + 1 ELSE sheet[b]]
Echoed(r) == [b \in RowVersions |->
    IF b \in Missing(r) /\ backup[r].landed THEN echoed[b] + 1 ELSE echoed[b]]
(* The call's rows arrive at the sheet, or do not.                          *)
Arrive(r, arrived) == IF arrived THEN sheet' = Appended(r) /\ echoed' = Echoed(r)
                                 ELSE UNCHANGED <<sheet, echoed>>
AppendRows(r) ==
    /\ backup[r].step = "append" /\ Arrive(r, TRUE)
    /\ Job(r, [backup[r] EXCEPT !.step = "mark"])
    /\ UNCHANGED <<contents, stored, synced, bucket, restore, spent, overlapped>>
(* The client's _run: a call that timed out or was answered 429 or 5xx is   *)
(* repeated as it is, whether its rows arrived or not.                      *)
TryAgain(r) ==
    /\ backup[r].step = "append" /\ Missing(r) # {}
    /\ backup[r].tries < CallRetries /\ spent.calls < MaxCalls
    /\ spent' = [spent EXCEPT !.calls = @ + 1]
    /\ \E arrived \in BOOLEAN :
          /\ Arrive(r, arrived)
          /\ Job(r, [backup[r] EXCEPT !.tries = @ + 1, !.landed = @ \/ arrived])
    /\ UNCHANGED <<contents, stored, synced, bucket, restore, overlapped>>
MarkSynced(r) ==
    /\ backup[r].step = "mark"
    /\ synced' = synced \cup OfTitle(r)
    /\ Job(r, Rest(r, backup[r].batch \ OfTitle(r)))
    /\ UNCHANGED <<contents, stored, sheet, echoed, bucket, restore, spent, overlapped>>

GivesUp(r) == [Rest(r, backup[r].batch \ OfTitle(r)) EXCEPT !.failed = TRUE]

(* The last try of a call fails, or a try in a way that is not repeated,    *)
(* before or after the rows arrived: rows_failed counts the batch, whose    *)
(* records stay unsynced.                                                   *)
CallFails(r) ==
    /\ backup[r].step = "append" /\ spent.calls < MaxCalls
    /\ spent' = [spent EXCEPT !.calls = @ + 1]
    /\ \E arrived \in BOOLEAN : Arrive(r, arrived)
    /\ Job(r, GivesUp(r))
    /\ UNCHANGED <<contents, stored, synced, bucket, restore, overlapped>>

-----------------------------------------------------------------------------
(* _process_table reads the state and the row ...                           *)
ScanTable(r) ==
    /\ backup[r].step = "table" /\ backup[r].table \in DOMAIN Tables
    /\ LET t == Tables[backup[r].table] IN
       Job(r, IF known[t] = contents[t]
                THEN [backup[r] EXCEPT !.table = @ + 1]
                ELSE [backup[r] EXCEPT !.step = "store", !.was = known[t], !.row = contents[t]])
    /\ UNCHANGED <<contents, stored, synced, sheet, echoed, bucket, restore, spent, overlapped>>

NextVersion(t, was) == IF was = NoHash THEN 1 ELSE recordVersion[<<t, was>>] + 1

(* ... and commits the new record and the state, which are then synced.     *)
(* What is there already fails the commit and leaves the session unusable:  *)
(* the run ends without a word and its row says "running".                  *)
StoreRecord(r) ==
    /\ backup[r].step = "store"
    /\ LET t == Tables[backup[r].table]
           record == <<t, backup[r].row>> IN
       IF record \in records \/ (backup[r].was = NoHash /\ known[t] # NoHash)
         THEN /\ Job(r, [backup[r] EXCEPT !.step = "stuck"])
              /\ UNCHANGED stored
         ELSE /\ records' = records \cup {record}
              /\ known' = [known EXCEPT ![t] = backup[r].row]
              /\ recordVersion' = [recordVersion EXCEPT ![record] = NextVersion(t, backup[r].was)]
              /\ Job(r, [backup[r] EXCEPT !.step = "sync", !.table = @ + 1, !.was = NoHash,
                            !.row = NoHash, !.batch = {record}, !.owed = @ \cup {record}])
    /\ UNCHANGED <<contents, synced, sheet, echoed, bucket, restore, spent, overlapped>>

(* The newest among some records of a table, by version; of two that have   *)
(* the same version either may count.                                       *)
Newest(set, t) ==
    LET own == {b \in set : b[1] = t}
    IN {b[2] : b \in {c \in own : \A d \in own : recordVersion[d] <= recordVersion[c]}}
(* _upload_r2_snapshot; and the end of the run.                             *)
UploadSnapshot(r) ==
    /\ backup[r].step = "table" /\ backup[r].table \notin DOMAIN Tables
    /\ \E snapshot \in [Names -> Hashes \cup {NoHash}] :
          /\ \A t \in Names : IF Newest(records, t) = {} THEN snapshot[t] = NoHash
                              ELSE snapshot[t] \in Newest(records, t)
          /\ bucket' = snapshot
    /\ Job(r, [NoJob EXCEPT !.owed = backup[r].owed,
                            !.status = IF backup[r].failed THEN "partial" ELSE "success"])
    /\ UNCHANGED <<contents, stored, synced, sheet, echoed, restore, spent, overlapped>>
UploadFails(r) ==
    /\ backup[r].step = "table" /\ backup[r].table \notin DOMAIN Tables
    /\ spent.calls < MaxCalls /\ spent' = [spent EXCEPT !.calls = @ + 1]
    /\ Job(r, [NoJob EXCEPT !.status = "failed"])
    /\ UNCHANGED <<contents, stored, synced, sheet, echoed, bucket, restore, overlapped>>
(* The process dies, or a run on an unusable session ends.                  *)
RunDies(r) ==
    /\ backup[r].step # "none"
    /\ Job(r, [NoJob EXCEPT !.status = "running"])
    /\ UNCHANGED <<contents, stored, synced, sheet, echoed, bucket, restore, spent, overlapped>>

-----------------------------------------------------------------------------
(* restore_from_sheets, table by table: the sheet is read, ...              *)
StartRestore ==
    /\ restore.table = 0 /\ spent.restores < MaxRestores
    /\ restore' = [restore EXCEPT !.table = 1]
    /\ spent' = [spent EXCEPT !.restores = @ + 1]
    /\ UNCHANGED <<contents, stored, synced, sheet, echoed, bucket, backup, overlapped>>
InSheet == {b \in RowVersions : sheet[b] > 0}
NextTable == IF restore.table < Len(Tables) THEN restore.table + 1 ELSE 0
ReadForRestore ==
    /\ restore.table # 0 /\ restore.row = NoHash
    /\ LET newest == Newest(InSheet, Tables[restore.table]) IN
       \/ newest = {} /\ restore' = [restore EXCEPT !.table = NextTable]
       \/ \E h \in newest : restore' = [restore EXCEPT !.row = h]
    /\ UNCHANGED <<contents, stored, synced, sheet, echoed, bucket, backup, spent, overlapped>>
(* ... and the row written and committed, or the restore ends there, with   *)
(* the tables before it restored.                                           *)
RestoreTable ==
    /\ restore.row # NoHash
    /\ contents' = [contents EXCEPT ![Tables[restore.table]] = restore.row]
    /\ restore' = [table |-> NextTable, row |-> NoHash]
    /\ UNCHANGED <<stored, synced, sheet, echoed, bucket, backup, spent, overlapped>>
RestoreFails ==
    /\ restore.row # NoHash /\ restore' = [table |-> 0, row |-> NoHash]
    /\ UNCHANGED <<contents, stored, synced, sheet, echoed, bucket, backup, spent, overlapped>>

BackupsInit ==
    /\ contents \in [Names -> Hashes] /\ known = [t \in Names |-> NoHash]
    /\ records = {} /\ synced = {} /\ recordVersion = [b \in RowVersions |-> 0]
    /\ sheet = [b \in RowVersions |-> 0] /\ echoed = sheet /\ bucket = [t \in Names |-> NoHash]
    /\ backup = [r \in Replicas |-> NoJob] /\ overlapped = FALSE
    /\ restore = [table |-> 0, row |-> NoHash]
    /\ spent = [edits |-> 0, runs |-> 0, calls |-> 0, restores |-> 0]

BackupsNext ==
    \/ \E t \in Names : EditRow(t)
    \/ \E r \in Replicas :
          \/ StartRun(r) \/ FlushUnsynced(r) \/ ReadSheet(r) \/ AppendRows(r) \/ MarkSynced(r)
          \/ TryAgain(r) \/ CallFails(r) \/ ScanTable(r) \/ StoreRecord(r) \/ UploadSnapshot(r)
          \/ UploadFails(r) \/ RunDies(r)
    \/ StartRestore \/ ReadForRestore \/ RestoreTable \/ RestoreFails

BackupsSpec == BackupsInit /\ [][BackupsNext]_backupVars

-----------------------------------------------------------------------------
(* "De-duplication against the hashes already present in the worksheet":    *)
(* through failed calls, crashes and later runs, the sheet has a row when   *)
(* its record says synced, and has it once, but for the times that the      *)
(* client repeated, within one call, an append whose rows had arrived; as   *)
(* long as no two replicas' runs overlap.                                   *)
SheetHoldsRowsOnce ==
    /\ \A b \in synced : sheet[b] > 0
    /\ ~overlapped => \A b \in RowVersions : sheet[b] <= 1 + echoed[b]

(* A run that reports success has brought to the sheet all that any earlier *)
(* run had stored and not sent, and all that it stored itself.              *)
SuccessMeansInSheet ==
    \A r \in Replicas : backup[r].status = "success" => \A b \in backup[r].owed : sheet[b] > 0

(* "latest-record snapshot", and restore's "latest": what a restore would   *)
(* bring back of a row is what the last run to store it stored, once that   *)
(* has reached the sheet, though retries append older versions after it;    *)
(* and no record is newer than what backup_states knows; as long as no two  *)
(* runs overlap.                                                            *)
NewestIsKnown ==
    ~overlapped =>
        \A t \in Names :
            /\ records \cap ({t} \X Hashes) # {} => Newest(records, t) = {known[t]}
            /\ <<t, known[t]>> \in InSheet => Newest(InSheet, t) = {known[t]}

(* The sheet has what the runs stored, as their status says, once but for   *)
(* repeated calls, and gives back the newest.                               *)
SheetIsABackup == SheetHoldsRowsOnce /\ SuccessMeansInSheet /\ NewestIsKnown
=============================================================================
