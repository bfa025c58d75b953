------------------------------- MODULE Imports -------------------------------
(* Spreadsheet import (excel_io/service.py).  An upload stores a validated   *)
(* batch under a token; confirming it claims the token with one committed    *)
(* DELETE ... RETURNING, validates the rows again, writes them one by one in *)
(* a single transaction and records the outcome as a job.  Other requests    *)
(* create and archive the same records meanwhile, and two imports may insert *)
(* the same keys in opposite orders.                                         *)
EXTENDS FiniteSets, Sequences, Naturals

CONSTANTS
    Importers,    \* the confirming requests, each one process at a time
    Operators,    \* the users who upload
    Keys,         \* the match keys of a collection
    Sheets,       \* the workbooks: sequences of different keys
    Modes,        \* of CREATE_ONLY, CREATE_AND_UPDATE, VALIDATE_ONLY
    MaxUploads,   \* bound on uploads
    MaxClerkWrites,  \* bound on the other requests' writes
    MaxConfirms   \* bound on confirmations and cancellations

ASSUME ImportsAssumption ==
    /\ \A s \in Sheets : s \in Seq(Keys)
    /\ Modes \subseteq {"CREATE_ONLY", "CREATE_AND_UPDATE", "VALIDATE_ONLY"}
    /\ MaxUploads \in Nat /\ MaxClerkWrites \in Nat /\ MaxConfirms \in Nat

Tickets == 1..MaxUploads
Nobody == 0                          \* wrote a row: no import

VARIABLES
    present,    \* the live records: key -> the import that wrote them last
    sessions,   \* import_sessions: token -> user, mode and rows
    uploads,    \* tokens handed out
    import,     \* the confirming requests' steps and what they read
    jobs,       \* import_jobs: token -> statuses of the batches recorded
    planned,    \* history: the actions of each batch when validated again
    landed,     \* history: the keys each batch has written
    importBudget   \* writes of others and confirmations left

importVars == <<present, sessions, uploads, import, jobs, planned, landed, importBudget>>

Asleep == [step |-> "idle", token |-> 0, sheet |-> <<>>, mode |-> "CREATE_ONLY",
           acts |-> <<>>, next |-> 1, made |-> {}, staged |-> {}]
ImportSteps == {"idle", "validate", "write", "fail"}

ImportsTypeOK ==
    /\ \A k \in DOMAIN present : k \in Keys /\ present[k] \in Tickets \cup {Nobody}
    /\ \A t \in DOMAIN sessions : t \in Tickets /\ sessions[t].sheet \in Sheets /\ sessions[t].mode \in Modes
    /\ uploads \in 0..MaxUploads
    /\ \A i \in Importers : import[i].step \in ImportSteps /\ import[i].token \in Tickets \cup {0}
    /\ jobs \in [Tickets -> SUBSET {"COMPLETED", "FAILED"}]
    /\ landed \in [Tickets -> SUBSET Keys]

Stored(k) == k \in DOMAIN present
With(f, k, v) == [x \in DOMAIN f \cup {k} |-> IF x = k THEN v ELSE f[x]]
Without(f, S) == [x \in DOMAIN f \ S |-> f[x]]
ImportSpends(field) ==
    /\ importBudget[field] > 0
    /\ importBudget' = [importBudget EXCEPT ![field] = @ - 1]

-----------------------------------------------------------------------------
(* start_import: the user's pending import of the module is replaced.       *)
Upload(u, sheet, mode) ==
    /\ uploads < MaxUploads
    /\ uploads' = uploads + 1
    /\ sessions' = With(Without(sessions, {t \in DOMAIN sessions : sessions[t].user = u}),
                        uploads + 1, [user |-> u, sheet |-> sheet, mode |-> mode])
    /\ UNCHANGED <<present, import, jobs, planned, landed, importBudget>>

(* cancel_import; or the session expires and a later upload purges it.      *)
Cancel(t) ==
    /\ t \in DOMAIN sessions
    /\ ImportSpends("confirms")
    /\ sessions' = Without(sessions, {t})
    /\ UNCHANGED <<present, uploads, import, jobs, planned, landed>>

(* Mutant: the session is read and deleted only when the batch commits. *)
ClaimedM(t) == sessions

Claimed(t) == Without(sessions, {t})

(* claim_session: one DELETE ... RETURNING, committed.  A VALIDATE_ONLY     *)
(* session is refused after it has been claimed.                            *)
Claim(i, t) ==
    /\ import[i].step = "idle" /\ t \in DOMAIN sessions
    /\ ImportSpends("confirms")
    /\ sessions' = Claimed(t)
    /\ import' = IF sessions[t].mode = "VALIDATE_ONLY" THEN import
                 ELSE [import EXCEPT ![i] = [Asleep EXCEPT !.step = "validate", !.token = t,
                          !.sheet = sessions[t].sheet, !.mode = sessions[t].mode]]
    /\ UNCHANGED <<present, uploads, jobs, planned, landed>>

ActionOf(k, mode) ==
    IF ~Stored(k) THEN "CREATE" ELSE IF mode = "CREATE_ONLY" THEN "SKIP" ELSE "UPDATE"

(* validate_rows, again: a row of the sheet may have become invalid, which  *)
(* fails the batch with its errors recorded.                                *)
Revalidate(i) ==
    /\ import[i].step = "validate"
    /\ \/ LET acts == [n \in DOMAIN import[i].sheet |-> ActionOf(import[i].sheet[n], import[i].mode)]
          IN /\ import' = [import EXCEPT ![i].step = "write", ![i].acts = acts]
             /\ planned' = [planned EXCEPT ![import[i].token] =
                               {import[i].sheet[n] : n \in {m \in DOMAIN acts : acts[m] # "SKIP"}}]
       \/ /\ import' = [import EXCEPT ![i].step = "fail"]
          /\ UNCHANGED planned
    /\ UNCHANGED <<present, sessions, uploads, jobs, landed, importBudget>>

RowAt(i) == import[i].sheet[import[i].next]
Act(i) == import[i].acts[import[i].next]
HasRow(i) == import[i].step = "write" /\ import[i].next <= Len(import[i].sheet)
(* Keys another import has inserted and not committed.                      *)
Pending(i) == UNION {import[o].made : o \in Importers \ {i}}

(* Mutant: create_reference commits, as it does by default. *)
LandsM(i, k) == TRUE

Lands(i, k) == FALSE

(* create_reference with commit=False flushes the insertion: it waits for   *)
(* an import that has inserted the key, and a committed one is a            *)
(* ValidationFailed, which discards the batch without a job.                *)
WriteCreate(i) ==
    /\ HasRow(i) /\ Act(i) = "CREATE" /\ RowAt(i) \notin Pending(i)
    /\ LET k == RowAt(i)
           t == import[i].token
       IN IF Stored(k)
          THEN import' = [import EXCEPT ![i] = Asleep] /\ UNCHANGED <<present, landed>>
          ELSE /\ import' = [import EXCEPT ![i].next = @ + 1,
                                ![i].made = IF Lands(i, k) THEN @ ELSE @ \cup {k}]
               /\ present' = IF Lands(i, k) THEN With(present, k, t) ELSE present
               /\ landed' = IF Lands(i, k) THEN [landed EXCEPT ![t] = @ \cup {k}] ELSE landed
    /\ UNCHANGED <<sessions, uploads, jobs, planned, importBudget>>

(* update_reference on the record matched now; none left is a               *)
(* ValidationFailed too.                                                    *)
WriteUpdate(i) ==
    /\ HasRow(i) /\ Act(i) = "UPDATE"
    /\ import' = IF Stored(RowAt(i))
                 THEN [import EXCEPT ![i].next = @ + 1, ![i].staged = @ \cup {RowAt(i)}]
                 ELSE [import EXCEPT ![i] = Asleep]
    /\ UNCHANGED <<present, sessions, uploads, jobs, planned, landed, importBudget>>

Skip(i) ==
    /\ HasRow(i) /\ Act(i) = "SKIP"
    /\ import' = [import EXCEPT ![i].next = @ + 1]
    /\ UNCHANGED <<present, sessions, uploads, jobs, planned, landed, importBudget>>

(* The commit writes the staged updates, the insertions and the job.        *)
CommitImport(i) ==
    /\ import[i].step = "write" /\ import[i].next > Len(import[i].sheet)
    /\ LET t == import[i].token
           writes == import[i].made \cup import[i].staged
       IN /\ present' = [k \in DOMAIN present \cup import[i].made |->
                            IF k \in writes THEN t ELSE present[k]]
          /\ landed' = [landed EXCEPT ![t] = @ \cup writes]
          /\ jobs' = [jobs EXCEPT ![t] = @ \cup {"COMPLETED"}]
    /\ import' = [import EXCEPT ![i] = Asleep]
    /\ UNCHANGED <<sessions, uploads, planned, importBudget>>

(* Each waits for a key the other has inserted; PostgreSQL aborts one.      *)
WaitsForImport(i, o) == HasRow(i) /\ Act(i) = "CREATE" /\ RowAt(i) \in import[o].made
ImportDeadlock(i) ==
    /\ \E o \in Importers \ {i} : WaitsForImport(i, o) /\ WaitsForImport(o, i)
    /\ import' = [import EXCEPT ![i].step = "fail", ![i].made = {}]
    /\ UNCHANGED <<present, sessions, uploads, jobs, planned, landed, importBudget>>

(* Any other failure: the batch is rolled back and recorded as FAILED in a  *)
(* transaction of its own; a crash before it leaves neither.                *)
RecordFailure(i) ==
    /\ import[i].step = "fail"
    /\ jobs' = [jobs EXCEPT ![import[i].token] = @ \cup {"FAILED"}]
    /\ import' = [import EXCEPT ![i] = Asleep]
    /\ UNCHANGED <<present, sessions, uploads, planned, landed, importBudget>>
ImportCrash(i) ==
    /\ import[i].step # "idle"
    /\ import' = [import EXCEPT ![i] = Asleep]
    /\ UNCHANGED <<present, sessions, uploads, jobs, planned, landed, importBudget>>

(* Other requests create a record, or archive one.  The creation waits for  *)
(* an import that has inserted the key.                                     *)
ClerkWrites(k) ==
    /\ ImportSpends("writes")
    /\ present' = IF Stored(k) THEN Without(present, {k}) ELSE With(present, k, Nobody)
    /\ k \notin UNION {import[o].made : o \in Importers}
    /\ UNCHANGED <<sessions, uploads, import, jobs, planned, landed>>

-----------------------------------------------------------------------------
ImportsInit ==
    /\ \E K \in SUBSET Keys : present = [k \in K |-> Nobody]
    /\ sessions = <<>> /\ uploads = 0
    /\ import = [i \in Importers |-> Asleep]
    /\ jobs = [t \in Tickets |-> {}]
    /\ planned = [t \in Tickets |-> {}] /\ landed = [t \in Tickets |-> {}]
    /\ importBudget = [writes |-> MaxClerkWrites, confirms |-> MaxConfirms]

ImportsNext ==
    \/ \E u \in Operators, s \in Sheets, m \in Modes : Upload(u, s, m)
    \/ \E t \in Tickets : Cancel(t)
    \/ \E k \in Keys : ClerkWrites(k)
    \/ \E i \in Importers :
          \/ \E t \in Tickets : Claim(i, t)
          \/ Revalidate(i) \/ WriteCreate(i) \/ WriteUpdate(i) \/ Skip(i) \/ CommitImport(i)
          \/ ImportDeadlock(i) \/ RecordFailure(i) \/ ImportCrash(i)

ImportsSpec == ImportsInit /\ [][ImportsNext]_importVars

-----------------------------------------------------------------------------
(* "A token confirms at most once, including when the import itself fails": *)
(* no two requests work on one token, and no token has two jobs.            *)
TokensConfirmOnce ==
    /\ \A i, o \in Importers :
          i # o /\ import[i].token # 0 /\ import[i].token = import[o].token => FALSE
    /\ \A t \in Tickets : Cardinality(jobs[t]) <= 1
    /\ \A i \in Importers : import[i].token # 0 => jobs[import[i].token] = {}

(* "Any failed row discards the whole batch": what an import has written is *)
(* all that it planned when it is recorded as COMPLETED, nothing otherwise. *)
ImportsAllOrNothing ==
    \A t \in Tickets : landed[t] = IF "COMPLETED" \in jobs[t] THEN planned[t] ELSE {}
=============================================================================
