----------------------------- MODULE Statuses ------------------------------
(* The status of a record (master_data/status_policy.py, status_service.py):*)
(* the moves each collection allows, the shared endpoint that makes the     *)
(* plain ones, and the workflow commands that make the others.  Both read   *)
(* the row without a lock, check, and write at their COMMIT; the UPDATE     *)
(* names a column only if it differs from what was read.                    *)
EXTENDS Naturals

CONSTANTS
    Clerks,     \* requests (bound)
    Allowed,    \* the permissions that a clerk may hold, as sets (bound)
    MaxMoves,   \* committed changes of the record (bound)
    NoClerk

VARIABLES
    collection, \* the record's collection
    record,     \* its row: status, and who closed the period
    asking,     \* each clerk's request
    audited,    \* the last audit event of the record
    moves,      \* committed changes of the status
    jumped      \* the status endpoint made a move that is a command's (history)

statusVars == <<collection, record, asking, audited, moves, jumped>>

ASSUME StatusesAssumption == NoClerk \notin Clerks /\ MaxMoves \in Nat

-----------------------------------------------------------------------------
(* status_policy.py: the legal changes from each status.                    *)
Change(from, to, permission, kind) ==
    [from |-> from, to |-> to, permission |-> permission, kind |-> kind]
(* _toggle_transitions and _vocabulary_transitions: any other value.        *)
Vocabulary(values, permission) ==
    {Change(v, w, permission, "status") : v \in values, w \in values} \
    {Change(v, v, permission, "status") : v \in values}
Toggle(permission) == Vocabulary({"ACTIVE", "INACTIVE"}, permission)

OrderChanges ==
    {Change("ACTIVE", "FINISHED", "order", "command"), Change("ACTIVE", "INACTIVE", "order", "status"),
     Change("INACTIVE", "ACTIVE", "order", "status"), Change("FINISHED", "ACTIVE", "order", "status")}
PeriodChanges ==
    {Change("OPEN", "CLOSED", "close", "command"), Change("CLOSED", "OPEN", "close", "status")}
DocumentChanges ==
    {Change("DRAFT", "POSTED", "post", "command"), Change("POSTED", "REVERSED", "reverse", "command")}
QuotationChanges ==
    {Change("DRAFT", "SUBMITTED", "submit", "command"), Change("DRAFT", "CANCELLED", "edit", "command"),
     Change("SUBMITTED", "CONVERTED", "convert", "command"),
     Change("SUBMITTED", "CANCELLED", "edit", "command")}

(* STATUS_POLICIES, one collection of each kind.                            *)
Policies ==
    [businessParties |-> Toggle("reference"), chartOfAccounts |-> Toggle("accounts"),
     postingRules |-> Toggle("rules"), documentSequences |-> Toggle("reference"),
     transportAssets |-> Vocabulary({"ACTIVE", "INACTIVE", "MAINTENANCE"}, "reference"),
     shipments |-> Vocabulary({"SCHEDULED", "ARRIVED", "COMPLETED"}, "reference"),
     jobs |-> OrderChanges, accountingPeriods |-> PeriodChanges,
     jobCharges |-> {Change("DRAFT", "ISSUED", "issue", "command")},
     debitNotes |-> DocumentChanges, quotations |-> QuotationChanges,
     journals |-> {Change("DRAFT", "POSTED", "post", "command")}]
Collections == DOMAIN Policies
StatusesOf(c) == {m.from : m \in Policies[c]} \cup {m.to : m \in Policies[c]}
(* _APPLIERS: the collections whose status the endpoint can write at all.   *)
Appliable == {"businessParties", "chartOfAccounts", "postingRules", "documentSequences",
              "transportAssets", "shipments", "jobs", "accountingPeriods"}
NewStatus(c) ==
    CASE c \in {"debitNotes", "quotations", "journals", "jobCharges"} -> "DRAFT"
      [] c = "accountingPeriods" -> "OPEN"
      [] c = "shipments" -> "SCHEDULED"
      [] OTHER -> "ACTIVE"

Transitions(c, from, to) == {m \in Policies[c] : m.from = from /\ m.to = to}
MayPerform(held, m) == m.permission \in held
(* serialize_policy: what a screen offers.                                  *)
Offered(c, held) == {m \in Policies[c] : MayPerform(held, m)}

-----------------------------------------------------------------------------
Idle == [step |-> "idle", via |-> "status", read |-> [status |-> "none", closedBy |-> NoClerk],
         to |-> "none", changed |-> FALSE]

(* Mutant: what a command does is not told apart from a plain change.       *)
AnyKind(m) == TRUE
IsPlain(m) == m.kind = "status"
(* change_status: the row is loaded and the change checked.  A change to    *)
(* the status that was read needs no transition.                            *)
ReadForStatus(r, to, held) ==
    LET from == record.status IN
    /\ asking[r].step = "idle" /\ collection \in Appliable
    /\ to \in StatusesOf(collection)
    /\ to # from => \E m \in Transitions(collection, from, to) : MayPerform(held, m) /\ IsPlain(m)
    /\ collection = "accountingPeriods" => to = "OPEN"
    /\ asking' = [asking EXCEPT ![r] = [step |-> "checked", via |-> "status", read |-> record,
                                        to |-> to, changed |-> to # from]]
    /\ UNCHANGED <<collection, record, audited, moves, jumped>>

(* finish_service_order, the commands of a quotation, and close_period,     *)
(* which asks nothing of the status.                                        *)
Unlocked == {"jobs", "quotations", "accountingPeriods"}
ReadForCommand(r, m) ==
    /\ asking[r].step = "idle" /\ m.kind = "command" /\ collection \in Unlocked
    /\ record.status = m.from \/ (collection = "accountingPeriods" /\ record.status = m.to)
    /\ asking' = [asking EXCEPT ![r] = [step |-> "checked", via |-> "command", read |-> record,
                                        to |-> m.to, changed |-> TRUE]]
    /\ UNCHANGED <<collection, record, audited, moves, jumped>>

(* Mutant: the UPDATE sets the status whatever was read.                    *)
SetsStatus(r, row) == [row EXCEPT !.status = asking[r].to]
(* The UPDATE of the status, if it differs from the one read.               *)
NewRow(r, row) == IF asking[r].to = asking[r].read.status THEN row
                  ELSE [row EXCEPT !.status = asking[r].to]
(* ... and of a period's closure: reopen_period clears what it read, while  *)
(* close_period stamps the present time.                                    *)
Stamped(r, row) ==
    CASE collection # "accountingPeriods" -> row
      [] asking[r].via = "command" -> [row EXCEPT !.closedBy = r]
      [] asking[r].read.closedBy # NoClerk -> [row EXCEPT !.closedBy = NoClerk]
      [] OTHER -> row

(* issue_charge, post_document, post_journal and reverse_document lock the  *)
(* row first.                                                               *)
LockedCommand(m) ==
    /\ m.kind = "command" /\ collection \notin Unlocked
    /\ record.status = m.from /\ moves < MaxMoves
    /\ record' = [record EXCEPT !.status = m.to] /\ moves' = moves + 1
    /\ UNCHANGED <<collection, asking, audited, jumped>>

CommandStatuses(c) == {m.to : m \in {t \in Policies[c] : t.kind = "command"}}
CommitChange(r) ==
    LET new == Stamped(r, NewRow(r, record)) IN
    /\ asking[r].step = "checked"
    /\ new.status # record.status => moves < MaxMoves
    /\ record' = new
    /\ moves' = IF new.status # record.status THEN moves + 1 ELSE moves
    /\ jumped' = (jumped \/ (/\ asking[r].via = "status" /\ new.status # record.status
                             /\ new.status \in CommandStatuses(collection)))
    /\ asking' = [asking EXCEPT ![r] = IF asking[r].changed THEN [@ EXCEPT !.step = "unaudited"]
                                       ELSE Idle]
    /\ UNCHANGED <<collection, audited>>

(* The audit event is a second transaction, or lost with the process.       *)
AuditChange(r) ==
    /\ asking[r].step = "unaudited"
    /\ audited' = [before |-> asking[r].read.status, after |-> asking[r].to]
    /\ asking' = [asking EXCEPT ![r] = Idle]
    /\ UNCHANGED <<collection, record, moves, jumped>>
LoseRequest(r) ==
    /\ asking[r].step # "idle" /\ asking' = [asking EXCEPT ![r] = Idle]
    /\ UNCHANGED <<collection, record, audited, moves, jumped>>

-----------------------------------------------------------------------------
StatusesInit ==
    /\ collection \in Collections
    /\ record = [status |-> NewStatus(collection), closedBy |-> NoClerk]
    /\ asking = [r \in Clerks |-> Idle]
    /\ audited = [before |-> "none", after |-> NewStatus(collection)]
    /\ moves = 0 /\ jumped = FALSE

StatusesNext ==
    \/ \E m \in Policies[collection] : LockedCommand(m)
    \/ \E r \in Clerks :
          \/ \E held \in Allowed, to \in StatusesOf(collection) : ReadForStatus(r, to, held)
          \/ \E m \in Policies[collection] : ReadForCommand(r, m)
          \/ CommitChange(r) \/ AuditChange(r) \/ LoseRequest(r)

StatusesSpec == StatusesInit /\ [][StatusesNext]_statusVars

StatusesTypeOK ==
    /\ collection \in Collections
    /\ record.status \in StatusesOf(collection) /\ record.closedBy \in Clerks \cup {NoClerk}
    /\ \A r \in Clerks : asking[r].step \in {"idle", "checked", "unaudited"}
    /\ audited.after \in StatusesOf(collection)
    /\ moves \in 0..MaxMoves /\ jumped \in BOOLEAN

-----------------------------------------------------------------------------
(* status_service.py, "this module refuses to bypass that engine": the      *)
(* shared endpoint never brings a record into a status that a command       *)
(* brings it into (finished, closed, posted, issued, converted), however    *)
(* its requests overlap with the commands and with each other; also one     *)
(* that asked for the status the record had, and was not checked at all.    *)
CommandStatusesByCommand == ~jumped
=============================================================================
