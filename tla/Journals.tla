------------------------------ MODULE Journals ------------------------------
(* Manual journals (finance/service.py: save_journal, post_journal,         *)
(* delete_journals, update_period) behind the triggers of the database      *)
(* (alembic e6f7a8b9c0d1).  A session flushes only at its COMMIT: a save    *)
(* deletes the lines at once, and updates the head, if a column changed,    *)
(* and inserts the new lines at the end.  Posting locks the head; a line    *)
(* that is inserted needs a share of that lock, after its trigger has read  *)
(* the status.                                                              *)
EXTENDS Naturals

CONSTANTS
    Journals,
    Keepers,          \* requests that save or delete a journal
    Approvers,        \* requests that post one
    Months,           \* accounting periods
    Forms,            \* what a keeper may submit (bound)
    MaxPeriodChanges, \* how often a period is closed or reopened (bound)
    Nobody

Amounts == [debit : Nat, credit : Nat]
(* The lines of a journal: how many, what they add up to in the currency of *)
(* the journal, and in the base currency.                                   *)
LineSet == [count : Nat, own : Amounts, base : Amounts]
Zero == [debit |-> 0, credit |-> 0]
NoLines == [count |-> 0, own |-> Zero, base |-> Zero]

ASSUME JournalsAssumption ==
    /\ Nobody \notin Keepers \cup Approvers /\ MaxPeriodChanges \in Nat
    /\ \A f \in Forms : /\ f.entryDate \in Months /\ f.postingDate \in Months
                        /\ f.lines \in LineSet

VARIABLES
    heads,     \* rows of journal_entries
    lines,     \* each journal's committed lines
    locks,     \* who holds a journal's row FOR UPDATE
    deleter,   \* who has deleted the committed lines, and not yet committed that
    keeping,   \* each keeper's transaction
    approving, \* each approver's transaction
    periods,   \* the status of each month's period
    changes,   \* changes of a period so far
    slipped    \* journals whose lines changed after they were posted (history)

journalVars == <<heads, lines, locks, deleter, keeping, approving, periods, changes, slipped>>

JournalHead == [status : {"ABSENT", "DRAFT", "POSTED"}, entryDate : Months,
                postingDate : Months, totals : Amounts]
ThisMonth == CHOOSE m \in Months : TRUE
NoHead == [status |-> "ABSENT", entryDate |-> ThisMonth, postingDate |-> ThisMonth, totals |-> Zero]
NoForm == [entryDate |-> ThisMonth, postingDate |-> ThisMonth, lines |-> NoLines]
NotKeeping == [step |-> "none", does |-> "save", journal |-> Nobody, read |-> NoHead, form |-> NoForm]
NotApproving == [step |-> "none", journal |-> Nobody, totals |-> Zero]

JournalsTypeOK ==
    /\ heads \in [Journals -> JournalHead] /\ lines \in [Journals -> LineSet]
    /\ locks \in [Journals -> Approvers \cup {Nobody}]
    /\ deleter \in [Journals -> Keepers \cup {Nobody}]
    /\ keeping \in [Keepers -> [step : {"none", "read", "waits", "missed", "deleted", "share"},
                                does : {"save", "delete"}, journal : Journals \cup {Nobody},
                                read : JournalHead, form : Forms \cup {NoForm}]]
    /\ approving \in [Approvers -> [step : {"none", "locked", "checked"},
                                    journal : Journals \cup {Nobody}, totals : Amounts]]
    /\ periods \in [Months -> {"OPEN", "CLOSED"}] /\ changes \in 0..MaxPeriodChanges
    /\ slipped \subseteq Journals

Even(amounts) == amounts.debit = amounts.credit

-----------------------------------------------------------------------------
(* The form, as columns of the head; the totals are those of the lines.     *)
AsHead(form) == [status |-> "DRAFT", entryDate |-> form.entryDate,
                 postingDate |-> form.postingDate, totals |-> form.lines.own]

(* save_journal without an id; nobody sees the row before its COMMIT.       *)
CreateJournal(k, j, form) ==
    /\ keeping[k].step = "none" /\ heads[j].status = "ABSENT"
    /\ \A a \in Keepers : keeping[a].journal # j
    /\ heads' = [heads EXCEPT ![j] = AsHead(form)]
    /\ lines' = [lines EXCEPT ![j] = form.lines]
    /\ UNCHANGED <<locks, deleter, keeping, approving, periods, changes, slipped>>

Opens(k, does, j, form) ==
    /\ keeping[k].step = "none" /\ heads[j].status = "DRAFT"
    /\ keeping' = [keeping EXCEPT ![k] =
         [step |-> "read", does |-> does, journal |-> j, read |-> heads[j], form |-> form]]
    /\ UNCHANGED <<heads, lines, locks, deleter, approving, periods, changes, slipped>>
(* save_journal and delete_journals read the head without a lock.           *)
OpenToSave(k, j, form) == Opens(k, "save", j, form)
OpenToDelete(k, j) == Opens(k, "delete", j, NoForm)

(* The end of a keeper's transaction, and of its hold on the lines.  Those  *)
(* who waited to delete lines that are gone now have missed the new ones.   *)
EndKeeping(k, gone) ==
    LET j == keeping[k].journal IN
    /\ deleter' = [deleter EXCEPT ![j] = IF @ = k THEN Nobody ELSE @]
    /\ keeping' = [o \in Keepers |->
         CASE o = k -> NotKeeping
           [] o # k /\ gone /\ keeping[o].journal = j /\ keeping[o].step = "waits"
              -> [keeping[o] EXCEPT !.step = "missed"]
           [] OTHER -> keeping[o]]
RefuseKeeper(k) ==
    /\ EndKeeping(k, FALSE)
    /\ UNCHANGED <<heads, lines, locks, approving, periods, changes, slipped>>

(* DELETE FROM journal_entry_lines: the trigger of a line refuses if its    *)
(* journal is posted, but not while the posting is under way.               *)
DeleteLines(k) ==
    LET j == keeping[k].journal IN
    /\ keeping[k].step \in {"read", "waits"} /\ deleter[j] = Nobody
    /\ IF lines[j].count > 0 /\ heads[j].status = "POSTED" THEN RefuseKeeper(k)
       ELSE /\ keeping' = [keeping EXCEPT ![k].step = "deleted"]
            /\ deleter' = [deleter EXCEPT ![j] = IF lines[j].count > 0 THEN k ELSE @]
            /\ UNCHANGED <<heads, lines, locks, approving, periods, changes, slipped>>
WaitForLines(k) ==
    /\ keeping[k].step = "read" /\ deleter[keeping[k].journal] # Nobody
    /\ keeping' = [keeping EXCEPT ![k].step = "waits"]
    /\ UNCHANGED <<heads, lines, locks, deleter, approving, periods, changes, slipped>>

(* The UPDATE at the flush sets the columns that differ from what was read. *)
Touched(k) == AsHead(keeping[k].form) # keeping[k].read
MergedHead(k) ==
    LET new == AsHead(keeping[k].form) IN
    [c \in DOMAIN new |-> IF new[c] = keeping[k].read[c]
                            THEN heads[keeping[k].journal][c] ELSE new[c]]

(* Whether the lines to insert collide with committed ones: line_no.        *)
Collides(k) ==
    LET j == keeping[k].journal IN
    keeping[k].form.lines.count > 0 /\ lines[j].count > 0 /\ deleter[j] # k
(* Another's lines are inserted and not yet committed: an INSERT waits.     *)
Inserting(j) == \E o \in Keepers : keeping[o].journal = j /\ keeping[o].step = "share"

(* What the COMMIT leaves: the lines are those of the form, or what is left *)
(* of the old ones.                                                         *)
CommitLines(k) ==
    LET j == keeping[k].journal
        mine == deleter[j] = k
        new == IF keeping[k].form.lines.count > 0 \/ mine THEN keeping[k].form.lines ELSE lines[j]
    IN /\ lines' = [lines EXCEPT ![j] = new]
       /\ slipped' = IF heads[j].status = "POSTED" /\ new # lines[j] THEN slipped \cup {j} ELSE slipped
       /\ EndKeeping(k, mine)

(* The flush of a save that changes the head waits for a posting to end and *)
(* is refused by the trigger if it succeeded.                               *)
SaveHead(k) ==
    LET j == keeping[k].journal IN
    /\ keeping[k].does = "save" /\ keeping[k].step \in {"deleted", "missed"}
    /\ Touched(k) /\ locks[j] = Nobody /\ ~Inserting(j)
    /\ IF heads[j].status # "DRAFT" \/ Collides(k) THEN RefuseKeeper(k)
       ELSE /\ heads' = [heads EXCEPT ![j] = MergedHead(k)]
            /\ CommitLines(k)
            /\ UNCHANGED <<locks, approving, periods, changes>>
(* One that leaves the head as it was inserts the lines: their trigger      *)
(* reads the status, and only then the foreign key waits for the posting.   *)
SaveLines(k) ==
    LET j == keeping[k].journal
        count == keeping[k].form.lines.count
    IN /\ keeping[k].does = "save" /\ keeping[k].step \in {"deleted", "missed"}
       /\ ~Touched(k) /\ (count > 0 => ~Inserting(j))
       /\ IF count > 0 /\ (heads[j].status # "DRAFT" \/ Collides(k)) THEN RefuseKeeper(k)
          ELSE IF count > 0 /\ locks[j] # Nobody
          THEN /\ keeping' = [keeping EXCEPT ![k].step = "share"]
               /\ UNCHANGED <<heads, lines, locks, deleter, approving, periods, changes, slipped>>
          ELSE CommitLines(k) /\ UNCHANGED <<heads, locks, approving, periods, changes>>
ShareLock(k) ==
    LET j == keeping[k].journal IN
    /\ keeping[k].step = "share" /\ locks[j] = Nobody
    /\ IF heads[j].status = "ABSENT" THEN RefuseKeeper(k)
       ELSE CommitLines(k) /\ UNCHANGED <<heads, locks, approving, periods, changes>>

(* The flush of delete_journals; the lines go with the head.                *)
DeleteHead(k) ==
    LET j == keeping[k].journal IN
    /\ keeping[k].does = "delete" /\ keeping[k].step \in {"deleted", "missed"}
    /\ locks[j] = Nobody /\ deleter[j] \in {k, Nobody}
    /\ IF heads[j].status = "POSTED" THEN RefuseKeeper(k)
       ELSE /\ heads' = [heads EXCEPT ![j] = NoHead]
            /\ lines' = [lines EXCEPT ![j] = NoLines]
            /\ EndKeeping(k, TRUE)
            /\ UNCHANGED <<locks, approving, periods, changes, slipped>>
(* A request is cancelled, or its process dies.                             *)
KeeperGivesUp(k) == keeping[k].step \in {"deleted", "missed", "share"} /\ RefuseKeeper(k)

-----------------------------------------------------------------------------
(* Mutant: the journal is read without FOR UPDATE.                          *)
NotLocked(j, a) == UNCHANGED locks
(* with_for_update of post_journal.                                         *)
TakesLock(j, a) == locks[j] = Nobody /\ locks' = [locks EXCEPT ![j] = a]
LockJournal(a, j) ==
    /\ approving[a].step = "none" /\ heads[j].status = "DRAFT"
    /\ TakesLock(j, a)
    /\ approving' = [approving EXCEPT ![a] = [step |-> "locked", journal |-> j, totals |-> Zero]]
    /\ UNCHANGED <<heads, lines, deleter, keeping, periods, changes, slipped>>

EndApproving(a) ==
    /\ approving' = [approving EXCEPT ![a] = NotApproving]
    /\ locks' = [j \in Journals |-> IF locks[j] = a THEN Nobody ELSE locks[j]]
    /\ UNCHANGED <<lines, deleter, keeping, periods, changes, slipped>>
RefuseApprover(a) == EndApproving(a) /\ UNCHANGED heads

(* The checks of post_journal on the lines it reads and on the period.      *)
MayPost(set) ==
    /\ set.count >= 2 /\ Even(set.own) /\ set.own.debit > 0 /\ Even(set.base)
CheckJournal(a) ==
    LET j == approving[a].journal IN
    /\ approving[a].step = "locked"
    /\ IF MayPost(lines[j]) /\ periods[heads[j].postingDate] # "CLOSED"
       THEN /\ approving' = [approving EXCEPT ![a].step = "checked", ![a].totals = lines[j].own]
            /\ UNCHANGED <<heads, lines, locks, deleter, keeping, periods, changes, slipped>>
       ELSE RefuseApprover(a)

(* fn_validate_journal_post, deferred to the COMMIT.                        *)
PostCheckPasses(j) ==
    /\ periods[heads[j].postingDate] = "OPEN" /\ heads[j].entryDate = heads[j].postingDate
    /\ lines[j].count >= 2 /\ lines[j].own.debit > 0 /\ Even(lines[j].own)
CommitPosting(a) ==
    LET j == approving[a].journal IN
    /\ approving[a].step = "checked"
    /\ IF heads[j].status = "DRAFT" /\ PostCheckPasses(j)
       THEN /\ heads' = [heads EXCEPT ![j].status = "POSTED", ![j].totals = approving[a].totals]
            /\ EndApproving(a)
       ELSE RefuseApprover(a)
ApproverGivesUp(a) == approving[a].step = "checked" /\ RefuseApprover(a)

(* close_period, reopen_period, update_period.                              *)
ChangePeriod(m, status) ==
    /\ changes < MaxPeriodChanges /\ periods[m] # status
    /\ periods' = [periods EXCEPT ![m] = status]
    /\ changes' = changes + 1
    /\ UNCHANGED <<heads, lines, locks, deleter, keeping, approving, slipped>>

-----------------------------------------------------------------------------
JournalsInit ==
    /\ heads = [j \in Journals |-> NoHead] /\ lines = [j \in Journals |-> NoLines]
    /\ locks = [j \in Journals |-> Nobody] /\ deleter = [j \in Journals |-> Nobody]
    /\ keeping = [k \in Keepers |-> NotKeeping]
    /\ approving = [a \in Approvers |-> NotApproving]
    /\ periods = [m \in Months |-> "OPEN"] /\ changes = 0 /\ slipped = {}

Keeps(k) ==
    \/ \E j \in Journals :
          \/ OpenToDelete(k, j)
          \/ \E form \in Forms : CreateJournal(k, j, form) \/ OpenToSave(k, j, form)
    \/ DeleteLines(k) \/ WaitForLines(k) \/ SaveHead(k) \/ SaveLines(k) \/ ShareLock(k)
    \/ DeleteHead(k) \/ KeeperGivesUp(k)
Approves(a) ==
    \/ \E j \in Journals : LockJournal(a, j)
    \/ CheckJournal(a) \/ CommitPosting(a) \/ ApproverGivesUp(a)

JournalsNext ==
    \/ \E k \in Keepers : Keeps(k)
    \/ \E a \in Approvers : Approves(a)
    \/ \E m \in Months, status \in {"OPEN", "CLOSED"} : ChangePeriod(m, status)

JournalsSpec == JournalsInit /\ [][JournalsNext]_journalVars

-----------------------------------------------------------------------------
(* post_journal: a posted journal has at least two lines that balance, in   *)
(* the journal's currency and in the base currency, its head says what they *)
(* add up to, and it lies in the month of its period; whatever is saved,    *)
(* deleted and posted meanwhile, unless a save that left the head unchanged *)
(* had its status check before the posting's COMMIT and its lines after it. *)
PostedJournalsBalance ==
    \A j \in Journals : heads[j].status = "POSTED" /\ j \notin slipped =>
        /\ MayPost(lines[j])
        /\ heads[j].totals = lines[j].own
        /\ heads[j].entryDate = heads[j].postingDate

(* "Lines of posted journal % cannot change; reverse it instead"            *)
(* (fn_guard_journal_line): no step changes the lines of a posted journal.  *)
PostedLinesStay ==
    [][\A j \in Journals : heads[j].status = "POSTED" => lines'[j] = lines[j]]_journalVars
=============================================================================
