----------------------------- MODULE Subledger -----------------------------
(***************************************************************************)
(* The finance subledger: financial documents, the journal entries they    *)
(* write, and the allocations that settle invoices with payments           *)
(* (backend/app/modules/finance/service.py).                               *)
(*                                                                         *)
(* Every request is one PostgreSQL transaction at READ COMMITTED.  A       *)
(* request is a process whose steps are the points where it can observe or *)
(* wait for another transaction: taking a row lock (SELECT ... FOR UPDATE  *)
(* or the UPDATE of a flush), taking the lock of the JOURNAL number        *)
(* sequence, reading a row without a lock, and COMMIT.  What it writes     *)
(* becomes visible at COMMIT, which also releases its locks.               *)
(***************************************************************************)
EXTENDS Integers, FiniteSets, FiniteSetsExt

CONSTANTS
    Payments,   \* documents whose type is in PAYMENT_TYPES
    Invoices,   \* documents whose type is in INVOICE_TYPES
    Totals,     \* the totals a draft may be saved with (bound)
    Requests,   \* concurrent requests (bound)
    MayDo,      \* MayDo[r]: the operations request r performs
    Keys,       \* Idempotency-Key values (bound)
    Payload,    \* Payload[k]: the allocation the client sends under key k
    Periods,    \* accounting periods
    PeriodOf,   \* PeriodOf[d]: the period of d's posting date
    Today,      \* the period a reversal is dated in
    Free,       \* the holder of a lock nobody holds
    NoDoc, NoKey

Doc == Payments \cup Invoices
Operations == {"post", "reverse", "allocate", "edit", "erase"}
Allocation == [payment : Payments, target : Invoices, amount : Nat \ {0}]

ASSUME LedgerAssumption ==
    /\ Payments \cap Invoices = {}
    /\ Totals \subseteq Nat
    /\ MayDo \in [Requests -> SUBSET Operations]
    /\ Payload \in [Keys -> Allocation]
    /\ PeriodOf \in [Doc -> Periods]
    /\ Today \in Periods
    /\ Free \notin Requests /\ NoDoc \notin Doc /\ NoKey \notin Keys

VARIABLES
    docs,        \* committed rows of financial_documents
    allocs,      \* keys with a row in financial_document_allocations
    settled,     \* history: how many times each key was allocated
    journals,    \* committed POSTED journal entries
    periods,     \* accounting_periods.status
    lastNo,      \* document_sequences.last_value of the JOURNAL sequence
    docLock,     \* the request holding each document's row lock
    numberLock,  \* the request holding the JOURNAL sequence row
    pc,          \* where each request is
    local        \* what each request has read

store == <<docs, allocs, settled, journals, periods, lastNo>>
vars  == <<docs, allocs, settled, journals, periods, lastNo,
           docLock, numberLock, pc, local>>

Status == {"ABSENT", "DRAFT", "POSTED", "REVERSED", "ERASED"}
Document == [status : Status, total : Nat, paid : Nat, posting : Nat]
Entry == [no : Nat, doc : Doc, kind : {"AUTOMATIC", "REVERSAL"},
          amount : Nat, period : Periods, reverses : Nat]
Steps == {"idle", "post_number", "post_check", "post_commit",
          "reverse_number", "reverse_read", "reverse_write", "reverse_commit",
          "lock_payment", "lock_target", "allocate_commit",
          "edit_write", "erase_write"}
Transaction == [doc : Doc \cup {NoDoc}, key : Keys \cup {NoKey},
                total : Nat, no : Nat, seen : [Doc -> Nat], undo : SUBSET Keys]

NoTransaction == [doc |-> NoDoc, key |-> NoKey, total |-> 0, no |-> 0,
                  seen |-> [d \in Doc |-> 0], undo |-> {}]

-----------------------------------------------------------------------------
(* Allocation arithmetic.                                                  *)

Touches(k, d) == d \in {Payload[k].payment, Payload[k].target}
OtherSide(k, d) == IF Payload[k].payment = d THEN Payload[k].target
                                             ELSE Payload[k].payment
Amount(k) == Payload[k].amount
SumOf(ks) == MapThenSumSet(Amount, ks)
Allocated(d) == SumOf({k \in allocs : Touches(k, d)})

Exists(d) == docs[d].status \notin {"ABSENT", "ERASED"}
EntryNo(n) == CHOOSE j \in journals : j.no = n
EntriesOf(d) == {j \in journals : j.doc = d}

-----------------------------------------------------------------------------
(* The end of a transaction releases its locks and forgets what it read.   *)

Release(r) ==
    /\ pc' = [pc EXCEPT ![r] = "idle"]
    /\ local' = [local EXCEPT ![r] = NoTransaction]
    /\ docLock' = [d \in Doc |-> IF docLock[d] = r THEN Free ELSE docLock[d]]
    /\ numberLock' = IF numberLock = r THEN Free ELSE numberLock

GoTo(r, step) == pc' = [pc EXCEPT ![r] = step]
LockDoc(r, d) == /\ docLock[d] = Free
                 /\ docLock' = [docLock EXCEPT ![d] = r]

(* Mutant: the sequence row read without FOR UPDATE.                       *)
ReadNumber(r) == UNCHANGED numberLock
(* allocate_number: SELECT ... FOR UPDATE on the sequence row.             *)
LockNumber(r) == numberLock = Free /\ numberLock' = r

-----------------------------------------------------------------------------
(* save_document without an id: a new DRAFT.                               *)
CreateDocument(d, total) ==
    /\ docs[d].status = "ABSENT"
    /\ docs' = [docs EXCEPT ![d] = [status |-> "DRAFT", total |-> total,
                                    paid |-> 0, posting |-> 0]]
    /\ UNCHANGED <<allocs, settled, journals, periods, lastNo,
                   docLock, numberLock, pc, local>>

(* Mutant: a form that also saves posted documents.                        *)
EditableUntilReversed(d) == docs[d].status \in {"DRAFT", "POSTED"}
Editable(d) == docs[d].status = "DRAFT"

(* save_document with an id.  The row is read with session.get, without a  *)
(* lock; its status is checked now, and the UPDATE is flushed at COMMIT.   *)
EditRead(r, d, total) ==
    /\ pc[r] = "idle" /\ "edit" \in MayDo[r]
    /\ Editable(d)
    /\ local' = [local EXCEPT ![r].doc = d, ![r].total = total]
    /\ GoTo(r, "edit_write")
    /\ UNCHANGED <<store, docLock, numberLock>>

(* The flush waits for the row lock and then writes lines and totals; the  *)
(* status attribute did not change, so the UPDATE does not mention it.     *)
EditWrite(r) ==
    LET d == local[r].doc IN
    /\ pc[r] = "edit_write"
    /\ docLock[d] = Free
    /\ Exists(d)
    /\ docs' = [docs EXCEPT ![d].total = local[r].total]
    /\ Release(r)
    /\ UNCHANGED <<allocs, settled, journals, periods, lastNo>>

(* delete_draft_documents: the status is read first, without a lock.       *)
EraseRead(r, d) ==
    /\ pc[r] = "idle" /\ "erase" \in MayDo[r]
    /\ docs[d].status = "DRAFT"
    /\ local' = [local EXCEPT ![r].doc = d]
    /\ GoTo(r, "erase_write")
    /\ UNCHANGED <<store, docLock, numberLock>>

(* Mutant: a posting link that cascades instead of refusing.               *)
CascadingErase(d) == TRUE
(* The foreign key of financial_document_postings.                         *)
Erasable(d) == docs[d].posting = 0

(* The DELETE waits for the row lock, then for the foreign key's verdict.  *)
EraseWrite(r) ==
    LET d == local[r].doc IN
    /\ pc[r] = "erase_write"
    /\ docLock[d] = Free
    /\ Exists(d) /\ Erasable(d)
    /\ docs' = [docs EXCEPT ![d] = [status |-> "ERASED", total |-> 0,
                                    paid |-> 0, posting |-> 0]]
    /\ Release(r)
    /\ UNCHANGED <<allocs, settled, journals, periods, lastNo>>

-----------------------------------------------------------------------------
(* Mutant: the document read without FOR UPDATE.                           *)
PostBeginUnlocked(r, d) ==
    /\ pc[r] = "idle" /\ "post" \in MayDo[r]
    /\ docs[d].status = "DRAFT" /\ docs[d].posting = 0
    /\ periods[PeriodOf[d]] # "CLOSED"
    /\ local' = [local EXCEPT ![r].doc = d, ![r].total = docs[d].total]
    /\ GoTo(r, "post_number")
    /\ UNCHANGED <<store, docLock, numberLock>>

(* post_document: lock the row, check its status, the posting link and,    *)
(* without a lock, the period (resolve_period).                            *)
PostBegin(r, d) ==
    /\ pc[r] = "idle" /\ "post" \in MayDo[r]
    /\ docs[d].status = "DRAFT" /\ docs[d].posting = 0
    /\ periods[PeriodOf[d]] # "CLOSED"
    /\ LockDoc(r, d)
    /\ local' = [local EXCEPT ![r].doc = d, ![r].total = docs[d].total]
    /\ GoTo(r, "post_number")
    /\ UNCHANGED <<store, numberLock>>

(* allocate_number waits for the sequence row and holds it until COMMIT.   *)
PostNumber(r) ==
    /\ pc[r] = "post_number"
    /\ LockNumber(r)
    /\ local' = [local EXCEPT ![r].no = lastNo + 1]
    /\ GoTo(r, "post_check")
    /\ UNCHANGED <<store, docLock>>

(* Mutant: only the check made before the number was waited for.           *)
AcceptsLateEntry(p, amount) == amount > 0
(* The deferred trigger fn_validate_journal_post: an open period and an    *)
(* entry of more than nothing.                                             *)
AcceptsEntry(p, amount) == periods[p] = "OPEN" /\ amount > 0

(* COMMIT first runs the deferred triggers.  They read the period without  *)
(* a lock, so it may still be closed before the transaction is visible.    *)
PostCheck(r) ==
    /\ pc[r] = "post_check"
    /\ AcceptsEntry(PeriodOf[local[r].doc], local[r].total)
    /\ GoTo(r, "post_commit")
    /\ UNCHANGED <<store, docLock, numberLock, local>>

(* Journal, posting link and status become visible together.               *)
PostCommit(r) ==
    LET d == local[r].doc IN
    /\ pc[r] = "post_commit"
    /\ journals' = journals \cup
         {[no |-> local[r].no, doc |-> d, kind |-> "AUTOMATIC",
           amount |-> local[r].total, period |-> PeriodOf[d], reverses |-> 0]}
    /\ docs' = [docs EXCEPT ![d].status = "POSTED", ![d].posting = local[r].no]
    /\ lastNo' = local[r].no
    /\ Release(r)
    /\ UNCHANGED <<allocs, settled, periods>>

-----------------------------------------------------------------------------
(* reverse_document: lock the row; only a POSTED document with its posting *)
(* link can be reversed, in a period that is not closed.                   *)
ReverseBegin(r, d) ==
    /\ pc[r] = "idle" /\ "reverse" \in MayDo[r]
    /\ docs[d].status = "POSTED" /\ docs[d].posting # 0
    /\ periods[Today] # "CLOSED"
    /\ LockDoc(r, d)
    /\ local' = [local EXCEPT ![r].doc = d]
    /\ GoTo(r, "reverse_number")
    /\ UNCHANGED <<store, numberLock>>

ReverseNumber(r) ==
    /\ pc[r] = "reverse_number"
    /\ LockNumber(r)
    /\ local' = [local EXCEPT ![r].no = lastNo + 1,
                              ![r].total = EntryNo(docs[local[r].doc].posting).amount]
    /\ GoTo(r, "reverse_read")
    /\ UNCHANGED <<store, docLock>>

(* The allocations of the document, and the other side of each, are read   *)
(* without a lock.  One step reads every counterparty: each is written     *)
(* back from its own reading only.                                         *)
ReverseRead(r) ==
    LET d    == local[r].doc
        mine == {k \in allocs : Touches(k, d)}
        seen == [o \in Doc |-> IF \E k \in mine : o = OtherSide(k, d)
                               THEN docs[o].paid ELSE 0]
    IN
    /\ pc[r] = "reverse_read"
    /\ local' = [local EXCEPT ![r].undo = mine, ![r].seen = seen]
    /\ GoTo(r, "reverse_write")
    /\ UNCHANGED <<store, docLock, numberLock>>

Given(r, o) == SumOf({k \in local[r].undo : OtherSide(k, local[r].doc) = o})
(* Mutant: the subtraction without max(0, ...).                            *)
PaidAfterUncut(r, o) == local[r].seen[o] - Given(r, o)
(* max(0, paid - allocated): the n with n + allocated = paid, if any.       *)
PaidAfter(r, o) ==
    LET paid == local[r].seen[o]
        left == {n \in 0..paid : n + Given(r, o) = paid}
    IN  IF left = {} THEN 0 ELSE CHOOSE n \in left : TRUE

(* The counterparties whose UPDATE the flush emits.                        *)
ToUpdate(r) == {o \in Doc : /\ \E k \in local[r].undo : o = OtherSide(k, local[r].doc)
                            /\ PaidAfter(r, o) # local[r].seen[o]}

ReverseLock(r, o) ==
    /\ pc[r] = "reverse_write"
    /\ o \in ToUpdate(r)
    /\ LockDoc(r, o)
    /\ UNCHANGED <<store, numberLock, pc, local>>

ReverseCheck(r) ==
    /\ pc[r] = "reverse_write"
    /\ \A o \in ToUpdate(r) : docLock[o] = r
    /\ AcceptsEntry(Today, local[r].total)
    /\ GoTo(r, "reverse_commit")
    /\ UNCHANGED <<store, docLock, numberLock, local>>

ReverseCommit(r) ==
    LET d == local[r].doc IN
    /\ pc[r] = "reverse_commit"
    /\ journals' = journals \cup
         {[no |-> local[r].no, doc |-> d, kind |-> "REVERSAL",
           amount |-> local[r].total, period |-> Today,
           reverses |-> docs[d].posting]}
    /\ docs' = [o \in Doc |->
         IF o = d THEN [docs[o] EXCEPT !.status = "REVERSED", !.paid = 0]
         ELSE IF o \in ToUpdate(r) THEN [docs[o] EXCEPT !.paid = PaidAfter(r, o)]
         ELSE docs[o]]
    /\ allocs' = allocs \ local[r].undo
    /\ lastNo' = local[r].no
    /\ Release(r)
    /\ UNCHANGED <<settled, periods>>

-----------------------------------------------------------------------------
(* allocate_payment: the key is looked up first; a key with a row is a     *)
(* replay, which changes nothing.                                          *)
AllocateLookup(r, k) ==
    /\ pc[r] = "idle" /\ "allocate" \in MayDo[r]
    /\ k \notin allocs
    /\ local' = [local EXCEPT ![r].key = k]
    /\ GoTo(r, "lock_payment")
    /\ UNCHANGED <<store, docLock, numberLock>>

(* Mutant: the two documents read without FOR UPDATE.                      *)
LoadUnlocked(r, d) ==
    /\ local' = [local EXCEPT ![r].seen[d] = docs[d].paid]
    /\ UNCHANGED docLock
(* The row is loaded as its lock is granted: paid_amount is read here.     *)
LoadLocked(r, d) ==
    /\ LockDoc(r, d)
    /\ local' = [local EXCEPT ![r].seen[d] = docs[d].paid]

AllocateLockPayment(r) ==
    /\ pc[r] = "lock_payment"
    /\ Exists(Payload[local[r].key].payment)
    /\ LoadLocked(r, Payload[local[r].key].payment)
    /\ GoTo(r, "lock_target")
    /\ UNCHANGED <<store, numberLock>>

(* With both rows locked: their statuses, the payment's balance from its   *)
(* allocations and the target's from its paid_amount.                      *)
Acceptable(k) ==
    LET payment == Payload[k].payment
        target  == Payload[k].target
    IN  /\ docs[payment].status = "POSTED" /\ docs[target].status = "POSTED"
        /\ Amount(k) + Allocated(payment) <= docs[payment].total
        /\ Amount(k) + docs[target].paid <= docs[target].total

AllocateLockTarget(r) ==
    /\ pc[r] = "lock_target"
    /\ LoadLocked(r, Payload[local[r].key].target)
    /\ Acceptable(local[r].key)
    /\ GoTo(r, "allocate_commit")
    /\ UNCHANGED <<store, numberLock>>

(* Mutants: the trigger without the target's sum, and a key column that    *)
(* is not unique.                                                          *)
TriggerSumsPayment(k) ==
    /\ k \notin allocs
    /\ Amount(k) + Allocated(Payload[k].payment) <= docs[Payload[k].payment].total
TriggerTakesAnyKey(k) ==
    \A d \in {Payload[k].payment, Payload[k].target} :
        Amount(k) + Allocated(d) <= docs[d].total
(* The trigger fn_guard_allocation sums both sides again on INSERT, and    *)
(* idempotency_key is unique.                                              *)
TriggerAccepts(k) ==
    /\ k \notin allocs
    /\ \A d \in {Payload[k].payment, Payload[k].target} :
           Amount(k) + Allocated(d) <= docs[d].total

AllocateCommit(r) ==
    LET k == local[r].key IN
    /\ pc[r] = "allocate_commit"
    /\ TriggerAccepts(k)
    /\ docs' = [d \in Doc |-> IF Touches(k, d)
                              THEN [docs[d] EXCEPT !.paid = local[r].seen[d] + Amount(k)]
                              ELSE docs[d]]
    /\ allocs' = allocs \cup {k}
    /\ settled' = [settled EXCEPT ![k] = @ + 1]
    /\ Release(r)
    /\ UNCHANGED <<journals, periods, lastNo>>

-----------------------------------------------------------------------------
(* close_period, reopen_period and update_period write the status          *)
(* unconditionally, without locking out the postings in flight.            *)
ClosePeriod(p) ==
    /\ periods' = [periods EXCEPT ![p] = "CLOSED"]
    /\ UNCHANGED <<docs, allocs, settled, journals, lastNo,
                   docLock, numberLock, pc, local>>
ReopenPeriod(p) ==
    /\ periods' = [periods EXCEPT ![p] = "OPEN"]
    /\ UNCHANGED <<docs, allocs, settled, journals, lastNo,
                   docLock, numberLock, pc, local>>

-----------------------------------------------------------------------------
(* A check that raises, or a constraint that fails, rolls back.            *)
Refused(r) ==
    LET d == local[r].doc IN
    \/ pc[r] = "edit_write"  /\ docLock[d] = Free /\ ~Exists(d)
    \/ pc[r] = "erase_write" /\ docLock[d] = Free /\ ~(Exists(d) /\ Erasable(d))
    \/ pc[r] = "post_check" /\ ~AcceptsEntry(PeriodOf[d], local[r].total)
    \/ pc[r] = "reverse_write"  /\ ~AcceptsEntry(Today, local[r].total)
                                /\ \A o \in ToUpdate(r) : docLock[o] = r
    \/ pc[r] = "lock_payment" /\ ~Exists(Payload[local[r].key].payment)
    \/ pc[r] = "lock_target" /\ docLock[Payload[local[r].key].target] = Free
                             /\ ~Acceptable(local[r].key)
    \/ pc[r] = "allocate_commit" /\ ~TriggerAccepts(local[r].key)

(* The requests whose locks request r is waiting for.                      *)
Blockers(r) ==
    LET wanted == CASE pc[r] = "lock_payment"  -> {Payload[local[r].key].payment}
                    [] pc[r] = "lock_target"   -> {Payload[local[r].key].target}
                    [] pc[r] = "reverse_write" -> ToUpdate(r)
                    [] pc[r] \in {"edit_write", "erase_write"} -> {local[r].doc}
                    [] OTHER -> {}
        holders == {docLock[d] : d \in wanted} \cup
                   (IF pc[r] \in {"post_number", "reverse_number"}
                    THEN {numberLock} ELSE {})
    IN  holders \ {Free, r}

(* Mutant: no deadlock detector.                                           *)
NeverDeadlocked(r) == FALSE
(* r is on a cycle of requests that wait for one another.                  *)
Deadlocked(r) ==
    \E S \in SUBSET Requests :
        /\ r \in S
        /\ \A s \in S : Blockers(s) \cap S # {} /\ \E t \in S : s \in Blockers(t)

Refuse(r) == Refused(r) /\ Release(r) /\ UNCHANGED store
(* PostgreSQL's deadlock detector aborts one transaction of the cycle.     *)
DeadlockVictim(r) == Deadlocked(r) /\ Release(r) /\ UNCHANGED store
(* A crash, a lost connection or a timeout before COMMIT (get_session).    *)
Rollback(r) == pc[r] # "idle" /\ Release(r) /\ UNCHANGED store

-----------------------------------------------------------------------------
Init ==
    /\ docs = [d \in Doc |-> [status |-> "ABSENT", total |-> 0,
                              paid |-> 0, posting |-> 0]]
    /\ allocs = {} /\ settled = [k \in Keys |-> 0] /\ journals = {}
    /\ periods = [p \in Periods |-> "OPEN"]
    /\ lastNo = 0
    /\ docLock = [d \in Doc |-> Free]
    /\ numberLock = Free
    /\ pc = [r \in Requests |-> "idle"]
    /\ local = [r \in Requests |-> NoTransaction]

Edit(r)  == (\E d \in Doc, t \in Totals : EditRead(r, d, t)) \/ EditWrite(r)
Erase(r) == (\E d \in Doc : EraseRead(r, d)) \/ EraseWrite(r)
Post(r)  == (\E d \in Doc : PostBegin(r, d)) \/ PostNumber(r)
           \/ PostCheck(r) \/ PostCommit(r)
Reverse(r) == \/ \E d \in Doc : ReverseBegin(r, d) \/ ReverseLock(r, d)
              \/ ReverseNumber(r) \/ ReverseRead(r)
              \/ ReverseCheck(r) \/ ReverseCommit(r)
Allocate(r) == \/ \E k \in Keys : AllocateLookup(r, k)
               \/ AllocateLockPayment(r) \/ AllocateLockTarget(r)
               \/ AllocateCommit(r)

Next ==
    \/ \E d \in Doc, t \in Totals : CreateDocument(d, t)
    \/ \E p \in Periods : ClosePeriod(p) \/ ReopenPeriod(p)
    \/ \E r \in Requests : \/ Edit(r) \/ Erase(r) \/ Post(r) \/ Reverse(r)
                           \/ Allocate(r)
                           \/ Refuse(r) \/ DeadlockVictim(r) \/ Rollback(r)

Spec == Init /\ [][Next]_vars

(* A started request runs on: each of its steps is retried while it can be *)
(* taken, lock queues are served, and deadlocks are detected.  Nothing is  *)
(* assumed about clients, period changes or crashes.                       *)
Continue(r) ==
    \/ EditWrite(r) \/ EraseWrite(r)
    \/ PostNumber(r) \/ PostCheck(r) \/ PostCommit(r)
    \/ ReverseNumber(r) \/ ReverseRead(r) \/ ReverseCheck(r) \/ ReverseCommit(r)
    \/ \E o \in Doc : ReverseLock(r, o)
    \/ AllocateLockPayment(r) \/ AllocateLockTarget(r) \/ AllocateCommit(r)
    \/ Refuse(r)
FairSpec == /\ Spec
            /\ \A r \in Requests : SF_vars(Continue(r)) /\ WF_vars(DeadlockVictim(r))

-----------------------------------------------------------------------------
(* Properties.                                                             *)

TypeOK ==
    /\ docs \in [Doc -> Document]
    /\ allocs \subseteq Keys
    /\ settled \in [Keys -> Nat]
    /\ journals \subseteq Entry
    /\ periods \in [Periods -> {"OPEN", "CLOSED"}]
    /\ lastNo \in Nat
    /\ docLock \in [Doc -> Requests \cup {Free}]
    /\ numberLock \in Requests \cup {Free}
    /\ pc \in [Requests -> Steps]
    /\ local \in [Requests -> Transaction]

Reversing == {"reverse_read", "reverse_write", "reverse_commit"}

(* What request r holds, and what its locks let it rely on, at each step.  *)
Relies(r) ==
    /\ \A d \in Doc : docLock[d] = r => pc[r] # "idle" /\ Exists(d)
    /\ pc[r] \in {"lock_payment", "lock_target", "allocate_commit"} => local[r].key \in Keys
    /\ pc[r] \notin {"idle", "lock_payment", "lock_target", "allocate_commit"} => local[r].doc \in Doc
    /\ pc[r] = "edit_write" => local[r].total \in Totals
    /\ pc[r] \in {"lock_target", "allocate_commit"} =>
          docLock[Payload[local[r].key].payment] = r
    /\ pc[r] = "allocate_commit" =>
          /\ docLock[Payload[local[r].key].target] = r
          /\ docs[Payload[local[r].key].payment].status = "POSTED"
          /\ docs[Payload[local[r].key].target].status = "POSTED"
    /\ pc[r] \in {"post_number", "post_check", "post_commit"} =>
          docLock[local[r].doc] = r /\ docs[local[r].doc].status = "DRAFT"
    /\ pc[r] \in {"reverse_number"} \cup Reversing =>
          docLock[local[r].doc] = r /\ docs[local[r].doc].status = "POSTED"
    /\ pc[r] \in {"post_check", "post_commit"} \cup Reversing <=> numberLock = r
    /\ numberLock = r => local[r].no = lastNo + 1
    /\ pc[r] \in Reversing =>
          \E j \in journals : /\ j.no = docs[local[r].doc].posting
                             /\ local[r].total = j.amount
    /\ pc[r] \in {"reverse_write", "reverse_commit"} =>
          local[r].undo = {k \in allocs : Touches(k, local[r].doc)}

(* The lock protocol the safety of the subledger rests on: every request   *)
(* holds the locks its step needs, and what it has read under them is      *)
(* still so.                                                               *)
LockProtocol == \A r \in Requests : Relies(r)

(* An allocation row only ever joins two POSTED documents: no reversal,    *)
(* running beside an allocation, can leave a row on a reversed document    *)
(* (reverse_document against allocate_payment).                            *)
AllocationsJoinPosted ==
    \A k \in allocs : /\ docs[Payload[k].payment].status = "POSTED"
                      /\ docs[Payload[k].target].status = "POSTED"

(* FR-133, FR-134: the allocations of a payment or of an invoice never add *)
(* up to more than its total, even after paid_amount has drifted.          *)
NoOverAllocation == \A d \in Doc : Allocated(d) <= docs[d].total

(* The ledger agrees with the document's life cycle: nothing is posted for *)
(* a draft, a posted document has exactly one entry, and a reversed one    *)
(* has exactly that entry and one reversal that mirrors it.                *)
LedgerMatchesLifecycle ==
    \A d \in Doc :
        /\ docs[d].posting # 0 <=> docs[d].status \in {"POSTED", "REVERSED"}
        /\ docs[d].posting = 0 => EntriesOf(d) = {}
        /\ docs[d].status = "POSTED" =>
              \E j \in journals : /\ EntriesOf(d) = {j} /\ j.kind = "AUTOMATIC"
                                 /\ j.no = docs[d].posting
        /\ docs[d].status = "REVERSED" =>
              \E j, v \in journals :
                  /\ EntriesOf(d) = {j, v} /\ j.kind = "AUTOMATIC"
                  /\ j.no = docs[d].posting
                  /\ v.kind = "REVERSAL" /\ v.reverses = j.no /\ v.amount = j.amount

(* FR-162: journal numbers are never issued twice, and a rolled back       *)
(* posting gives its number back (allocate_number).                        *)
NumbersUniqueAndGapless ==
    /\ {j.no : j \in journals} = 1..lastNo
    /\ \A j, v \in journals : j.no = v.no => j = v

(* A request retried under its Idempotency-Key never settles twice, not    *)
(* even after the first allocation was undone by a reversal.               *)
RetriedKeySettlesOnce == \A k \in Keys : settled[k] <= 1

(* paid_amount is "Amount already settled through                          *)
(* financial_document_allocations" (docs/06_database_design.sql:3186).     *)
PaidIsAllocated ==
    \A d \in Doc : docs[d].status # "ABSENT" => docs[d].paid = Allocated(d)

(* r's reversal takes back an allocation of d that it subtracted from a    *)
(* paid_amount another transaction has changed since r read it.            *)
StaleReversal(r, d) == /\ ReverseCommit(r)
                       /\ \E k \in local[r].undo : d = OtherSide(k, local[r].doc)
                       /\ local[r].seen[d] # docs[d].paid

(* Once paid_amount is what the allocations say it stays so, under every   *)
(* overlap of postings, saves, deletions, allocations and reversals but    *)
(* one: a reversal that works from a paid_amount it read before another    *)
(* transaction changed it (and writes it back, or finds nothing to write). *)
PaidDriftsOnlyByStaleReversal ==
    [][\A d \in Doc : docs[d].paid = Allocated(d) =>
          \/ (docs[d].paid = Allocated(d))'
          \/ \E r \in Requests : StaleReversal(r, d)]_vars

(* INV-009 says that a closed period cannot accept posting.  What the      *)
(* deferred trigger does guarantee: once a period is closed and no COMMIT  *)
(* overlaps the closing, nothing enters it until it is reopened, however   *)
(* early a waiting request had read it as open.                            *)
Committing(r, p) == \/ pc[r] = "post_commit" /\ PeriodOf[local[r].doc] = p
                    \/ pc[r] = "reverse_commit" /\ Today = p
Sealed(p) == periods[p] = "CLOSED" /\ \A r \in Requests : ~Committing(r, p)
ClosedPeriodsStaySealed ==
    [][\A p \in Periods : Sealed(p) =>
          \/ periods'[p] = "OPEN"
          \/ Sealed(p)' /\ \A j \in journals' \ journals : j.period # p]_vars

(* INV-006: once a document has posted, its terms never change, and they   *)
(* are the terms its journal entry was written from.                       *)
PostedTermsFrozen ==
    \A d \in Doc : docs[d].posting # 0 =>
        \E j \in journals : j.no = docs[d].posting /\ j.amount = docs[d].total

(* A draft deletion that lost the race against a posting removes nothing:  *)
(* a document with a posting link keeps it for ever.                       *)
PostedNeverErased ==
    [][\A d \in Doc : docs[d].posting # 0 => docs'[d].posting = docs[d].posting]_vars

(* The subledger implements the abstract settlement: seen from outside,    *)
(* every request either does one indivisible Settlement step or nothing.   *)
Abstract == INSTANCE Settlement
    WITH status <- [d \in Doc |-> docs[d].status],
         total  <- [d \in Doc |-> docs[d].total],
         allocs <- allocs,
         Sum    <- SumOf
ImplementsSettlement == Abstract!Spec

(* Without any assumption on who runs what: the save that was checked as a *)
(* draft and lands on a document posted or reversed meanwhile is the only  *)
(* step of the subledger that is not a step of the settlement.             *)
LateSave(r) == EditWrite(r) /\ docs[local[r].doc].status # "DRAFT"
SettlesButForLateSaves ==
    /\ Abstract!Init
    /\ [][Abstract!Next \/ \E r \in Requests : LateSave(r)]_(Abstract!vars)

(* No request waits for ever: lock queues and deadlocks are resolved.      *)
EveryRequestCompletes ==
    \A r \in Requests : pc[r] # "idle" ~> pc[r] = "idle"

=============================================================================
