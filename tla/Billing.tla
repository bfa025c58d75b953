------------------------------- MODULE Billing -------------------------------
(***************************************************************************)
(* From service charges to draft invoices: the charges of one service      *)
(* order, and the customer invoices generated from them                    *)
(* (backend/app/modules/operations/service.py: save_charge, issue_charge,  *)
(* delete_charges, charge_to_invoice; backend/app/modules/finance/         *)
(* service.py: create_invoice_from_charge,                                 *)
(* create_invoice_from_service_order).                                     *)
(*                                                                         *)
(* As in Subledger a request is one READ COMMITTED transaction, and its    *)
(* steps are the points where it observes or waits for another one.  The   *)
(* generated documents are posted, reversed and deleted by the subledger,  *)
(* which does each of these in one indivisible step (Settlement).          *)
(***************************************************************************)
EXTENDS Integers, FiniteSets, FiniteSetsExt

CONSTANTS
    Charges,      \* the charges that may be made under the order
    Totals,       \* the totals a charge may be saved with (bound)
    Requests,     \* concurrent requests (bound)
    MayDo,        \* the operations the requests perform
    MaxInvoices,  \* invoice numbers available (bound)
    Free          \* the holder of a lock nobody holds

Operations == {"save", "delete", "issue", "bill_charge", "bill_order"}

ASSUME BillingAssumption ==
    /\ Totals \subseteq Nat
    /\ MayDo \subseteq Operations
    /\ MaxInvoices \in Nat
    /\ Free \notin Requests

VARIABLES
    charges,     \* committed rows of service_order_charges
    invoices,    \* generated financial_documents with their source rows
    lastNo,      \* last_value of the CUSTOMER_INVOICE sequence
    chargeLock,  \* the request holding each charge's row lock
    numberLock,  \* the request holding the CUSTOMER_INVOICE sequence row
    pc,          \* where each request is
    local        \* what each request has read

store == <<charges, invoices, lastNo>>
vars  == <<charges, invoices, lastNo, chargeLock, numberLock, pc, local>>

Charge == [status : {"ABSENT", "DRAFT", "ISSUED", "ERASED"}, total : Nat]
(* bills: the charges of the SERVICE_ORDER_CHARGE sources.  from: which    *)
(* command generated it; "order" adds a SERVICE_ORDER source.  priced: the *)
(* charge totals the document's total was summed from.  lines: what its    *)
(* lines charge for each charge.                                           *)
Invoice == [no : Nat, status : {"DRAFT", "POSTED", "REVERSED"},
            from : {"issue", "charge", "order"}, bills : SUBSET Charges,
            priced : [Charges -> Nat], lines : [Charges -> Nat]]
Steps == {"idle", "save_write", "delete_write", "order_read",
          "take_number", "issue_commit", "bill_commit"}
Transaction == [from : {"none", "issue", "charge", "order"},
                bills : SUBSET Charges, priced : [Charges -> Nat], no : Nat]
Nothing == [c \in Charges |-> 0]
NoTransaction == [from |-> "none", bills |-> {}, priced |-> Nothing, no |-> 0]

-----------------------------------------------------------------------------
SumOf(lines) == MapThenSumSet(LAMBDA c : lines[c], Charges)
Lines(cs) == [c \in Charges |-> IF c \in cs THEN charges[c].total ELSE 0]

Exists(c) == charges[c].status \in {"DRAFT", "ISSUED"}
(* Mutant: every charge of the order counted.                              *)
OrderTotals(cs) == Lines(Charges)
(* What the total of an invoice for the charges cs is summed from.         *)
Totalled(cs) == Lines(cs)
(* Mutant: an order-level invoice without the links to its charges.        *)
HasChargeSource(c) == \E i \in invoices : c \in i.bills /\ i.from # "order"
(* Mutant: a source of a reversed document no longer counts.               *)
HasLiveSource(c) == \E i \in invoices : c \in i.bills /\ i.status # "REVERSED"
(* A SERVICE_ORDER_CHARGE source exists, whatever became of its document.  *)
HasSource(c) == \E i \in invoices : c \in i.bills
(* _service_order_invoice_documents: either link shape, reversed excluded. *)
OrderInvoiced == \E i \in invoices :
    i.status # "REVERSED" /\ (i.from = "order" \/ \E c \in i.bills : Exists(c))

GoTo(r, step) == pc' = [pc EXCEPT ![r] = step]
Release(r) ==
    /\ pc' = [pc EXCEPT ![r] = "idle"]
    /\ local' = [local EXCEPT ![r] = NoTransaction]
    /\ chargeLock' = [c \in Charges |-> IF chargeLock[c] = r THEN Free ELSE chargeLock[c]]
    /\ numberLock' = IF numberLock = r THEN Free ELSE numberLock

-----------------------------------------------------------------------------
(* save_charge without an id.                                              *)
CreateCharge(c, total) ==
    /\ charges[c].status = "ABSENT"
    /\ charges' = [charges EXCEPT ![c] = [status |-> "DRAFT", total |-> total]]
    /\ UNCHANGED <<invoices, lastNo, chargeLock, numberLock, pc, local>>

Editable(c) == charges[c].status = "DRAFT"

(* save_charge with an id: session.get takes no lock, the status is        *)
(* checked now and the new lines and totals are written later.             *)
SaveRead(r, c, total) ==
    /\ pc[r] = "idle" /\ "save" \in MayDo
    /\ Editable(c)
    /\ local' = [local EXCEPT ![r].bills = {c}, ![r].priced[c] = total]
    /\ GoTo(r, "save_write")
    /\ UNCHANGED <<store, chargeLock, numberLock>>

(* The lines' foreign key and the UPDATE wait for the charge's row lock.   *)
SaveWrite(r, c) ==
    /\ pc[r] = "save_write" /\ local[r].bills = {c}
    /\ chargeLock[c] = Free
    /\ Exists(c)
    /\ charges' = [charges EXCEPT ![c].total = local[r].priced[c]]
    /\ Release(r)
    /\ UNCHANGED <<invoices, lastNo>>

(* delete_charges: the drafts are selected without a lock ...              *)
DeleteRead(r, c) ==
    /\ pc[r] = "idle" /\ "delete" \in MayDo
    /\ charges[c].status = "DRAFT"
    /\ local' = [local EXCEPT ![r].bills = {c}]
    /\ GoTo(r, "delete_write")
    /\ UNCHANGED <<store, chargeLock, numberLock>>

(* ... and deleted by id.  No source row refers to them by a foreign key.  *)
DeleteWrite(r, c) ==
    /\ pc[r] = "delete_write" /\ local[r].bills = {c}
    /\ chargeLock[c] = Free
    /\ Exists(c)
    /\ charges' = [charges EXCEPT ![c] = [status |-> "ERASED", total |-> 0]]
    /\ Release(r)
    /\ UNCHANGED <<invoices, lastNo>>

(* The row a save or a deletion waited for was deleted meanwhile.          *)
Refuse(r, c) ==
    /\ pc[r] \in {"save_write", "delete_write"} /\ local[r].bills = {c}
    /\ chargeLock[c] = Free
    /\ ~Exists(c)
    /\ Release(r)
    /\ UNCHANGED store

-----------------------------------------------------------------------------
Issuable(c) == charges[c].status \in {"DRAFT", "ISSUED"} /\ charges[c].total > 0
StartIssue(r, c) ==
    /\ local' = [local EXCEPT ![r] = [from |-> "issue", bills |-> {c},
                                     priced |-> Totalled({c}), no |-> 0]]
    /\ GoTo(r, IF HasSource(c) THEN "issue_commit" ELSE "take_number")

(* Mutant: the charge read without FOR UPDATE.                             *)
IssueBeginUnlocked(r, c) ==
    /\ pc[r] = "idle" /\ "issue" \in MayDo
    /\ Issuable(c)
    /\ StartIssue(r, c)
    /\ UNCHANGED <<store, chargeLock, numberLock>>

(* issue_charge: the charge is locked first, then looked up among the      *)
(* sources; only a charge without one goes on to get an invoice.  (The     *)
(* router's earlier unlocked read of the status leaves nothing behind: the *)
(* session holds unreferenced rows weakly, so the locked read is fresh.)   *)
IssueBegin(r, c) ==
    /\ pc[r] = "idle" /\ "issue" \in MayDo
    /\ Issuable(c)
    /\ chargeLock[c] = Free
    /\ chargeLock' = [chargeLock EXCEPT ![c] = r]
    /\ StartIssue(r, c)
    /\ UNCHANGED <<store, numberLock>>

(* charge_to_invoice: session.get, then the unlocked look-up.  A charge    *)
(* with a source is answered with that document and changes nothing.       *)
BillCharge(r, c) ==
    /\ pc[r] = "idle" /\ "bill_charge" \in MayDo
    /\ charges[c].status = "ISSUED"
    /\ ~HasSource(c)
    /\ local' = [local EXCEPT ![r] = [from |-> "charge", bills |-> {c},
                                     priced |-> Totalled({c}), no |-> 0]]
    /\ GoTo(r, "take_number")
    /\ UNCHANGED <<store, chargeLock, numberLock>>

(* create_invoice_from_service_order: an order with a live invoice is      *)
(* answered with it ...                                                    *)
OrderLookup(r) ==
    /\ pc[r] = "idle" /\ "bill_order" \in MayDo
    /\ ~OrderInvoiced
    /\ GoTo(r, "order_read")
    /\ UNCHANGED <<store, chargeLock, numberLock, local>>

(* ... otherwise every charge without a source is billed, in any status.   *)
OrderRead(r) ==
    LET pending == {c \in Charges : Exists(c) /\ ~HasSource(c)} IN
    /\ pc[r] = "order_read"
    /\ IF pending = {} THEN Release(r)
       ELSE /\ local' = [local EXCEPT ![r] = [from |-> "order", bills |-> pending,
                                             priced |-> Totalled(pending), no |-> 0]]
            /\ GoTo(r, "take_number")
            /\ UNCHANGED <<chargeLock, numberLock>>
    /\ UNCHANGED store

(* allocate_number: every new invoice waits for the sequence row.          *)
TakeNumber(r) ==
    /\ pc[r] = "take_number"
    /\ lastNo < MaxInvoices
    /\ numberLock = Free /\ numberLock' = r
    /\ local' = [local EXCEPT ![r].no = lastNo + 1]
    /\ GoTo(r, "bill_commit")
    /\ UNCHANGED <<store, chargeLock>>

(* The total is of the charges as read before the number was waited for,   *)
(* the lines are copied now; document, lines, sources and the status that  *)
(* issue_charge writes become visible together.                            *)
BillCommit(r) ==
    LET bills == local[r].bills IN
    /\ pc[r] = "bill_commit"
    /\ invoices' = invoices \cup
         {[no |-> local[r].no, status |-> "DRAFT", from |-> local[r].from,
           bills |-> bills, priced |-> local[r].priced, lines |-> Lines(bills)]}
    /\ lastNo' = local[r].no
    /\ charges' = IF local[r].from = "issue"
                  THEN [c \in Charges |-> IF c \in bills
                          THEN [charges[c] EXCEPT !.status = "ISSUED"] ELSE charges[c]]
                  ELSE charges
    /\ Release(r)

(* issue_charge for a charge that already has a source.                    *)
IssueCommit(r) ==
    /\ pc[r] = "issue_commit"
    /\ charges' = [c \in Charges |-> IF c \in local[r].bills
                     THEN [charges[c] EXCEPT !.status = "ISSUED"] ELSE charges[c]]
    /\ Release(r)
    /\ UNCHANGED <<invoices, lastNo>>

(* A crash, a lost connection or a refused later check before COMMIT.      *)
Rollback(r) == pc[r] # "idle" /\ Release(r) /\ UNCHANGED store

-----------------------------------------------------------------------------
(* The subledger's steps on a generated invoice.                           *)
Become(i, status) ==
    /\ invoices' = (invoices \ {i}) \cup {[i EXCEPT !.status = status]}
    /\ UNCHANGED <<charges, lastNo, chargeLock, numberLock, pc, local>>
PostInvoice(i) == i.status = "DRAFT" /\ Become(i, "POSTED")
ReverseInvoice(i) == i.status = "POSTED" /\ Become(i, "REVERSED")
(* The sources of a deleted draft go with it (ON DELETE CASCADE).          *)
EraseInvoice(i) ==
    /\ i.status = "DRAFT"
    /\ invoices' = invoices \ {i}
    /\ UNCHANGED <<charges, lastNo, chargeLock, numberLock, pc, local>>

-----------------------------------------------------------------------------
Init ==
    /\ charges = [c \in Charges |-> [status |-> "ABSENT", total |-> 0]]
    /\ invoices = {} /\ lastNo = 0
    /\ chargeLock = [c \in Charges |-> Free]
    /\ numberLock = Free
    /\ pc = [r \in Requests |-> "idle"]
    /\ local = [r \in Requests |-> NoTransaction]

ChargeStep(r, c) ==
    \/ \E total \in Totals : SaveRead(r, c, total)
    \/ SaveWrite(r, c) \/ DeleteRead(r, c) \/ DeleteWrite(r, c) \/ Refuse(r, c)
    \/ IssueBegin(r, c) \/ BillCharge(r, c)

Next ==
    \/ \E c \in Charges, total \in Totals : CreateCharge(c, total)
    \/ \E r \in Requests, c \in Charges : ChargeStep(r, c)
    \/ \E r \in Requests : \/ OrderLookup(r) \/ OrderRead(r) \/ TakeNumber(r)
                           \/ BillCommit(r) \/ IssueCommit(r) \/ Rollback(r)
    \/ \E i \in invoices : PostInvoice(i) \/ ReverseInvoice(i) \/ EraseInvoice(i)

Spec == Init /\ [][Next]_vars

-----------------------------------------------------------------------------
(* Properties.                                                             *)

TypeOK ==
    /\ charges \in [Charges -> Charge]
    /\ invoices \subseteq Invoice
    /\ lastNo \in Nat
    /\ chargeLock \in [Charges -> Requests \cup {Free}]
    /\ numberLock \in Requests \cup {Free}
    /\ pc \in [Requests -> Steps]
    /\ local \in [Requests -> Transaction]

Issuing(r) == local[r].from = "issue"
FromIssue(i) == i.from = "issue"

(* What issue_charge relies on while it holds the charge: the row is as it *)
(* was read, and no other issue has billed it meanwhile.                   *)
Relies(r) ==
    /\ pc[r] \in {"idle", "save_write", "delete_write", "order_read"}
          <=> local[r].from = "none"
    /\ pc[r] = "issue_commit" => Issuing(r)
    /\ Issuing(r) =>
         \E c \in Charges :
            /\ local[r].bills = {c}
            /\ chargeLock[c] = r
            /\ Issuable(c) /\ local[r].priced = Lines({c})
            /\ pc[r] # "issue_commit" =>
                  \A i \in invoices : FromIssue(i) => c \notin i.bills

(* The lock protocol of issuing (issue_charge).                            *)
IssueProtocol == TypeOK /\ \A r \in Requests : Relies(r)

Live(i) == i.status # "REVERSED"
BothBill(i, j) == i.bills \cap j.bills # {}

(* FR-108: a charge is billed by at most one invoice that stands           *)
(* (create_invoice_from_charge, create_invoice_from_service_order).        *)
BilledOnce ==
    \A i, j \in invoices : Live(i) /\ Live(j) /\ BothBill(i, j) => i = j

(* Issuing alone never bills a charge twice, whatever else runs beside it: *)
(* not when it is repeated, nor after its invoice was posted or reversed   *)
(* (issue_charge).                                                         *)
IssuingBillsOnce ==
    \A i, j \in invoices :
        FromIssue(i) /\ FromIssue(j) /\ BothBill(i, j) => i = j

(* The invoice that issuing makes bills one charge, in the step that makes *)
(* the charge ISSUED, at exactly the total the charge then has, although   *)
(* saves, deletions and other issues wait for the row (issue_charge holds  *)
(* the lock to COMMIT).                                                    *)
IssuedTermsAreBilled ==
    [][\A i \in invoices' \ invoices : FromIssue(i) /\ i.status = "DRAFT" =>
          \E c \in Charges : /\ i.bills = {c}
                             /\ charges'[c].status = "ISSUED"
                             /\ i.priced = i.lines
                             /\ i.lines[c] = charges'[c].total]_vars

(* An invoice's total is the sum of its lines.                             *)
InvoiceAddsUp == \A i \in invoices : SumOf(i.priced) = SumOf(i.lines)

=============================================================================
