------------------------------ MODULE Balances ------------------------------
(* The lists of balances and the dashboard (reports/service.py:              *)
(* receivables, payables, profitability, trial_balance, dashboard;           *)
(* reports/repository.py: service_order_finance_rows).  Each is computed     *)
(* from the documents, or from the lines of their journals, and cached until *)
(* a bump or its TTL.  A value of the cache is modelled by the books it was  *)
(* computed from; the dashboard by those that each of its SELECTs saw, the   *)
(* two lists among them through the cache of their own.                      *)
EXTENDS Integers, Sequences, FiniteSetsExt, Functions

CONSTANTS
    Papers,        \* financial documents
    PaperOf,       \* what each says: [type, job, net, tax, date, due, bills, whole]
    Jobs,          \* service orders
    JobCharges,    \* service charges
    ChargeOf,      \* each one's order and total: [job, amount]
    Today,         \* the day the reports are asked for
    InitialBooks,  \* what is committed at first
    Boards,        \* readers of the reports
    MaxCommits,    \* commits (bound)
    MaxMeanwhile,  \* those of them once a report has been asked for (bound)
    MaxBegun,      \* requests on charges between check and COMMIT (bound)
    NoJob,
    NoDoc,
    NoDate

Types == {"CUSTOMER_INVOICE", "CREDIT_NOTE", "SUPPLIER_BILL", "CUSTOMER_RECEIPT",
          "SUPPLIER_PAYMENT"}
OfType(types) == {d \in Papers : PaperOf[d].type \in types}
Payments == OfType({"CUSTOMER_RECEIPT", "SUPPLIER_PAYMENT"})
Targets == OfType({"CUSTOMER_INVOICE", "SUPPLIER_BILL"})
PaperTotal(d) == PaperOf[d].net + PaperOf[d].tax
Worth(set) == SumFunction([d \in set |-> PaperTotal(d)])
Charged(set) == SumFunction([c \in set |-> ChargeOf[c].amount])
(* bills: the charges that a paper's sources name; whole: its order is one  *)
(* too.  A paper without sources is made by hand.                           *)
Bills(d) == PaperOf[d].bills
Generated == {d \in Papers : Bills(d) # {}}

ASSUME BalancesAssumption ==
    /\ IsFiniteSet(Papers) /\ NoDoc \notin Papers /\ IsFiniteSet(JobCharges)
    /\ \A c \in JobCharges : ChargeOf[c].amount \in Nat
    /\ \A d \in Papers :
          /\ PaperOf[d].type \in Types /\ PaperOf[d].job \in Jobs \cup {NoJob}
          /\ {PaperOf[d].net, PaperOf[d].tax} \subseteq Nat
          /\ PaperOf[d].type \in {"CUSTOMER_RECEIPT", "SUPPLIER_PAYMENT"} => PaperOf[d].tax = 0
          /\ Bills(d) \subseteq {c \in JobCharges : ChargeOf[c].job = PaperOf[d].job}
          /\ d \in Generated => /\ PaperOf[d].type = "CUSTOMER_INVOICE"
                                /\ PaperTotal(d) = Charged(Bills(d))

VARIABLES
    books,     \* what is committed: documents, allocations, charges and orders
    shelf,     \* the reports in the cache, under the present version
    board,     \* what each reader is computing
    unposted,  \* commits whose cache.bump is to come
    commits,   \* commits so far, and those since a report was asked for
    undoing,   \* the document a reversal undoes, and the paid_amounts it read
    drifted,   \* targets a reversal wrote a stale paid_amount to (history)
    begun      \* requests on charges between their checks and COMMIT

requestVars == <<undoing, drifted, begun>>
balanceVars == <<books, shelf, board, unposted, commits, undoing, drifted, begun>>

-----------------------------------------------------------------------------
(* paid_amount, what the allocations say it is, and what is outstanding.    *)
Paid(b, d) == b.paid[d]
Settled(b, d) == SumFunction([p \in Payments |-> b.settled[<<p, d>>]])
Spent(b, p) == SumFunction([d \in Targets |-> b.settled[<<p, d>>]])
Outstanding(b, d) == PaperTotal(d) - Paid(b, d)

(* What may be committed: allocations join posted documents, and no target  *)
(* is paid above its total.                                                 *)
Books == [paper : [Papers -> {"NONE", "DRAFT", "POSTED", "REVERSED"}],
          charge : [JobCharges -> {"NONE", "DRAFT", "ISSUED", "GONE"}],
          settled : [Payments \X Targets -> Nat], paid : [Targets -> Nat],
          job : [Jobs -> {"ACTIVE", "INACTIVE", "FINISHED"}]]
BooksSound(b) ==
    /\ b \in Books
    /\ \A p \in Payments, d \in Targets :
          b.settled[<<p, d>>] # 0 => b.paper[p] = "POSTED" /\ b.paper[d] = "POSTED"
    /\ \A d \in Targets : Paid(b, d) <= PaperTotal(d)
PaidUp(b, d) == Paid(b, d) = Settled(b, d)
ASSUME InitialBooksAssumption ==
    \A b \in InitialBooks : BooksSound(b) /\ \A d \in Targets : PaidUp(b, d)

InState(b, types, status) == {d \in OfType(types) : b.paper[d] = status}
(* receivables, payables: the balance of every posted document of a type.   *)
Owed(b, type) ==
    [d \in InState(b, {type}, "POSTED") |->
        [balance |-> Outstanding(b, d),
         status |-> IF Outstanding(b, d) <= 0 THEN "PAID"
                    ELSE IF Paid(b, d) > 0 THEN "PARTIAL" ELSE "OPEN"]]
CardTotal(list) == SumFunction([d \in DOMAIN list |-> list[d].balance])

(* _aging_bucket and _bucketize; a document without a due date takes its    *)
(* own date.                                                                *)
Buckets == {"not_due", "d1_30", "d31_60", "d61_90", "d90_plus"}
BucketOf(d) ==
    LET due == PaperOf[d].due
        days == Today - (IF due = NoDate THEN PaperOf[d].date ELSE due)
    IN IF days <= 0 THEN "not_due" ELSE IF days <= 30 THEN "d1_30"
       ELSE IF days <= 60 THEN "d31_60" ELSE IF days <= 90 THEN "d61_90" ELSE "d90_plus"
Aging(list) ==
    [k \in Buckets |-> SumFunction([d \in
        {d \in DOMAIN list : list[d].balance > 0 /\ BucketOf(d) = k} |->
            list[d].balance])]

(* profitability: one row for each order.                                   *)
ProfitRow(b, j) ==
    LET totalled(type, status) ==
            Worth({d \in InState(b, {type}, status) : PaperOf[d].job = j})
        charged(status) ==
            Charged({c \in JobCharges : ChargeOf[c].job = j /\ b.charge[c] = status})
        revenue == totalled("CUSTOMER_INVOICE", "POSTED")
        draft == totalled("CUSTOMER_INVOICE", "DRAFT")
    IN [revenue |-> revenue, cost |-> totalled("SUPPLIER_BILL", "POSTED"),
        issued |-> charged("ISSUED"), drafted |-> charged("DRAFT"), draft |-> draft,
        uninvoiced |-> Max({0, charged("ISSUED") - revenue - draft})]
Profitability(b) == [j \in Jobs |-> ProfitRow(b, j)]

(* _service_order_status_counts, under the dashboard's names.               *)
JobCounts(b) ==
    LET in(status) == Cardinality({j \in Jobs : b.job[j] = status})
    IN [open |-> in("ACTIVE"), onHold |-> in("INACTIVE"), awaitingClosure |-> in("FINISHED")]

-----------------------------------------------------------------------------
(* The lines of posted journals: those of each posting and, mirrored, those *)
(* of each reversal.                                                        *)
LinesOf(d) ==
    LET line(account, debit, credit) ==
            [paper |-> d, account |-> account, debit |-> debit, credit |-> credit]
        n == PaperOf[d].net
        t == PaperOf[d].tax
        type == PaperOf[d].type
    IN CASE type = "CUSTOMER_INVOICE" ->
              {line("AR", n + t, 0), line("REVENUE", 0, n), line("TAX", 0, t)}
         [] type = "CREDIT_NOTE" ->
              {line("AR", 0, n + t), line("REVENUE", n, 0), line("TAX", t, 0)}
         [] type = "SUPPLIER_BILL" ->
              {line("AP", 0, n + t), line("EXPENSE", n, 0), line("TAX", t, 0)}
         [] type = "CUSTOMER_RECEIPT" -> {line("CASH", n, 0), line("AR", 0, n)}
         [] type = "SUPPLIER_PAYMENT" -> {line("AP", n, 0), line("CASH", 0, n)}
Mirrored(l) == [l EXCEPT !.debit = l.credit, !.credit = l.debit]
PostedJournalLines(b) ==
    LET kept(status) == UNION {LinesOf(d) : d \in InState(b, Types, status)}
    IN {[of |-> "posting", line |-> l] : l \in kept("POSTED") \cup kept("REVERSED")}
         \cup {[of |-> "reversal", line |-> Mirrored(l)] : l \in kept("REVERSED")}
AccountCodes == {"AR", "AP", "CASH", "TAX", "REVENUE", "EXPENSE"}
Debited(set) == SumFunction([l \in set |-> l.line.debit])
Credited(set) == SumFunction([l \in set |-> l.line.credit])
BalanceOf(b, a) ==
    LET side == {l \in PostedJournalLines(b) : l.line.account = a}
    IN Debited(side) - Credited(side)
(* trial_balance: every account, and the control.                           *)
TrialRows(b) == [a \in AccountCodes |-> BalanceOf(b, a)]
TrialBalanced(b) == Debited(PostedJournalLines(b)) = Credited(PostedJournalLines(b))
(* _journal_revenue_expense and _cash_bank_balance.                         *)
LedgerCards(b) == [revenue |-> -BalanceOf(b, "REVENUE"), expense |-> BalanceOf(b, "EXPENSE")]
CashCard(b) == BalanceOf(b, "CASH")

-----------------------------------------------------------------------------
(* What each report reads, in order.                                        *)
PartsOf == [receivables |-> <<"receivables">>, payables |-> <<"payables">>,
            profitability |-> <<"profitability">>, trial |-> <<"trial">>,
            dashboard |-> <<"jobs", "receivables", "payables", "ledger", "cash">>]
ReportNames == DOMAIN PartsOf
(* What a part of a report shows of the books it was computed from.         *)
Shown(part, b) ==
    CASE part = "receivables" -> Owed(b, "CUSTOMER_INVOICE")
      [] part = "payables" -> Owed(b, "SUPPLIER_BILL")
      [] part = "profitability" ->
           [j \in Jobs |-> [revenue |-> ProfitRow(b, j).revenue, cost |-> ProfitRow(b, j).cost,
                            issued |-> ProfitRow(b, j).issued]]
      [] part = "trial" -> TrialRows(b)
      [] part = "jobs" -> JobCounts(b)
      [] part = "ledger" -> LedgerCards(b)
      [] part = "cash" -> CashCard(b)

Absent == <<>>
NoBoard == [report |-> "none", parts |-> <<>>, toStore |-> FALSE]
NotUndoing == [doc |-> NoDoc]

AskReport(o, r) ==
    /\ board[o] = NoBoard /\ shelf[r] = Absent
    /\ board' = [board EXCEPT ![o].report = r]
    /\ UNCHANGED <<books, shelf, unposted, commits, requestVars>>
(* One SELECT; or, for a list inside the dashboard, the cached one.  late:  *)
(* a bump has come since the part was read.                                 *)
ReadPart(o) ==
    LET r == board[o].report
        parts == board[o].parts
        part == PartsOf[r][Len(parts) + 1]
        isList == part \in ReportNames
        hit == isList /\ shelf[part] # Absent
        read == IF hit THEN shelf[part][1] ELSE [saw |-> books, late |-> FALSE]
    IN /\ r # "none" /\ ~board[o].toStore /\ Len(parts) < Len(PartsOf[r])
       /\ board' = [board EXCEPT ![o].parts = Append(parts, read), ![o].toStore = isList /\ ~hit]
       /\ UNCHANGED <<books, shelf, unposted, commits, requestVars>>
(* set_json, of a list: the version under which it is stored is read now.   *)
StoreList(o) ==
    LET parts == board[o].parts
        part == PartsOf[board[o].report][Len(parts)]
    IN /\ board[o].toStore
       /\ shelf' = [shelf EXCEPT ![part] = <<parts[Len(parts)]>>]
       /\ board' = [board EXCEPT ![o].toStore = FALSE]
       /\ UNCHANGED <<books, unposted, commits, requestVars>>
Answer(o) ==
    LET r == board[o].report IN
    /\ r # "none" /\ ~board[o].toStore /\ Len(board[o].parts) = Len(PartsOf[r])
    /\ shelf' = IF r = "dashboard" THEN [shelf EXCEPT ![r] = board[o].parts] ELSE shelf
    /\ board' = [board EXCEPT ![o] = NoBoard]
    /\ UNCHANGED <<books, unposted, commits, requestVars>>
ExpireReport(r) ==
    /\ shelf[r] # Absent /\ shelf' = [shelf EXCEPT ![r] = Absent]
    /\ UNCHANGED <<books, board, unposted, commits, requestVars>>

-----------------------------------------------------------------------------
NoBooks ==
    [paper |-> [d \in Papers |-> "NONE"], charge |-> [c \in JobCharges |-> "NONE"],
     settled |-> [pd \in Payments \X Targets |-> 0], paid |-> [d \in Targets |-> 0],
     job |-> [j \in Jobs |-> "ACTIVE"]]

(* What the other modules commit; "bumps" when cache.bump follows.          *)
Asked == shelf # [r \in ReportNames |-> Absent] \/ \E o \in Boards : board[o] # NoBoard
Commit(new, bumps) ==
    /\ commits.all < MaxCommits
    /\ Asked \/ commits.late > 0 => commits.late < MaxMeanwhile
    /\ commits' = [all |-> commits.all + 1,
                   late |-> IF Asked \/ commits.late > 0 THEN commits.late + 1 ELSE 0]
    /\ books' = new /\ unposted' = IF bumps THEN unposted + 1 ELSE unposted
    /\ UNCHANGED <<shelf, board>>
SetPaper(d, status) == [books EXCEPT !.paper[d] = status]

(* save_document and delete_draft_documents: no bump.                       *)
SaveDraft(d) ==
    /\ d \notin Generated /\ books.paper[d] = "NONE"
    /\ Commit(SetPaper(d, "DRAFT"), FALSE) /\ UNCHANGED requestVars
DeleteDraft(d) ==
    /\ books.paper[d] = "DRAFT"
    /\ Commit(SetPaper(d, "NONE"), FALSE) /\ UNCHANGED requestVars
(* A posting waits for the number of its journal, which a reversal holds.   *)
PostDraft(d) ==
    /\ books.paper[d] = "DRAFT" /\ PaperTotal(d) > 0 /\ undoing = NotUndoing
    /\ Commit(SetPaper(d, "POSTED"), TRUE) /\ UNCHANGED requestVars

(* reverse_document locks the document and takes the number of its journal, *)
(* for which the next reversal waits; then it reads the allocations and,    *)
(* without a lock, the targets it settled.                                  *)
BeginReversal(d) ==
    /\ books.paper[d] = "POSTED" /\ undoing = NotUndoing
    /\ undoing' = [doc |-> d, seen |-> books.paid]
    /\ UNCHANGED <<books, shelf, board, unposted, commits, drifted, begun>>
(* Mutant: what was settled stays paid.                                     *)
NoneUnsettled(d) == {}
Unsettled(d) == {t \in Targets : d \in Payments /\ books.settled[<<d, t>>] # 0}
WrittenBack(d, t) == Max({0, undoing.seen[t] - books.settled[<<d, t>>]})
(* A paid_amount that comes out as it was read is not written.              *)
PaidAfter(d, t) ==
    IF t = d THEN 0
    ELSE IF t \in Unsettled(d) /\ WrittenBack(d, t) # undoing.seen[t] THEN WrittenBack(d, t)
    ELSE books.paid[t]
FinishReversal ==
    LET d == undoing.doc
        left == [pd \in Payments \X Targets |->
                    IF d \in {pd[1], pd[2]} THEN 0 ELSE books.settled[pd]]
    IN /\ undoing # NotUndoing
       /\ Commit([books EXCEPT !.paper[d] = "REVERSED", !.settled = left,
                               !.paid = [t \in Targets |-> PaidAfter(d, t)]], TRUE)
       /\ undoing' = NotUndoing
       /\ drifted' = drifted \cup {t \in Unsettled(d) : books.paid[t] # undoing.seen[t]}
       /\ UNCHANGED begun
FailReversal ==
    /\ undoing # NotUndoing /\ undoing' = NotUndoing
    /\ UNCHANGED <<books, shelf, board, unposted, commits, drifted, begun>>

(* allocate_payment: any payment may settle any open target; the payment's  *)
(* balance comes from its allocations, the target's from its paid_amount.   *)
AllocatePart(p, d, amount) ==
    /\ books.paper[p] = "POSTED" /\ books.paper[d] = "POSTED"
    /\ undoing.doc \notin {p, d}
    /\ amount <= PaperTotal(p) - Spent(books, p) /\ amount <= Outstanding(books, d)
    /\ Commit([books EXCEPT !.settled[<<p, d>>] = @ + amount, !.paid[d] = @ + amount], TRUE)
    /\ UNCHANGED requestVars

-----------------------------------------------------------------------------
(* Charges, and the invoices generated from them.  A request checks what is *)
(* committed, waits for its number, and commits: [by, of, makes], the       *)
(* command, its charges and the papers it makes, one or none.               *)
Exists(c) == books.charge[c] \in {"DRAFT", "ISSUED"}
(* A source of the charge, whatever became of its document.                 *)
Sourced(c) == \E d \in Papers : c \in Bills(d) /\ books.paper[d] # "NONE"
(* _service_order_invoice_documents: either link, reversed ones left out.   *)
Invoiced(j) == \E d \in Generated :
    /\ PaperOf[d].job = j /\ books.paper[d] \in {"DRAFT", "POSTED"}
    /\ PaperOf[d].whole \/ \E c \in Bills(d) : Exists(c)
(* issue_charge and allocate_number hold the charge's row until COMMIT.     *)
IsLocked(c) == \E q \in begun : q.by = "issue" /\ c \in q.of
Unmade(cs, whole) == {d \in Generated : /\ Bills(d) = cs /\ PaperOf[d].whole = whole
                                        /\ books.paper[d] = "NONE"
                                        /\ \A q \in begun : d \notin q.makes}
StartRequest(by, of, makes) ==
    /\ Cardinality(begun) < MaxBegun
    /\ begun' = begun \cup {[by |-> by, of |-> of, makes |-> makes]}
    /\ UNCHANGED <<books, shelf, board, unposted, commits, undoing, drifted>>

DraftCharge(c) ==
    /\ books.charge[c] = "NONE"
    /\ Commit([books EXCEPT !.charge[c] = "DRAFT"], TRUE) /\ UNCHANGED requestVars
(* delete_charges: the drafts are selected without a lock.                  *)
AskToDrop(c) == books.charge[c] = "DRAFT" /\ StartRequest("drop", {c}, {})
(* issue_charge, of a charge that has a source or that gets an invoice.     *)
AskToIssue(c) ==
    /\ Exists(c) /\ ChargeOf[c].amount > 0 /\ ~IsLocked(c)
    /\ \/ Sourced(c) /\ StartRequest("issue", {c}, {})
       \/ ~Sourced(c) /\ \E d \in Unmade({c}, FALSE) : StartRequest("issue", {c}, {d})
(* create_invoice_from_charge, as a command of its own: no lock.            *)
AskToBill(c) ==
    /\ books.charge[c] = "ISSUED" /\ ~Sourced(c)
    /\ \E d \in Unmade({c}, FALSE) : StartRequest("charge", {c}, {d})
(* create_invoice_from_service_order: one invoice of all the charges that   *)
(* no source names, whatever their status; no lock.                         *)
AskToBillOrder(j) ==
    LET pending == {c \in JobCharges : ChargeOf[c].job = j /\ Exists(c) /\ ~Sourced(c)}
    IN /\ ~Invoiced(j) /\ pending # {}
       /\ \E d \in Unmade(pending, TRUE) : StartRequest("order", pending, {d})
(* The invoices and the statuses become visible together.  A deletion waits *)
(* for the row lock.                                                        *)
CommitRequest(q) ==
    /\ q.by = "drop" => \A c \in q.of : Exists(c) /\ ~IsLocked(c)
    /\ Commit([books EXCEPT
          !.paper = [d \in Papers |-> IF d \in q.makes THEN "DRAFT" ELSE books.paper[d]],
          !.charge = [c \in JobCharges |->
             IF c \notin q.of \/ q.by \in {"charge", "order"} THEN books.charge[c]
             ELSE IF q.by = "issue" THEN "ISSUED" ELSE "GONE"]], TRUE)
    /\ begun' = begun \ {q}
    /\ UNCHANGED <<undoing, drifted>>
FailRequest(q) ==
    /\ begun' = begun \ {q}
    /\ UNCHANGED <<books, shelf, board, unposted, commits, undoing, drifted>>

MoveJob(j, status) ==
    /\ books.job[j] = "ACTIVE" /\ status # "ACTIVE"
    /\ Commit([books EXCEPT !.job[j] = status], TRUE) /\ UNCHANGED requestVars

BumpShelf ==
    /\ unposted > 0 /\ unposted' = unposted - 1
    /\ shelf' = [r \in ReportNames |-> Absent]
    /\ board' = [o \in Boards |-> [board[o] EXCEPT !.parts =
                   [n \in DOMAIN @ |-> [board[o].parts[n] EXCEPT !.late = TRUE]]]]
    /\ UNCHANGED <<books, commits, requestVars>>

-----------------------------------------------------------------------------
BalancesInit ==
    /\ books \in InitialBooks
    /\ shelf = [r \in ReportNames |-> Absent] /\ board = [o \in Boards |-> NoBoard]
    /\ unposted = 0 /\ commits = [all |-> 0, late |-> 0]
    /\ undoing = NotUndoing /\ drifted = {} /\ begun = {}

BalancesNext ==
    \/ \E o \in Boards : \/ \E r \in ReportNames : AskReport(o, r)
                         \/ ReadPart(o) \/ StoreList(o) \/ Answer(o)
    \/ \E r \in ReportNames : ExpireReport(r)
    \/ \E d \in Papers : SaveDraft(d) \/ DeleteDraft(d) \/ PostDraft(d) \/ BeginReversal(d)
    \/ FinishReversal \/ FailReversal
    \/ \E p \in Payments, d \in Targets :
          \E amount \in 1..PaperTotal(p) : AllocatePart(p, d, amount)
    \/ \E c \in JobCharges : DraftCharge(c) \/ AskToDrop(c) \/ AskToIssue(c) \/ AskToBill(c)
    \/ \E j \in Jobs : AskToBillOrder(j)
    \/ \E q \in begun : CommitRequest(q) \/ FailRequest(q)
    \/ \E j \in Jobs, s \in {"INACTIVE", "FINISHED"} : MoveJob(j, s)
    \/ BumpShelf

BalancesSpec == BalancesInit /\ [][BalancesNext]_balanceVars

-----------------------------------------------------------------------------
(* _cash_bank_balance, "consistent with every other balance in the          *)
(* dashboard": of any books, paid_amount is what the allocations say,       *)
(* except where a reversal wrote a stale one; the receivables card is what  *)
(* the ledger says customers owe but for receipts applied to no invoice,    *)
(* for credit notes, which no allocation can apply, and for what the stale  *)
(* amounts lost or forgot; the payables card likewise; and the aging of     *)
(* receivables adds up to their card.                                       *)
CardsMeetTheLedger ==
    LET worth(type) == Worth(InState(books, {type}, "POSTED"))
        applied(type) == SumFunction([d \in OfType({type}) |-> Settled(books, d)])
        amiss(type) == SumFunction([d \in InState(books, {type}, "POSTED") \cap drifted |->
                                       Settled(books, d) - Paid(books, d)])
        receivable == Owed(books, "CUSTOMER_INVOICE")
        aging == Aging(receivable)
    IN /\ \A d \in Targets \ drifted : PaidUp(books, d)
       /\ TrialBalanced(books)
       /\ CardTotal(receivable) = BalanceOf(books, "AR") + worth("CREDIT_NOTE")
                                    + worth("CUSTOMER_RECEIPT") - applied("CUSTOMER_INVOICE")
                                    + amiss("CUSTOMER_INVOICE")
       /\ CardTotal(Owed(books, "SUPPLIER_BILL")) =
             -BalanceOf(books, "AP") + worth("SUPPLIER_PAYMENT") - applied("SUPPLIER_BILL")
                + amiss("SUPPLIER_BILL")
       /\ CardTotal(receivable) = SumFunction(aging)

(* profitability: an order's uninvoiced charges are the issued ones of which*)
(* every invoice was deleted or reversed; but invoices made by hand, and    *)
(* those that bill what another bills too or what is not issued, hide as    *)
(* much of them as they are worth.                                          *)
UninvoicedAreFound ==
    \A j \in Jobs :
        LET invoices == {d \in OfType({"CUSTOMER_INVOICE"}) :
                           PaperOf[d].job = j /\ books.paper[d] \in {"DRAFT", "POSTED"}}
            copies(c) == Cardinality({d \in invoices : c \in Bills(d)})
            issued == {c \in JobCharges : ChargeOf[c].job = j /\ books.charge[c] = "ISSUED"}
            lost == {c \in issued : copies(c) = 0}
            surplus(c) == IF c \in issued \ lost THEN copies(c) - 1 ELSE copies(c)
            overbilled == SumFunction([c \in JobCharges |-> surplus(c) * ChargeOf[c].amount])
        IN ProfitRow(books, j).uninvoiced
              = Max({0, Charged(lost) - Worth(invoices \ Generated) - overbilled})

(* "reports" is bumped by every write that a card or list depends on: what  *)
(* is in the cache is what would be computed now, the draft columns of      *)
(* profitability excepted, once every bump has come, unless a bump came     *)
(* between its reading and its storing.                                     *)
ShelfIsCurrent ==
    unposted = 0 =>
        \A r \in ReportNames : \A n \in DOMAIN shelf[r] :
            LET p == shelf[r][n] IN
            ~p.late => Shown(PartsOf[r][n], p.saw) = Shown(PartsOf[r][n], books)

(* The lists and cards reconcile with the ledger and with the charges, and  *)
(* the cache keeps them current.                                            *)
BalancesReconcile == CardsMeetTheLedger /\ UninvoicedAreFound /\ ShelfIsCurrent
=============================================================================
