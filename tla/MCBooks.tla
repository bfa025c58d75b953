------------------------------ MODULE MCBooks ------------------------------
(* PostingDraft, Journals, Reports, Balances, Statuses, Rates and Routes on *)
(* small instances.  They share no variable, so their interleaving adds     *)
(* nothing: a behaviour runs one of them, which "part" names; of the        *)
(* statements in Reports a behaviour computes one, which is its part.       *)
EXTENDS PostingDraft, Journals, Reports, Balances, Statuses, MCRates, Routes, TLC

CONSTANTS r1, r2, a1, a2, f1, withTax, builtIn, pickup, drop,
    sale, joint, extra, bill, receipt, payout, note, job, charge, storage,
    MaxDrawn,    \* bound on entries where a statement is computed
    MaxDashed,   \* bound on commits where profitability or the dashboard is asked for
    MaxUnbumped  \* bound on commits whose bump is to come

VARIABLE part

-----------------------------------------------------------------------------
(* Drafts: two rules, one fee type, a mapping with a tax account and the    *)
(* built-in one without.                                                    *)
Line(taxable, tax, fee, own) == [taxable |-> taxable, tax |-> tax, fee |-> fee, own |-> own]
Freight == Line(4, 2, f1, FALSE)
Handling == Line(2, 0, Free, FALSE)
OneOff == Line(2, 2, f1, TRUE)
OddAmount == Line(1, 0, Free, FALSE)   \* half a decimal, rounded up
OddTax == Line(3, 1, f1, FALSE)        \* an exact amount with an inexact tax
TaxOnly == Line(0, 2, Free, FALSE)

SomeDocuments ==
    [type : {"CUSTOMER_INVOICE"},
     lines : {<<Freight, Handling>>, <<OneOff, Freight>>, <<OddTax, OddTax>>,
              <<OddAmount, OddAmount>>, <<TaxOnly>>}]
    \cup [type : {"SUPPLIER_BILL"}, lines : {<<Freight, Handling>>, <<TaxOnly>>}]
    \cup [type : {"CUSTOMER_RECEIPT"}, lines : {<<Handling>>, <<>>}]

NoRule == [status |-> "ABSENT", fee |-> Free, priority |-> 0, mapping |-> builtIn]
Default(mapping) == [NoRule EXCEPT !.status = "ACTIVE", !.mapping = mapping]
ForFee(status, mapping) == [NoRule EXCEPT !.status = status, !.fee = f1, !.mapping = mapping]
SomeRules == {[r \in Rules |-> IF r = r1 THEN one ELSE two] :
    one \in {NoRule, Default(withTax)},
    two \in {ForFee("INACTIVE", builtIn), ForFee("ACTIVE", withTax)}}

Interchangeable == Permutations({a1, a2})

-----------------------------------------------------------------------------
(* Journals: lines that balance, that balance in one currency only, that do *)
(* not, none, and dates in two months.                                      *)
Sum2(debit, credit, baseDebit, baseCredit) ==
    [count |-> 2, own |-> [debit |-> debit, credit |-> credit],
     base |-> [debit |-> baseDebit, credit |-> baseCredit]]
Form(entryDate, postingDate, lineSet) ==
    [entryDate |-> entryDate, postingDate |-> postingDate, lines |-> lineSet]
SomeForms ==
    {Form(1, 1, Sum2(2, 2, 2, 2)), Form(1, 1, Sum2(2, 2, 2, 3)), Form(1, 1, Sum2(2, 1, 2, 1)),
     Form(1, 1, NoLines), Form(1, 2, Sum2(2, 2, 2, 2))}

(* Reports: a sale, an expense owed, and its payment out of revenue, on     *)
(* three days of which two lie in the fiscal year.                          *)
SomeChart == <<"ASSET", "LIABILITY", "REVENUE", "EXPENSE">>
SomeYears == <<[first |-> 1, last |-> 2]>>
EntryOn(date, debited, credited) ==
    [date |-> date, debited |-> debited, credited |-> credited, amount |-> 1]
SomeEntries == {EntryOn(1, 1, 3), EntryOn(2, 4, 2), EntryOn(3, 2, 1)}
AskFor(from, to, year, account, export) ==
    [from |-> from, to |-> to, year |-> year, account |-> account, export |-> export]
SomeLedgerAsks ==
    {AskFor(0, 0, 0, 0, FALSE), AskFor(2, 3, 0, 0, FALSE), AskFor(2, 0, 1, 1, FALSE),
     AskFor(2, 2, 0, 0, TRUE), AskFor(3, 0, 1, 0, TRUE)}

(* Balances: an order with two charges, an invoice of the one and an        *)
(* invoice of both, one made by hand, a bill, a receipt, a payment to a     *)
(* supplier and a credit note; at first an issued charge with its invoice,  *)
(* a receipt that settles half of it and a payment are posted, or an issued *)
(* charge has lost its invoice and the other is a draft.                    *)
Paper(type, jobOf, net, tax, due, bills, ofOrder) ==
    [type |-> type, job |-> jobOf, net |-> net, tax |-> tax, date |-> 5, due |-> due,
     bills |-> bills, whole |-> ofOrder]
SomePapers ==
    sale :> Paper("CUSTOMER_INVOICE", job, 1, 1, 69, {charge}, FALSE)
    @@ joint :> Paper("CUSTOMER_INVOICE", job, 2, 1, 100, {charge, storage}, TRUE)
    @@ extra :> Paper("CUSTOMER_INVOICE", job, 1, 0, NoDate, {}, FALSE)
    @@ bill :> Paper("SUPPLIER_BILL", job, 1, 0, 100, {}, FALSE)
    @@ receipt :> Paper("CUSTOMER_RECEIPT", NoJob, 2, 0, NoDate, {}, FALSE)
    @@ payout :> Paper("SUPPLIER_PAYMENT", NoJob, 1, 0, NoDate, {}, FALSE)
    @@ note :> Paper("CREDIT_NOTE", job, 1, 0, NoDate, {}, FALSE)
SomeCharges == charge :> [job |-> job, amount |-> 2] @@ storage :> [job |-> job, amount |-> 1]
ChargesAre(one, two) == [NoBooks EXCEPT !.charge[charge] = one, !.charge[storage] = two]
SomeBooks ==
    {ChargesAre("ISSUED", "DRAFT"),
     [ChargesAre("ISSUED", "NONE") EXCEPT !.paper[sale] = "POSTED", !.paper[receipt] = "POSTED",
                                          !.paper[payout] = "POSTED", !.paid[sale] = 1,
                                          !.settled[<<receipt, sale>>] = 1]}

(* Routes: new routes, reordered ones, and lists that name a row twice, a   *)
(* row that may be gone, or leave rows out.                                 *)
Stop(id, role) == [id |-> id, role |-> role]
SomeLists ==
    {<<>>, <<Stop(0, pickup)>>, <<Stop(0, pickup), Stop(0, drop)>>,
     <<Stop(2, drop), Stop(1, pickup)>>, <<Stop(1, pickup), Stop(1, pickup)>>,
     <<Stop(1, drop), Stop(0, pickup), Stop(2, drop)>>, <<Stop(2, pickup)>>,
     <<Stop(1, pickup), Stop(2, drop), Stop(0, drop)>>}

-----------------------------------------------------------------------------
Parts == {"drafts", "journals", "ledger", "statuses", "rates", "routes"}
         \cup Statements \cup ReportNames
draftVars == vars

BooksInit ==
    /\ part \in Parts
    /\ Init /\ JournalsInit /\ ReportsInit /\ BalancesInit /\ StatusesInit /\ RatesInit /\ RoutesInit
    /\ part # "drafts" => /\ \A r \in Rules : rules[r].status # "ACTIVE"
                         /\ document = [status |-> "DRAFT", type |-> "CUSTOMER_RECEIPT",
                                         lines |-> <<>>]
    /\ part # "statuses" => collection = "jobs"
    /\ part \notin ReportNames => books = ChargesAre("ISSUED", "DRAFT")
    /\ part = "dashboard" => books.paper[sale] = "POSTED"
    /\ part # "rates" => rates = {} /\ base = usd

Others(rest) == UNCHANGED <<part, rest>>
BooksNext ==
    \/ /\ part = "drafts" /\ Next
       /\ Others(<<journalVars, reportVars, balanceVars, statusVars, rateVars, routeVars>>)
    \/ /\ part = "journals" /\ JournalsNext
       /\ Others(<<draftVars, reportVars, balanceVars, statusVars, rateVars, routeVars>>)
    \/ /\ part = "ledger" /\ LedgerNext
       /\ Others(<<draftVars, journalVars, balanceVars, statusVars, rateVars, routeVars>>)
    \/ /\ part \in Statements /\ StatementsNext
       /\ Len(ledger') <= MaxDrawn
       /\ \A o \in Offices : drawing'[o].statement \in {part, "none"}
       /\ Others(<<draftVars, journalVars, balanceVars, statusVars, rateVars, routeVars>>)
    \/ /\ part \in ReportNames /\ BalancesNext /\ unposted' <= MaxUnbumped
       /\ \A o \in Boards : board'[o].report \in {part, "none"}
       /\ part = "trial" /\ Asked' => begun' = {}
       /\ part = "profitability" => Cardinality(begun') <= 1
       /\ part \in {"receivables", "payables", "dashboard"} =>
             begun' = {} /\ books'.charge = books.charge
       /\ part = "dashboard" => undoing'.doc \in {NoDoc, receipt}
       /\ part # "dashboard" => books'.job = books.job
       /\ part \in {"profitability", "dashboard"} => commits'.all <= MaxDashed
       /\ Others(<<draftVars, journalVars, reportVars, statusVars, rateVars, routeVars>>)
    \/ /\ part = "statuses" /\ StatusesNext
       /\ Others(<<draftVars, journalVars, reportVars, balanceVars, rateVars, routeVars>>)
    \/ /\ part = "rates" /\ RatesNext
       /\ Others(<<draftVars, journalVars, reportVars, balanceVars, statusVars, routeVars>>)
    \/ /\ part = "routes" /\ RoutesNext
       /\ Others(<<draftVars, journalVars, reportVars, balanceVars, statusVars, rateVars>>)

BooksSpec ==
    /\ BooksInit
    /\ [][BooksNext]_<<part, draftVars, journalVars, reportVars, balanceVars, statusVars,
                       rateVars, routeVars>>

(* BalancesReconcile, where a behaviour has lists of balances: cards and    *)
(* lists agree with the ledger and the charges, and the cache with the      *)
(* books.                                                                   *)
ListsReconcile == part \in ReportNames => BalancesReconcile
=============================================================================
