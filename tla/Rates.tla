------------------------------- MODULE Rates -------------------------------
(* Currencies of documents (master_data/currency_rates.py, core/fx.py, the  *)
(* conversion in finance/service.py save_document and post_document).  A    *)
(* document copies the rate that converts it when it is saved; the rates    *)
(* and the base currency may change at any time.  A save reads them and the *)
(* document without a lock, deletes the lines it finds, and at its end      *)
(* updates the columns that differ from what it read and inserts its lines. *)
(* Amounts are in units of the last decimal of the ledger's columns, a rate *)
(* in 1/Scale; what a request submits is in 1/Fine of a unit, as quantity   *)
(* times price has more decimals than the columns; converted totals are in  *)
(* the last decimal of the currency, which is Cent units.                   *)
EXTENDS FiniteSets, Functions, Integers, Sequences

CONSTANTS
    Currencies,
    Scale,         \* the stored rate 1
    Cent,          \* units of the ledger in the currency's last decimal
    Fine,          \* parts of a unit in which a request's amounts are
    Days,          \* dates, as numbers (bound)
    Invoices,      \* documents
    Editors,       \* requests that save one (bound)
    SomeSaves,     \* what a request may submit (bound)
    RateValues,    \* rates an operator may configure (bound)
    InitialRates,  \* currency_rates at the start (bound)
    MaxRateChanges,\* changes of the rates and of the base currency (bound)
    MaxSaves,      \* saves of documents (bound)
    Blank

Submitted == [taxable : Nat, tax : Nat]

ASSUME RatesAssumption ==
    /\ {Scale, Cent, Fine} \subseteq Nat \ {0} /\ RateValues \subseteq Nat \ {0}
    /\ Blank \notin Currencies /\ MaxRateChanges \in Nat /\ MaxSaves \in Nat
    /\ \A ask \in SomeSaves : ask.rate \in Nat /\ ask.lines \in Seq(Submitted)
    /\ \A store \in InitialRates : \A x \in store : x.rate \in Nat \ {0}

VARIABLES
    rates,        \* currency_rates: rows that are not deleted
    base,         \* localization.currency of the settings
    invoices,     \* financial_documents by customer invoice
    invoiceLines, \* its financial_document_lines
    booked,       \* the journal entry of a posted one
    editing,      \* each request: what it read and what it will write
    overrun,      \* invoices a save wrote after their posting (history)
    rateChanges, saves

invoiceVars == <<invoices, invoiceLines, booked, overrun>>
rateVars == <<rates, base, invoiceVars, editing, rateChanges, saves>>

Pair(x) == <<x.from, x.to>>
NewInvoice == [status |-> "ABSENT", currency |-> Blank, rate |-> Scale, base |-> Blank, on |-> 0,
               total |-> 0, baseTotal |-> 0]
NoEdit == [step |-> "idle", invoice |-> Blank, read |-> NewInvoice, new |-> NewInvoice,
           lines |-> <<>>]
NotBooked == [control |-> 0, legs |-> <<>>, bases |-> <<>>]

-----------------------------------------------------------------------------
(* fx.quantize_money and the quantize of normalize_rate: half up.           *)
HalfUp(numerator, denominator) == (2 * numerator + denominator) \div (2 * denominator)
(* convert_to_base, of an amount that is in 1/parts of a unit.              *)
Converted(amount, parts, rate) == HalfUp(amount * rate, Scale * Cent * parts)
(* base_debit_amount and base_credit_amount of a journal line.              *)
InLedger(amount, rate) == HalfUp(amount * rate, Scale)

(* latest_approved: the newest approved row of the pair by the date.        *)
Applicable(from, to, on) ==
    {x \in rates : Pair(x) = <<from, to>> /\ x.status = "APPROVED" /\ x.on <= on}
LatestApproved(from, to, on) ==
    {x \in Applicable(from, to, on) : \A o \in Applicable(from, to, on) : o.on <= x.on}
(* resolve_document_rate: the set of the rate found, empty if none covers   *)
(* the pair or the inverse is too small to store.                           *)
Resolved(currency, on) ==
    IF Applicable(currency, base, on) # {}
    THEN {x.rate : x \in LatestApproved(currency, base, on)}
    ELSE {HalfUp(Scale * Scale, x.rate) : x \in LatestApproved(base, currency, on)} \ {0}

(* _document_currency_inputs: the typed rate, else the stored one, else one *)
(* from the store; 1 in the base currency.                                  *)
RatesFor(doc, ask, currency, on) ==
    CASE currency = base -> {Scale}
      [] ask.rate # 0 -> {ask.rate}
      [] doc.status # "ABSENT" -> {doc.rate}
      [] OTHER -> Resolved(currency, on)

-----------------------------------------------------------------------------
(* create_reference and update_reference of a rate.  A row that is saved    *)
(* without a status is approved, also one that was pending or retired.  The *)
(* partial unique index allows one row of a pair and date.                  *)
SaveRate(old, new, status) ==
    /\ rateChanges < MaxRateChanges /\ old \subseteq rates
    /\ LET row == [new EXCEPT !.status = IF status = Blank THEN "APPROVED" ELSE status] IN
       /\ ~\E o \in rates \ old : Pair(o) = Pair(row) /\ o.on = row.on
       /\ rates' = (rates \ old) \cup {row}
    /\ rateChanges' = rateChanges + 1
    /\ UNCHANGED <<base, invoiceVars, editing, saves>>

(* delete_reference: no status of a rate is ACTIVE, so any row may go.      *)
DeleteRate(old) ==
    /\ rateChanges < MaxRateChanges /\ rates' = rates \ {old}
    /\ rateChanges' = rateChanges + 1
    /\ UNCHANGED <<base, invoiceVars, editing, saves>>

(* The settings screen.                                                     *)
ChangeBase(currency) ==
    /\ rateChanges < MaxRateChanges /\ base' = currency
    /\ rateChanges' = rateChanges + 1
    /\ UNCHANGED <<rates, invoiceVars, editing, saves>>

-----------------------------------------------------------------------------
(* What the columns of a line hold, and what the lines come to unrounded.   *)
StoredLine(l) == [amount |-> HalfUp(l.taxable + l.tax, Fine), tax |-> HalfUp(l.tax, Fine)]
RawTotal(s) == SumFunction([i \in DOMAIN s |-> s[i].taxable + s[i].tax])
LineAmounts(s) == [i \in DOMAIN s |-> s[i].amount]

(* save_document reads the base currency, the invoice and the rates, and    *)
(* is refused if no rate is found.  An edit writes currency and rate only   *)
(* if the request names one of the two.                                     *)
ReadForSave(c, d, ask) ==
    LET doc == invoices[d]
        currency == IF ask.currency # Blank THEN ask.currency
                    ELSE IF doc.status = "ABSENT" THEN base ELSE doc.currency
        on == IF ask.on # 0 THEN ask.on ELSE doc.on
        renamed == doc.status = "ABSENT" \/ ask.currency # Blank \/ ask.rate # 0
    IN
    /\ editing[c].step = "idle" /\ saves < MaxSaves
    /\ doc.status \in {"ABSENT", "DRAFT"} /\ (doc.status = "ABSENT" => on # 0)
    /\ \E rate \in RatesFor(doc, ask, currency, on) :
          editing' = [editing EXCEPT ![c] =
              [step |-> "read", invoice |-> d, read |-> doc,
               new |-> [doc EXCEPT !.status = "DRAFT", !.base = base, !.on = on,
                                   !.currency = IF renamed THEN currency ELSE @,
                                   !.rate = IF renamed THEN rate ELSE @,
                                   !.total = HalfUp(RawTotal(ask.lines), Fine),
                                   !.baseTotal = Converted(RawTotal(ask.lines), Fine, rate)],
               lines |-> [i \in DOMAIN ask.lines |-> StoredLine(ask.lines[i])]]]
    /\ saves' = saves + 1
    /\ UNCHANGED <<rates, base, invoiceVars, rateChanges>>

(* The DELETE of the lines runs at once, and takes those that are there.    *)
ClearLines(c) ==
    /\ editing[c].step = "read"
    /\ editing' = [editing EXCEPT ![c].step = "cleared"]
    /\ UNCHANGED <<rates, base, invoiceVars, rateChanges, saves>>

Overwritten(row, e) == [f \in DOMAIN row |-> IF e.new[f] # e.read[f] THEN e.new[f] ELSE row[f]]
(* COMMIT.  A save whose DELETE ran before another one's lines came leaves  *)
(* them there, and uq_financial_document_lines_no refuses lines beside them.*)
CommitSave(c) ==
    LET e == editing[c]
        d == editing[c].invoice
        kept == IF e.step = "late" THEN invoiceLines[d] ELSE <<>>
    IN
    /\ e.step \in {"cleared", "late"}
    /\ (e.read.status = "ABSENT") <=> (invoices[d].status = "ABSENT")
    /\ kept = <<>> \/ e.lines = <<>>
    /\ invoices' = [invoices EXCEPT ![d] = Overwritten(@, e)]
    /\ invoiceLines' = [invoiceLines EXCEPT ![d] = IF kept = <<>> THEN e.lines ELSE kept]
    /\ overrun' = IF invoices[d].status = "POSTED" THEN overrun \cup {d} ELSE overrun
    /\ editing' = [o \in Editors |->
           CASE o = c -> NoEdit
             [] o # c /\ editing[o].step = "cleared" /\ editing[o].invoice = d ->
                    [editing[o] EXCEPT !.step = "late"]
             [] OTHER -> editing[o]]
    /\ UNCHANGED <<rates, base, booked, rateChanges, saves>>
DropSave(c) ==
    /\ editing[c].step # "idle" /\ editing' = [editing EXCEPT ![c] = NoEdit]
    /\ UNCHANGED <<rates, base, invoiceVars, rateChanges, saves>>

(* The legs of an invoice's entry other than the control leg.  A line has   *)
(* one for its tax, if the posting rule names a tax account (split), and    *)
(* one for the rest; nothing is booked for nothing; and without any such    *)
(* rest the other leg is the rule's, with the whole total.                  *)
Fallback == <<0, "net">>
Share(s, split, k) ==
    LET tax == IF ~split THEN 0 ELSE IF s[k[1]].tax < s[k[1]].amount THEN s[k[1]].tax
                                ELSE s[k[1]].amount
    IN IF k[2] = "tax" THEN tax ELSE s[k[1]].amount - tax
Shares(s, split) == {k \in (DOMAIN s) \X {"tax", "net"} : Share(s, split, k) > 0}
DetailLegs(s, split, total) ==
    LET rest == IF \E k \in Shares(s, split) : k[2] = "net" THEN {} ELSE {Fallback} IN
    [k \in Shares(s, split) \cup rest |-> IF k = Fallback THEN total ELSE Share(s, split, k)]

(* Mutant: an entry is posted whatever its sides come to.                   *)
AnyEntry(total, legs) == TRUE
(* JournalDraft.assert_balanced.                                            *)
EntryBalanced(total, legs) == SumFunction(legs) = total
(* post_document.  The row is locked, so a posting reads what is committed. *)
(* It derives the converted total again, and each leg's base amount is      *)
(* rounded as its column stores it.                                         *)
PostInvoice(d) ==
    LET doc == invoices[d] IN
    /\ doc.status = "DRAFT" /\ doc.total > 0
    /\ \E split \in BOOLEAN :
          LET legs == DetailLegs(invoiceLines[d], split, doc.total) IN
          /\ EntryBalanced(doc.total, legs)
          /\ booked' = [booked EXCEPT ![d] =
                 [control |-> InLedger(doc.total, doc.rate), legs |-> legs,
                  bases |-> [k \in DOMAIN legs |-> InLedger(legs[k], doc.rate)]]]
    /\ invoices' = [invoices EXCEPT ![d].status = "POSTED",
                                   ![d].baseTotal = Converted(doc.total, 1, doc.rate)]
    /\ UNCHANGED <<rates, base, invoiceLines, editing, overrun, rateChanges, saves>>

-----------------------------------------------------------------------------
RatesInit ==
    /\ rates \in InitialRates /\ base \in Currencies
    /\ invoices = [d \in Invoices |-> NewInvoice]
    /\ invoiceLines = [d \in Invoices |-> <<>>] /\ booked = [d \in Invoices |-> NotBooked]
    /\ editing = [c \in Editors |-> NoEdit]
    /\ overrun = {} /\ rateChanges = 0 /\ saves = 0

RatesNext ==
    \/ \E from, to \in Currencies, on \in Days, rate \in RateValues,
          status \in {Blank, "PENDING", "INACTIVE"}, old \in {{}} \cup {{x} : x \in rates} :
          from # to /\ SaveRate(old, [from |-> from, to |-> to, on |-> on, rate |-> rate,
                                      status |-> "APPROVED"], status)
    \/ \E x \in rates : DeleteRate(x)
    \/ \E currency \in Currencies \ {base} : ChangeBase(currency)
    \/ \E c \in Editors : ClearLines(c) \/ CommitSave(c) \/ DropSave(c)
    \/ \E c \in Editors, d \in Invoices, ask \in SomeSaves : ReadForSave(c, d, ask)
    \/ \E d \in Invoices : PostInvoice(d)

RatesSpec == RatesInit /\ [][RatesNext]_rateVars

RatesTypeOK ==
    /\ \A x \in rates : x.from \in Currencies /\ x.to \in Currencies \ {x.from}
                        /\ x.status \in {"PENDING", "APPROVED", "INACTIVE"}
    /\ base \in Currencies /\ overrun \subseteq Invoices
    /\ \A d \in Invoices : invoices[d].status \in {"ABSENT", "DRAFT", "POSTED"}
                           /\ invoices[d].rate \in Nat \ {0}
                           /\ invoiceLines[d] \in Seq([amount : Nat, tax : Nat])
    /\ \A c \in Editors : editing[c].step \in {"idle", "read", "cleared", "late"}
    /\ rateChanges \in 0..MaxRateChanges /\ saves \in 0..MaxSaves

-----------------------------------------------------------------------------
(* A posted invoice, its lines and its entry tell the same amounts, in both *)
(* currencies, whatever became of the rates and of the base currency and    *)
(* whichever of two overlapping edits wrote which column and which lines:   *)
(* the lines that are stored come to the total, and so do the legs of the   *)
(* entry; the base amounts of the two sides of the entry, and the converted *)
(* total of the invoice, differ by no more than each rounding may put in;   *)
(* and in the base currency they do not differ.  Excepted is an invoice     *)
(* that a save wrote after its posting.                                     *)
Near(a, b, gap) == 2 * (a - b) <= gap /\ 2 * (b - a) <= gap
AmountsAgree(d) ==
    LET doc == invoices[d]
        e == booked[d]
        detail == SumFunction(e.bases)
    IN
    /\ SumFunction(LineAmounts(invoiceLines[d])) \in {0, doc.total}
    /\ SumFunction(e.legs) = doc.total
    /\ Near(e.control, detail, Cardinality(DOMAIN e.legs) + 1)
    /\ Near(e.control, Cent * doc.baseTotal, Cent + 1)
    /\ doc.rate = Scale => e.control = doc.total /\ detail = doc.total
PostedAmountsExplained ==
    \A d \in Invoices : invoices[d].status = "POSTED" /\ d \notin overrun => AmountsAgree(d)

(* core/fx.py, "a document whose currency is the base currency always       *)
(* carries rate 1, whatever a client sends": base being the currency that   *)
(* the row itself names as its base.  The code breaks it: an edit that      *)
(* names neither currency nor rate writes the base currency of the day, and *)
(* leaves the rate that converted into the previous one.                    *)
BaseDocumentsCarryRateOne ==
    \A d \in Invoices : invoices[d].status # "ABSENT" /\ invoices[d].currency = invoices[d].base =>
        invoices[d].rate = Scale
=============================================================================
