------------------------------ MODULE Reports ------------------------------
(* The accounting reports (reports/repository.py, ledger_reports.py,        *)
(* engine.py, service.py): the trial balance, one SELECT; the general       *)
(* ledger, three per page; the statements, one SELECT for each type of      *)
(* account and then cached.  Every SELECT sees what is committed when it    *)
(* runs (READ COMMITTED), so postings fall between those of one report.     *)
EXTENDS Integers, SequencesExt

CONSTANTS
    TypeOf,        \* the chart of accounts: the type of each account code
    FiscalYears,   \* the first and the last day that a year's periods cover
    Entries,       \* the entries that may be made: [date, debited, credited, amount]
    Asks,          \* what users ask the general ledger for (bound)
    Users,         \* readers of the general ledger
    Offices,       \* readers of the statements
    PageSize,      \* lines of a page
    MaxEntries,    \* entries in the ledger (bound)
    MaxLinks,      \* changes of a cash or bank account (bound)
    None

Accounts == DOMAIN TypeOf
AccountTypes == {"ASSET", "LIABILITY", "EQUITY", "REVENUE", "EXPENSE"}

ASSUME ReportsAssumption ==
    /\ Accounts \subseteq Nat \ {0} /\ IsFiniteSet(Accounts)
    /\ TypeOf \in [Accounts -> AccountTypes]
    /\ None = 0 /\ PageSize \in Nat \ {0}
    /\ Entries \subseteq [date : Nat \ {0}, debited : Accounts, credited : Accounts, amount : Nat]
    /\ Asks \subseteq [from : Nat, to : Nat, year : Nat, account : Accounts \cup {None},
                      export : BOOLEAN]
    /\ \A y \in DOMAIN FiscalYears : {FiscalYears[y].first, FiscalYears[y].last} \subseteq Nat \ {0}

VARIABLES
    ledger,    \* rows of journal_entries, in the order of their ids
    linked,    \* accounts that financial_accounts maps as cash or bank
    links,     \* changes of that mapping so far
    paging,    \* each user's general ledger
    drawing,   \* the statement an office is computing
    cached,    \* the statements in the cache, under the present version
    unbumped   \* postings committed whose cache.bump is to come

reportVars == <<ledger, linked, links, paging, drawing, cached, unbumped>>

-----------------------------------------------------------------------------
(* The lines of posted entries, ordered by (posting_date, id, line_no).     *)
LineOf(e, i, no) ==
    [date |-> e.date, entry |-> i, no |-> no,
     account |-> IF no = 1 THEN e.debited ELSE e.credited,
     debit |-> IF no = 1 THEN e.amount ELSE 0, credit |-> IF no = 2 THEN e.amount ELSE 0]
PostedLines(book) ==
    {LineOf(book[i], i, no) : i \in {n \in DOMAIN book : book[n].posted}, no \in 1..2}
UpTo(l, m) ==
    \/ l.date < m.date
    \/ l.date = m.date /\ (l.entry < m.entry \/ (l.entry = m.entry /\ l.no <= m.no))

Debits(set) == MapThenSumSet(LAMBDA l : l.debit, set)
Credits(set) == MapThenSumSet(LAMBDA l : l.credit, set)
NetOf(set) == Debits(set) - Credits(set)
OnAccount(account, set) == {l \in set : l.account = account}

-----------------------------------------------------------------------------
(* resolve_range: the days of the request, within the fiscal year's.        *)
RangeRefused(q) ==
    \/ q.from # None /\ q.to # None /\ q.from > q.to
    \/ q.year # None /\ q.year \notin DOMAIN FiscalYears
FirstDay(q) ==
    IF q.year = None THEN q.from ELSE Max({q.from, FiscalYears[q.year].first})
LastDay(q) ==
    IF q.year = None THEN q.to
    ELSE IF q.to = None THEN FiscalYears[q.year].last ELSE Min({q.to, FiscalYears[q.year].last})
(* A range that does not meet the fiscal year passes the check all the same. *)
NoDays(q) == FirstDay(q) # None /\ LastDay(q) # None /\ FirstDay(q) > LastDay(q)

(* Mutant: the first day of the range counts as before it.                  *)
UpToFirstDay(q, set) == {l \in set : FirstDay(q) # None /\ l.date <= FirstDay(q)}
BeforeRange(q, set) == {l \in set : FirstDay(q) # None /\ l.date < FirstDay(q)}
UntilLastDay(q, set) == {l \in set : LastDay(q) # None => l.date <= LastDay(q)}

(* trial_balance over the accounts of a range of codes.                     *)
TrialBalance(book, q, codes) ==
    LET lines == {l \in UntilLastDay(q, PostedLines(book)) : l.account \in codes}
        opening == BeforeRange(q, lines)
        row(a) == [opening |-> NetOf(OnAccount(a, opening)),
                   debit |-> Debits(OnAccount(a, lines \ opening)),
                   credit |-> Credits(OnAccount(a, lines \ opening)),
                   closing |-> NetOf(OnAccount(a, opening)) + NetOf(OnAccount(a, lines \ opening))]
    IN [a \in {l.account : l \in lines} |-> row(a)]
(* Its control, over the sum of every column.                               *)
ControlPasses(report) ==
    LET sum(column) == SumFunction([a \in DOMAIN report |-> report[a][column]])
    IN sum("closing") = 0 /\ sum("debit") = sum("credit")

-----------------------------------------------------------------------------
(* The predicates that the three SELECTs of the general ledger share.       *)
Matching(book, q) == {l \in PostedLines(book) : q.account = None \/ l.account = q.account}
LedgerRange(book, q) ==
    {l \in UntilLastDay(q, Matching(book, q)) : FirstDay(q) # None => l.date >= FirstDay(q)}
OpeningBalances(book, q) ==
    [a \in Accounts |-> NetOf(OnAccount(a, BeforeRange(q, Matching(book, q))))]
LedgerTotals(book, q) ==
    LET lines == LedgerRange(book, q)
    IN [count |-> Cardinality(lines), debit |-> Debits(lines), credit |-> Credits(lines)]
NoTotals == [count |-> 0, debit |-> 0, credit |-> 0]

(* Mutant: the first page starts at the second.                             *)
SkipsAPage(page) == page * PageSize
Offset(page) == (page - 1) * PageSize
(* A page, or every line for an export, each with its account's balance.    *)
LedgerPage(book, q, page, openings) ==
    LET lines == LedgerRange(book, q)
        rank(l) == Cardinality({m \in lines : UpTo(m, l)})
        item(l) == [line |-> l, balance |-> openings[l.account]
                                 + NetOf({m \in OnAccount(l.account, lines) : UpTo(m, l)})]
    IN {item(l) : l \in {m \in lines : q.export \/ /\ rank(m) > Offset(page)
                                                   /\ rank(m) <= Offset(page) + PageSize}}

Closed == [step |-> "closed", ask |-> CHOOSE q \in Asks : TRUE, page |-> 0,
           openings |-> [a \in Accounts |-> 0], totals |-> NoTotals, items |-> {},
           seen |-> {}, book |-> <<>>, first |-> <<>>]

(* general_ledger and export_general_ledger: the opening balances, ...      *)
AskLedger(u, q) ==
    /\ paging[u].step = "closed" /\ ~RangeRefused(q)
    /\ paging' = [paging EXCEPT ![u] =
         [Closed EXCEPT !.step = "opened", !.ask = q, !.page = 1, !.book = ledger, !.first = ledger,
                        !.openings = OpeningBalances(ledger, q)]]
    /\ UNCHANGED <<ledger, linked, links, drawing, cached, unbumped>>
(* ... the totals, ...                                                      *)
TotalLedger(u) ==
    /\ paging[u].step = "opened"
    /\ paging' = [paging EXCEPT ![u].step = "totalled",
                                ![u].totals = LedgerTotals(ledger, paging[u].ask)]
    /\ UNCHANGED <<ledger, linked, links, drawing, cached, unbumped>>
(* ... and the lines of the page.                                           *)
ShowLedger(u) ==
    LET p == paging[u]
        items == LedgerPage(ledger, p.ask, p.page, p.openings)
    IN /\ p.step = "totalled"
       /\ paging' = [paging EXCEPT ![u].step = IF p.book = ledger THEN "shown" ELSE "torn",
                                   ![u].items = items,
                                   ![u].seen = @ \cup {i.line : i \in items}]
       /\ UNCHANGED <<ledger, linked, links, drawing, cached, unbumped>>
(* The user goes on while the total says that there is another page.        *)
HasNextPage(p) == ~p.ask.export /\ p.page * PageSize < p.totals.count
NextPage(u) ==
    /\ paging[u].step \in {"shown", "torn"} /\ HasNextPage(paging[u])
    /\ paging' = [paging EXCEPT ![u].step = "opened", ![u].page = @ + 1, ![u].book = ledger,
                    ![u].items = {}, ![u].openings = OpeningBalances(ledger, paging[u].ask)]
    /\ UNCHANGED <<ledger, linked, links, drawing, cached, unbumped>>
CloseLedger(u) ==
    /\ paging[u].step \in {"shown", "torn"}
    /\ paging' = [paging EXCEPT ![u] = Closed]
    /\ UNCHANGED <<ledger, linked, links, drawing, cached, unbumped>>

-----------------------------------------------------------------------------
(* Mutant: every type of account is debit-normal.                           *)
DebitNormal(book, type) == NetOf({l \in PostedLines(book) : TypeOf[l.account] = type})
(* _account_type_totals, summed: what is owed and earned is credit-normal.  *)
TypeTotal(book, type) ==
    LET net == NetOf({l \in PostedLines(book) : TypeOf[l.account] = type})
    IN IF type \in {"REVENUE", "LIABILITY", "EQUITY"} THEN -net ELSE net
(* cash_flow_rows and _cash_bank_balance.                                   *)
CashTotal(book, accounts) == NetOf({l \in PostedLines(book) : l.account \in accounts})

(* What balance_sheet, financial_summary, profit_loss, cash_flow and the    *)
(* dashboard's card read, a SELECT each, in this order.                     *)
ReadsOf == [sheet |-> <<"ASSET", "LIABILITY", "EQUITY", "REVENUE", "EXPENSE">>,
            summary |-> <<"ASSET", "LIABILITY", "REVENUE", "EXPENSE">>,
            profit |-> <<"REVENUE", "EXPENSE">>, cash |-> <<"CASH">>, card |-> <<"CASH">>]
Statements == DOMAIN ReadsOf
NoStatement == [amounts |-> <<>>, book |-> <<>>, cash |-> {}, torn |-> FALSE]
NotDrawing == [statement |-> "none", result |-> NoStatement]

(* A statement that is not in the cache.                                    *)
MissCache(o, s) ==
    /\ drawing[o] = NotDrawing /\ cached[s] = NoStatement
    /\ drawing' = [drawing EXCEPT ![o].statement = s]
    /\ UNCHANGED <<ledger, linked, links, paging, cached, unbumped>>
ReadTotal(o) ==
    LET s == drawing[o].statement
        r == drawing[o].result
        type == ReadsOf[s][Len(r.amounts) + 1]
        amount == IF type = "CASH" THEN CashTotal(ledger, linked) ELSE TypeTotal(ledger, type)
        isFirst == r.amounts = <<>>
    IN /\ s # "none" /\ Len(r.amounts) < Len(ReadsOf[s])
       /\ drawing' = [drawing EXCEPT ![o].result =
            [amounts |-> Append(r.amounts, amount), book |-> IF isFirst THEN ledger ELSE r.book,
             cash |-> linked, torn |-> ~isFirst /\ (r.torn \/ r.book # ledger)]]
       /\ UNCHANGED <<ledger, linked, links, paging, cached, unbumped>>
(* set_json, under the version there is now.                                *)
CacheStatement(o) ==
    LET s == drawing[o].statement IN
    /\ s # "none" /\ Len(drawing[o].result.amounts) = Len(ReadsOf[s])
    /\ cached' = [cached EXCEPT ![s] = drawing[o].result]
    /\ drawing' = [drawing EXCEPT ![o] = NotDrawing]
    /\ UNCHANGED <<ledger, linked, links, paging, unbumped>>
ExpireStatement(s) ==
    /\ cached[s] # NoStatement /\ cached' = [cached EXCEPT ![s] = NoStatement]
    /\ UNCHANGED <<ledger, linked, links, paging, drawing, unbumped>>

-----------------------------------------------------------------------------
(* What finance does meanwhile: an entry is a draft with an id before it is *)
(* posted, and its date is its own; the cache is bumped after the COMMIT.   *)
Drafted(e) == [date |-> e.date, debited |-> e.debited, credited |-> e.credited,
               amount |-> e.amount, posted |-> FALSE]
DraftEntry(e) ==
    /\ Len(ledger) < MaxEntries /\ ledger' = Append(ledger, Drafted(e))
    /\ UNCHANGED <<linked, links, paging, drawing, cached, unbumped>>
PostEntry(i) ==
    /\ ~ledger[i].posted /\ ledger' = [ledger EXCEPT ![i].posted = TRUE]
    /\ unbumped' = unbumped + 1
    /\ UNCHANGED <<linked, links, paging, drawing, cached>>
BumpReports ==
    /\ unbumped > 0 /\ unbumped' = unbumped - 1
    /\ cached' = [s \in Statements |-> NoStatement]
    /\ UNCHANGED <<ledger, linked, links, paging, drawing>>
(* create_financial_account, delete_financial_accounts: no bump.            *)
LinkAccount(a) ==
    /\ links < MaxLinks /\ links' = links + 1
    /\ linked' = IF a \in linked THEN linked \ {a} ELSE linked \cup {a}
    /\ UNCHANGED <<ledger, paging, drawing, cached, unbumped>>

-----------------------------------------------------------------------------
ReportsInit ==
    /\ ledger = <<>> /\ linked = {} /\ links = 0 /\ unbumped = 0
    /\ paging = [u \in Users |-> Closed] /\ drawing = [o \in Offices |-> NotDrawing]
    /\ cached = [s \in Statements |-> NoStatement]

Pages(u) ==
    \/ \E q \in Asks : AskLedger(u, q)
    \/ TotalLedger(u) \/ ShowLedger(u) \/ NextPage(u) \/ CloseLedger(u)
Draws(o) == (\E s \in Statements : MissCache(o, s)) \/ ReadTotal(o) \/ CacheStatement(o)

Posts == (\E e \in Entries : DraftEntry(e)) \/ (\E i \in DOMAIN ledger : PostEntry(i))
LedgerNext == Posts \/ \E u \in Users : Pages(u)
StatementsNext ==
    \/ Posts \/ BumpReports
    \/ \E o \in Offices : Draws(o)
    \/ \E s \in Statements : ExpireStatement(s)
    \/ \E a \in Accounts : LinkAccount(a)
ReportsNext == LedgerNext \/ StatementsNext

ReportsSpec == ReportsInit /\ [][ReportsNext]_reportVars

ReportsTypeOK ==
    LET Row == [date : {e.date : e \in Entries}, debited : Accounts, credited : Accounts,
                amount : {e.amount : e \in Entries}, posted : BOOLEAN]
    IN /\ ledger \in Seq(Row) /\ Len(ledger) <= MaxEntries /\ linked \subseteq Accounts
       /\ links \in 0..MaxLinks /\ unbumped \in 0..MaxEntries
       /\ \A u \in Users : paging[u].step \in {"closed", "opened", "totalled", "shown", "torn"}
       /\ \A o \in Offices : drawing[o].statement \in Statements \cup {"none"}
       /\ DOMAIN cached = Statements

-----------------------------------------------------------------------------
ClosingOf(report) == SumFunction([a \in DOMAIN report |-> report[a].closing])
LastOf(account, set) ==
    CHOOSE l \in OnAccount(account, set) : \A m \in OnAccount(account, set) : UpTo(m, l)

(* ledger_reports.py, "Both reports read the same posted-ledger             *)
(* projection": over any days, the trial balance of the whole chart passes  *)
(* its control; and the general ledger of the same days, page after page,   *)
(* whatever is posted meanwhile but within a page, closes where the trial   *)
(* balance closes, in its totals and in each account's last line; unless    *)
(* the days asked for lie outside the fiscal year asked for.                *)
RangesReconcile ==
    /\ \A q \in Asks : ~RangeRefused(q) => ControlPasses(TrialBalance(ledger, q, Accounts))
    /\ \A u \in Users :
          LET p == paging[u]
              codes == IF p.ask.account = None THEN Accounts ELSE {p.ask.account}
              report == TrialBalance(p.book, p.ask, codes)
              lines == LedgerRange(p.book, p.ask)
          IN p.step = "shown" /\ ~NoDays(p.ask) =>
               /\ ClosingOf(report) = SumFunction(p.openings) + p.totals.debit - p.totals.credit
               /\ \A i \in p.items : i.line = LastOf(i.line.account, lines) =>
                                         i.balance = report[i.line.account].closing

(* general_ledger_page, "keeps pagination stable": a user who pages to the  *)
(* end, or exports, has seen every line there was at the start, though      *)
(* entries of earlier days or lower ids are posted between the pages, if    *)
(* none is posted while the last page is made.                              *)
PagesMissNothing ==
    \A u \in Users :
        LET p == paging[u] IN
        p.step \in {"shown", "torn"} /\ ~HasNextPage(p) /\ (p.step = "torn" => p.ask.export) =>
            LedgerRange(p.first, p.ask) \subseteq p.seen

(* balance_sheet, "balanced is true only when the identity holds": a        *)
(* cached statement that no posting tore apart balances, and the statements *)
(* of one ledger agree with its trial balance whatever type of account they *)
(* add up.                                                                  *)
StatementsReconcile ==
    \A s \in Statements :
        LET c == cached[s]
            t == c.amounts
            always == [from |-> None, to |-> None, year |-> None]
            closing(codes) == ClosingOf(TrialBalance(c.book, always, codes))
            typed(types) == {a \in Accounts : TypeOf[a] \in types}
        IN c # NoStatement /\ ~c.torn =>
             CASE s = "sheet" -> t[1] = t[2] + t[3] + (t[4] - t[5])
               [] s = "summary" -> t[1] - t[2] = closing(typed({"ASSET", "LIABILITY"}))
               [] s = "profit" -> t[1] - t[2] = -closing(typed({"REVENUE", "EXPENSE"}))
               [] OTHER -> t[1] = closing(c.cash)

(* The reports of one ledger reconcile, in their ranges and statements.     *)
ReportsReconcile == RangesReconcile /\ StatementsReconcile
=============================================================================
