---------------------------- MODULE PostingDraft ----------------------------
(***************************************************************************)
(* How a financial document becomes the lines of a journal entry           *)
(* (backend/app/modules/finance/posting.py, posting_rules.py), while       *)
(* administrators change the posting rules and the chart of accounts       *)
(* (backend/app/modules/finance/service.py: create_, update_ and           *)
(* delete_posting_rules, update_account).                                  *)
(*                                                                         *)
(* The posting holds its document's row lock and nothing else: each rule   *)
(* lookup is a SELECT of its own under READ COMMITTED, so the rules may    *)
(* change between the control account and a line, and between two lines.   *)
(* Periods, numbers and the document's status are Subledger's.             *)
(*                                                                         *)
(* Money.  Ledger columns are Numeric(19, 4).  A line's raw amounts        *)
(* (quantity * price, rate * taxable) have more decimals: they are counted *)
(* in half units of the last ledger decimal, and each column is rounded    *)
(* half up as it is stored, the document's totals from the unrounded sums. *)
(***************************************************************************)
EXTENDS Integers, Sequences, FiniteSets, FiniteSetsExt

CONSTANTS
    Rules,        \* ids of posting_rules
    Fees,         \* fee types
    Mappings,     \* the (debit, credit, tax) accounts a rule can name
    Taxed,        \* the mappings that name a tax account
    Legacy,       \* the mapping of DEFAULT_ACCOUNTS
    Priorities,
    Admins,       \* concurrent administrators (bound)
    MaxCommands,  \* administrative commands in all (bound)
    Documents,    \* the drafts that may be posted (bound)
    InitialRules, \* the rules there may be to begin with (bound)
    Free          \* no rule, no fee type, no account of its own

Strategy ==
    [CUSTOMER_INVOICE |-> [control |-> "debit", detail |-> "credit", detailed |-> TRUE],
     SUPPLIER_BILL    |-> [control |-> "credit", detail |-> "debit", detailed |-> TRUE],
     CUSTOMER_RECEIPT |-> [control |-> "credit", detail |-> "debit", detailed |-> FALSE]]

Scopes == Fees \cup {Free}
Rule == [status : {"ABSENT", "ACTIVE", "INACTIVE"}, fee : Scopes,
         priority : Priorities, mapping : Mappings]
(* A tax is given, to at most the decimals that a column has, or follows   *)
(* from a rate of at most 100 %.                                           *)
RawLine == {l \in [taxable : Nat, tax : Nat, fee : Scopes, own : BOOLEAN] :
               l.tax % 2 = 0 \/ l.tax <= l.taxable}

(* uq_posting_rules_active_priority: one active rule per scope, priority.  *)
Clash(rs, r, s) ==
    /\ r # s /\ rs[r].status = "ACTIVE" /\ rs[s].status = "ACTIVE"
    /\ rs[r].fee = rs[s].fee /\ rs[r].priority = rs[s].priority
Indexed(rs) == \A r, s \in Rules : ~Clash(rs, r, s)

ASSUME PostingDraftAssumption ==
    /\ Taxed \subseteq Mappings
    /\ Legacy \in Mappings \ Taxed
    /\ Priorities \subseteq Nat
    /\ MaxCommands \in Nat
    /\ \A d \in Documents : d.type \in DOMAIN Strategy /\ d.lines \in Seq(RawLine)
    /\ InitialRules \subseteq {rs \in [Rules -> Rule] : Indexed(rs)}
    /\ Free \notin Rules \cup Fees

VARIABLES
    rules,     \* committed rows of posting_rules
    usable,    \* the mappings whose accounts are active and postable
    admin,     \* what each administrator's request has read and is to write
    commands,  \* administrative commands begun
    document,  \* the draft being posted
    work,      \* the posting in progress
    entry,     \* the posted journal entry
    refused    \* why the last posting was refused

vars == <<rules, usable, admin, commands, document, work, entry, refused>>

(* An account is named by the mapping that names it and its role there.    *)
Leg == [role : {"debit", "credit", "tax", "own"}, mapping : Mappings \cup {Free},
        side : {"debit", "credit"}, amount : Nat \ {0}]
NoEntry == [rule |-> Free, legs |-> <<>>]
(* known: accounts this request has loaded, kept as they were then.        *)
(* since: the commands begun before it (history, for RightAccounts).       *)
NoWork == [step |-> "idle", rule |-> Free, control |-> Legacy, legs |-> <<>>,
           next |-> 1, resolvedAny |-> FALSE, known |-> {}, since |-> 0]
NoCommand == [does |-> "nothing", rule |-> Free]

-----------------------------------------------------------------------------
Rounded(raw) == (raw + 1) \div 2
SumOver(Op(_), s) == MapThenSumSet(LAMBDA i : Op(s[i]), DOMAIN s)

LineAmount(l) == Rounded(l.taxable + l.tax)
LineTax(l) == Rounded(l.tax)
(* Mutant: the total of a document leaves its tax out.                     *)
NetTotal(d) == Rounded(SumOver(LAMBDA l : l.taxable, d.lines))
Total(d) == Rounded(SumOver(LAMBDA l : l.taxable + l.tax, d.lines))
TaxTotal(d) == Rounded(SumOver(LAMBDA l : l.tax, d.lines))

Booked(legs, side) ==
    SumOver(LAMBDA g : IF g.side = side THEN g.amount ELSE 0, legs)
(* JournalDraft.add skips amounts that are not positive.                   *)
LegOf(role, mapping, side, amount) ==
    IF amount <= 0 THEN <<>>
    ELSE <<[role |-> role, mapping |-> mapping, side |-> side, amount |-> amount]>>

(* PostingRuleResolver: the exact tier if it has any active rule, else the *)
(* document default; within the tier the highest priority.                 *)
Tier(fee) == {r \in Rules : rules[r].status = "ACTIVE" /\ rules[r].fee = fee}
Highest(tier) == {r \in tier : \A s \in tier : rules[s].priority <= rules[r].priority}
(* Mutant: fee-specific and default rules compete on priority alone.       *)
GoverningByPriority(fee) == Highest(Tier(fee) \cup Tier(Free))
Governing(fee) ==
    IF fee # Free /\ Tier(fee) # {} THEN Highest(Tier(fee)) ELSE Highest(Tier(Free))

RuleFor(fee) == IF Governing(fee) = {} THEN Free ELSE CHOOSE r \in Governing(fee) : TRUE
MappingFor(fee) == IF RuleFor(fee) = Free THEN Legacy ELSE rules[RuleFor(fee)].mapping
Ambiguous(fee) == Cardinality(Governing(fee)) > 1
Resolves(fee) == ~Ambiguous(fee) /\ MappingFor(fee) \in usable \cup work.known
WhyNot(fee) == IF Ambiguous(fee) THEN "AMBIGUOUS" ELSE "UNUSABLE"

-----------------------------------------------------------------------------
Plan == Strategy[document.type]
Untouched == UNCHANGED <<rules, usable, admin, commands>>

(* An exception rolls back: the document stays a draft without an entry.   *)
Refuse(why) ==
    /\ work' = NoWork /\ refused' = why
    /\ UNCHANGED <<document, entry>>

(* When a posting begins: beyond every command if one is under way.        *)
Now == IF \A a \in Admins : admin[a] = NoCommand THEN commands ELSE MaxCommands + 1

(* post_document up to the control leg of build; two-sided types take both *)
(* accounts from the same mapping.                                         *)
PostBegin ==
    /\ work.step = "idle" /\ document.status = "DRAFT"
    /\ Untouched
    /\ LET total == Total(document)
           mapping == MappingFor(Free)
           control == LegOf(Plan.control, mapping, Plan.control, total)
           other == LegOf(Plan.detail, mapping, Plan.detail, total)
       IN IF total = 0 THEN Refuse("TOTAL")
          ELSE IF ~Resolves(Free) THEN Refuse(WhyNot(Free))
          ELSE /\ work' = [NoWork EXCEPT
                    !.step = IF Plan.detailed /\ document.lines # <<>> THEN "lines" ELSE "built",
                    !.rule = RuleFor(Free), !.control = mapping,
                    !.legs = IF Plan.detailed /\ document.lines # <<>>
                             THEN control ELSE control \o other,
                    !.known = {mapping}, !.since = Now]
               /\ refused' = "none"
               /\ UNCHANGED <<document, entry>>

(* The tax a line sends to the tax account of the control mapping.         *)
TaxOf(l) == IF work.control \in Taxed
            THEN Min({LineTax(l), LineAmount(l)}) ELSE 0

(* One pass of the loop in _add_detailed.  A line's own account is used as *)
(* it is; otherwise the rules are read once more for the line's fee type.  *)
PostLine ==
    /\ work.step = "lines" /\ work.next <= Len(document.lines)
    /\ Untouched
    /\ LET l == document.lines[work.next]
           net == LineAmount(l) - TaxOf(l)
           taxLeg == LegOf("tax", work.control, Plan.detail, TaxOf(l))
           mapping == MappingFor(l.fee)
           detail == IF l.own THEN LegOf("own", Free, Plan.detail, net)
                              ELSE LegOf(Plan.detail, mapping, Plan.detail, net)
       IN IF net > 0 /\ ~l.own /\ ~Resolves(l.fee) THEN Refuse(WhyNot(l.fee))
          ELSE /\ work' = [work EXCEPT
                    !.next = @ + 1,
                    !.legs = @ \o taxLeg \o detail,
                    !.resolvedAny = @ \/ net > 0,
                    !.known = IF net > 0 /\ ~l.own THEN @ \cup {mapping} ELSE @]
               /\ UNCHANGED <<document, entry, refused>>

(* The fallback of _add_detailed, for a document with no detail leg.       *)
PostFallback ==
    /\ work.step = "lines" /\ work.next > Len(document.lines)
    /\ Untouched
    /\ work' = [work EXCEPT
         !.step = "built",
         !.legs = IF work.resolvedAny THEN @
                  ELSE @ \o LegOf("credit", work.control, "credit", Total(document))]
    /\ UNCHANGED <<document, entry, refused>>

(* Mutant: the entry is compared with the document's total on one side.    *)
HalfBalanced(legs) == Booked(legs, Plan.control) = Total(document)
(* JournalDraft.assert_balanced.                                           *)
Balanced(legs) == Booked(legs, "debit") = Booked(legs, "credit")

(* assert_balanced, the two-line minimum, and the INSERT whose foreign key *)
(* needs the rule to exist.                                                *)
PostCommit ==
    /\ work.step = "built"
    /\ Untouched
    /\ IF ~Balanced(work.legs) \/ Len(work.legs) < 2 THEN Refuse("UNBALANCED")
       ELSE IF work.rule # Free /\ rules[work.rule].status = "ABSENT" THEN Refuse("RULE_GONE")
       ELSE /\ entry' = [rule |-> work.rule, legs |-> work.legs]
            /\ document' = [document EXCEPT !.status = "POSTED"]
            /\ work' = NoWork /\ refused' = "none"

-----------------------------------------------------------------------------
(* Administration.  A request reads and validates, then writes.            *)
MayBegin(a) == admin[a] = NoCommand /\ commands < MaxCommands
Begin(a, command) ==
    /\ admin' = [admin EXCEPT ![a] = command]
    /\ commands' = commands + 1
    /\ UNCHANGED <<rules, usable, document, work, entry, refused>>
End(a) ==
    /\ admin' = [admin EXCEPT ![a] = NoCommand]
    /\ UNCHANGED <<commands, usable, document, work, entry, refused>>

(* create_posting_rule, or update_posting_rule of one field (bound): the   *)
(* accounts named must be postable, the priority free.                     *)
SaveRuleRead(a, r, values) ==
    /\ MayBegin(a)
    /\ values.status # "ABSENT"
    /\ rules[r].status = "ABSENT" \/ Cardinality({f \in DOMAIN values : values[f] # rules[r][f]}) = 1
    /\ values.mapping \in usable \/ (rules[r].status # "ABSENT" /\ values.mapping = rules[r].mapping)
    /\ \A s \in Rules : ~Clash([rules EXCEPT ![r] = values], r, s)
    /\ Begin(a, [does |-> "save", rule |-> r, was |-> rules[r], values |-> values])

(* UPDATE writes the columns that differ from what the request read.       *)
Merged(c) == [f \in DOMAIN c.values |->
    IF c.was.status # "ABSENT" /\ c.values[f] = c.was[f] THEN rules[c.rule][f] ELSE c.values[f]]
(* A rule to update must still be there, a new id not yet taken.           *)
Applies(c) == (rules[c.rule].status = "ABSENT") <=> (c.was.status = "ABSENT")

(* Mutant: the check the request made when it read is trusted.             *)
IndexTrusted(rs) == TRUE
(* The write, refused by the unique index.                                 *)
IndexAccepts(rs) == Indexed(rs)
SaveRuleWrite(a) ==
    /\ admin[a].does = "save"
    /\ LET c == admin[a]
           written == [rules EXCEPT ![c.rule] = Merged(c)]
       IN rules' = IF Applies(c) /\ IndexAccepts(written) THEN written ELSE rules
    /\ End(a)

(* Mutant: the reference scan is trusted.                                  *)
ReferencesTrusted(r) == TRUE
(* The foreign key of journal_entries.posting_rule_id.                     *)
Unreferenced(r) == entry.rule # r

(* delete_posting_rules: require_inactive, ensure_deletable, DELETE.       *)
DeleteRuleRead(a, r) ==
    /\ MayBegin(a)
    /\ rules[r].status = "INACTIVE" /\ entry.rule # r
    /\ Begin(a, [does |-> "delete", rule |-> r])

DeleteRuleWrite(a) ==
    /\ admin[a].does = "delete"
    /\ LET r == admin[a].rule
       IN rules' = IF Unreferenced(r) THEN [rules EXCEPT ![r].status = "ABSENT"] ELSE rules
    /\ End(a)

(* update_account: accounts become inactive or headers, and usable again.  *)
ChangeAccounts(m) ==
    /\ commands < MaxCommands
    /\ usable' = IF m \in usable THEN usable \ {m} ELSE usable \cup {m}
    /\ commands' = commands + 1
    /\ UNCHANGED <<rules, admin, document, work, entry, refused>>

-----------------------------------------------------------------------------
Init ==
    /\ rules \in InitialRules
    /\ usable = Mappings
    /\ admin = [a \in Admins |-> NoCommand]
    /\ commands = 0
    /\ document \in {[status |-> "DRAFT", type |-> d.type, lines |-> d.lines] : d \in Documents}
    /\ work = NoWork /\ entry = NoEntry /\ refused = "none"

Post == PostBegin \/ PostLine \/ PostFallback \/ PostCommit
Administer(a) ==
    \/ \E r \in Rules :
        \/ \E values \in Rule : SaveRuleRead(a, r, values)
        \/ DeleteRuleRead(a, r)
    \/ SaveRuleWrite(a) \/ DeleteRuleWrite(a)
Next ==
    \/ Post
    \/ \E a \in Admins : Administer(a)
    \/ \E m \in Mappings : ChangeAccounts(m)
Spec == Init /\ [][Next]_vars

-----------------------------------------------------------------------------
(* Properties.                                                             *)
Command == [does : {"nothing", "delete"}, rule : Rules \cup {Free}]
    \cup [does : {"save"}, rule : Rules, was : Rule, values : Rule]

(* What the columns may hold; a posting never goes past its document's     *)
(* lines.                                                                  *)
TypeOK ==
    /\ rules \in [Rules -> Rule] /\ usable \subseteq Mappings
    /\ admin \in [Admins -> Command] /\ commands \in 0..MaxCommands
    /\ document.status \in {"DRAFT", "POSTED"} /\ document.lines \in Seq(RawLine)
    /\ document.type \in DOMAIN Strategy
    /\ work.step \in {"idle", "lines", "built"} /\ work.rule \in Rules \cup {Free}
    /\ work.control \in Mappings /\ work.known \subseteq Mappings
    /\ work.legs \in Seq(Leg) /\ work.next \in 1..(Len(document.lines) + 1)
    /\ work.resolvedAny \in BOOLEAN /\ work.since \in 0..(MaxCommands + 1)
    /\ entry.rule \in Rules \cup {Free} /\ entry.legs \in Seq(Leg)
    /\ refused \in {"none", "TOTAL", "AMBIGUOUS", "UNUSABLE", "UNBALANCED", "RULE_GONE"}

(* The entry of a posted document has at least two lines and books the     *)
(* document's total on either side, whichever rules its lines met.         *)
EntryBalances == document.status = "POSTED" =>
    /\ Len(entry.legs) >= 2
    /\ Booked(entry.legs, "debit") = Total(document)
    /\ Booked(entry.legs, "credit") = Total(document)

Exact(d) == \A i \in DOMAIN d.lines :
    d.lines[i].tax % 2 = 0 /\ (d.lines[i].taxable + d.lines[i].tax) % 2 = 0
AllTax(d) == \A i \in DOMAIN d.lines : d.lines[i].taxable = 0
BookedTax(legs) == SumOver(LAMBDA g : IF g.role = "tax" THEN g.amount ELSE 0, legs)
Abs(n) == IF n < 0 THEN -n ELSE n

(* A draft is refused as unbalanced for no other reason than amounts that  *)
(* the columns do not hold, or a document of nothing but tax.              *)
UnbalancedOnlyByRounding == refused = "UNBALANCED" => ~Exact(document) \/ AllTax(document)

(* However administrators overlap, a posting never meets two governing     *)
(* rules: the unique index decides what the check in the service cannot.   *)
NeverAmbiguous == refused # "AMBIGUOUS"

(* The rule an entry is attributed to is never deleted.                    *)
AttributionKept == entry.rule # Free => rules[entry.rule].status # "ABSENT"

(* What an entry books on each account is what the document and the rules  *)
(* in force say, if no administrator was at work meanwhile: every line on  *)
(* the account of the highest-priority rule for its fee type, or else of   *)
(* the document default, or else of the built-in map.                      *)
Answers(r, fee) == rules[r].status = "ACTIVE" /\ rules[r].fee \in {fee, Free}
Outranks(r, s) ==
    \/ rules[r].fee # Free /\ rules[s].fee = Free
    \/ rules[r].fee = rules[s].fee /\ rules[r].priority > rules[s].priority
InForce(r, fee) ==
    Answers(r, fee) /\ \A s \in Rules \ {r} : Answers(s, fee) => Outranks(r, s)
AccountsFor(fee) ==
    IF \E r \in Rules : InForce(r, fee)
    THEN rules[CHOOSE r \in Rules : InForce(r, fee)].mapping ELSE Legacy
On(legs, role, mapping) == SumOver(
    LAMBDA g : IF g.role = role /\ g.mapping = mapping THEN g.amount ELSE 0, legs)
Net(l) == LineAmount(l) - (IF AccountsFor(Free) \in Taxed THEN LineTax(l) ELSE 0)
OwedTo(m) == SumOver(LAMBDA l : IF ~l.own /\ AccountsFor(l.fee) = m THEN Net(l) ELSE 0, document.lines)
AsTheRulesSay(legs) ==
    /\ \A i \in DOMAIN legs : legs[i].side = IF legs[i].role = Plan.control THEN Plan.control ELSE Plan.detail
    /\ \A m \in Mappings :
        /\ On(legs, Plan.control, m) = IF m = AccountsFor(Free) THEN Total(document) ELSE 0
        /\ On(legs, Plan.detail, m) =
             IF Plan.detailed THEN OwedTo(m) ELSE On(legs, Plan.control, m)
    /\ Plan.detailed =>
        On(legs, "own", Free) = SumOver(LAMBDA l : IF l.own THEN Net(l) ELSE 0, document.lines)
RightAccounts ==
    [][document'.status # document.status /\ commands = work.since => AsTheRulesSay(entry'.legs)]_vars

=============================================================================
