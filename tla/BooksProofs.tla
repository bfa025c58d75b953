----------------------------- MODULE BooksProofs ----------------------------
(* What the postings, the manual journals, the statuses and the currencies  *)
(* of documents keep, for any number of rules, administrators, documents,   *)
(* journals, requests, rates and amounts: no posting meets two governing    *)
(* rules and the rule an entry is attributed to stays; posted journals      *)
(* balance; the shared status endpoint makes no change that is a command's; *)
(* a posted invoice, its lines and its entry tell the same amounts; a route *)
(* is the list that was submitted; the reports show every line and          *)
(* reconcile; and the lists of balances and the dashboard's cards meet the  *)
(* ledger, but for the amounts that a reversal wrote back stale.            *)
EXTENDS MCBooks, Sums, FiniteSetTheorems, TLAPS

-----------------------------------------------------------------------------
(* Postings.  What a request that saves a rule may be carrying.             *)
Pending(a) ==
    /\ admin[a].rule \in Rules
    /\ admin[a].was \in Rule /\ admin[a].values \in Rule
    /\ admin[a].values.status # "ABSENT"

(* The strengthening: the rows are rules that respect the index, whatever  *)
(* is pending is a rule, the document has lines, the rule a posting or an  *)
(* entry names is one, and a posting counts its lines.                     *)
Rows == rules \in [Rules -> Rule] /\ Indexed(rules)
Commands == \A a \in Admins : admin[a].does = "save" => Pending(a)
Lines == document.lines \in Seq(RawLine)
Named == work.rule \in Rules \cup {Free} /\ entry.rule \in Rules \cup {Free}
Fields == {"step", "rule", "control", "legs", "next", "resolvedAny", "known", "since"}
Counting == DOMAIN work = Fields /\ work.next \in Nat \ {0}
IInv == Rows /\ Commands /\ Lines /\ Named /\ Counting /\ NeverAmbiguous /\ AttributionKept

-----------------------------------------------------------------------------
(* Under the index a tier has no more than one highest rule.               *)
LEMMA OneHighest ==
    ASSUME Rows, NEW fee \in Scopes, NEW r \in Highest(Tier(fee)), NEW s \in Highest(Tier(fee))
    PROVE  r = s
<1>1. r \in Rules /\ s \in Rules
  BY DEF Highest, Tier
<1>2. /\ rules[r].status = "ACTIVE" /\ rules[s].status = "ACTIVE"
      /\ rules[r].fee = rules[s].fee
  BY DEF Highest, Tier
<1>3. rules[r].priority \in Nat /\ rules[s].priority \in Nat
  BY <1>1, PostingDraftAssumption DEF Rows, Rule
<1>4. rules[r].priority <= rules[s].priority /\ rules[s].priority <= rules[r].priority
  BY DEF Highest
<1>5. rules[r].priority = rules[s].priority
  BY <1>3, <1>4
<1> QED
  BY <1>1, <1>2, <1>5 DEF Rows, Indexed, Clash

(* So no fee type is ambiguous.                                            *)
LEMMA NoAmbiguity ==
    ASSUME Rows, NEW fee \in Scopes
    PROVE  ~Ambiguous(fee)
<1>1. \A r, s \in Governing(fee) : r = s
  <2>1. Free \in Scopes
    BY DEF Scopes
  <2> QED
    BY <2>1, OneHighest DEF Governing
<1>2. CASE Governing(fee) = {}
  BY <1>2, FS_EmptySet DEF Ambiguous
<1>3. CASE Governing(fee) # {}
  <2>1. PICK r \in Governing(fee) : TRUE
    BY <1>3
  <2>2. Governing(fee) = {r}
    BY <1>1, <2>1
  <2> QED
    BY <2>2, FS_Singleton DEF Ambiguous
<1> QED
  BY <1>2, <1>3

(* The rule found for a fee type is one of the rules, or none.             *)
LEMMA RuleForRule ==
    ASSUME NEW fee
    PROVE  RuleFor(fee) \in Rules \cup {Free}
BY DEF RuleFor, Governing, Highest, Tier

(* What a save writes is a rule that is not absent.                        *)
LEMMA MergedRule ==
    ASSUME Rows, NEW a \in Admins, Pending(a), Applies(admin[a])
    PROVE  /\ Merged(admin[a]) \in Rule
           /\ Merged(admin[a]).status # "ABSENT"
<1> DEFINE c == admin[a]
<1>1. c.values \in Rule /\ rules[c.rule] \in Rule
  BY DEF Pending, Rows
<1>2. DOMAIN c.values = {"status", "fee", "priority", "mapping"}
  BY <1>1 DEF Rule
<1>3. Merged(c) = [status |-> Merged(c).status, fee |-> Merged(c).fee,
                   priority |-> Merged(c).priority, mapping |-> Merged(c).mapping]
  BY <1>2 DEF Merged
<1>4. \A f \in {"status", "fee", "priority", "mapping"} :
        Merged(c)[f] = c.values[f] \/ Merged(c)[f] = rules[c.rule][f]
  BY <1>2 DEF Merged
<1>5. Merged(c) \in Rule
  BY <1>1, <1>3, <1>4 DEF Rule
<1>6. Merged(c).status # "ABSENT"
  <2>1. CASE c.was.status = "ABSENT"
    BY <1>2, <2>1 DEF Merged, Pending
  <2>2. CASE c.was.status # "ABSENT"
    BY <1>4, <2>2 DEF Applies, Pending
  <2> QED
    BY <2>1, <2>2
<1> QED
  BY <1>5, <1>6

-----------------------------------------------------------------------------
(* No initial state has an index violation.                                *)
LEMMA InitIInv == Init => IInv
BY PostingDraftAssumption
   DEF Init, Fields, IInv, Rows, Commands, Lines, Named, Counting, NeverAmbiguous, AttributionKept,
       NoCommand, NoWork, NoEntry

(* One case per action; a posting step moves only its own variables.       *)
LEMMA NextIInv == IInv /\ [Next]_vars => IInv'
<1> SUFFICES ASSUME IInv, [Next]_vars PROVE IInv'
  OBVIOUS
<1> USE DEF IInv
<1>1. CASE Post
  <2>1. rules' = rules /\ admin' = admin
    BY <1>1 DEF Post, PostBegin, PostLine, PostFallback, PostCommit, Untouched
  <2>2. Rows' /\ Commands'
    BY <2>1 DEF Rows, Commands, Indexed, Clash, Pending
  <2>3. CASE PostBegin
    <3>1. ~Ambiguous(Free)
      BY NoAmbiguity DEF Scopes
    <3>2. entry' = entry /\ document' = document /\ refused' \in {"TOTAL", "UNUSABLE", "none"}
      BY <2>3, <3>1 DEF PostBegin, Refuse, WhyNot
    <3>3. Named' /\ Counting'
      <4>1. CASE work' = NoWork
        BY <3>2, <4>1 DEF NoWork, Named, Counting, Fields
      <4> DEFINE mapping == MappingFor(Free)
                 listed == Plan.detailed /\ document.lines # <<>>
                 control == LegOf(Plan.control, mapping, Plan.control, Total(document))
                 other == LegOf(Plan.detail, mapping, Plan.detail, Total(document))
                 step == IF listed THEN "lines" ELSE "built"
                 legs == IF listed THEN control ELSE control \o other
      <4>2. CASE work' = [NoWork EXCEPT !.step = step, !.rule = RuleFor(Free),
                            !.control = mapping, !.legs = legs,
                            !.known = {mapping}, !.since = Now]
        <5> HIDE DEF mapping, legs, step
        <5> QED
          BY <3>2, <4>2, RuleForRule DEF NoWork, Named, Counting, Fields
      <4> QED
        BY <2>3, <4>1, <4>2 DEF PostBegin, Refuse
    <3> QED
      BY <2>1, <2>2, <3>2, <3>3 DEF Lines, Named, Counting, NeverAmbiguous, AttributionKept
  <2>4. CASE PostLine
    <3> DEFINE l == document.lines[work.next]
    <3>1. CASE Refuse(WhyNot(l.fee))
      <4>1. l \in RawLine
        BY <2>4 DEF PostLine, Lines, Counting
      <4>2. ~Ambiguous(l.fee)
        BY <4>1, NoAmbiguity DEF RawLine
      <4> QED
        BY <2>1, <2>2, <3>1, <4>2
           DEF Refuse, WhyNot, NoWork, Lines, Named, Counting, Fields, NeverAmbiguous, AttributionKept
    <3> DEFINE net == LineAmount(l) - TaxOf(l)
               taxLeg == LegOf("tax", work.control, Plan.detail, TaxOf(l))
               mapping == MappingFor(l.fee)
               detail == IF l.own THEN LegOf("own", Free, Plan.detail, net)
                                  ELSE LegOf(Plan.detail, mapping, Plan.detail, net)
    <3>2. CASE /\ UNCHANGED <<document, entry, refused>>
               /\ work' = [work EXCEPT
                    !.next = @ + 1,
                    !.legs = @ \o taxLeg \o detail,
                    !.resolvedAny = @ \/ net > 0,
                    !.known = IF net > 0 /\ ~l.own THEN @ \cup {mapping} ELSE @]
      <4> HIDE DEF net, taxLeg, mapping, detail
      <4> QED
       BY <2>1, <2>2, <3>2 DEF Lines, Named, Counting, Fields, NeverAmbiguous, AttributionKept
    <3> QED
      BY <2>4, <3>1, <3>2 DEF PostLine
  <2>5. CASE PostFallback
    BY <2>1, <2>2, <2>5 DEF PostFallback, Lines, Named, Counting, Fields, NeverAmbiguous, AttributionKept
  <2>6. CASE PostCommit
    <3>1. CASE Refuse("UNBALANCED") \/ Refuse("RULE_GONE")
      BY <2>1, <2>2, <3>1
         DEF Refuse, NoWork, Lines, Named, Counting, Fields, NeverAmbiguous, AttributionKept
    <3>2. CASE /\ work.rule = Free \/ rules[work.rule].status # "ABSENT"
               /\ entry' = [rule |-> work.rule, legs |-> work.legs]
               /\ document' = [document EXCEPT !.status = "POSTED"]
               /\ work' = NoWork /\ refused' = "none"
      BY <2>1, <2>2, <3>2
         DEF NoWork, Lines, Named, Counting, Fields, NeverAmbiguous, AttributionKept
    <3> QED
      BY <2>6, <3>1, <3>2 DEF PostCommit
  <2> QED
    BY <1>1, <2>3, <2>4, <2>5, <2>6 DEF Post
<1>2. ASSUME NEW a \in Admins, Administer(a) PROVE IInv'
  <2> USE DEF Lines, Named, Counting, NeverAmbiguous
  <2>1. ASSUME NEW r \in Rules, NEW values \in Rule, SaveRuleRead(a, r, values) PROVE IInv'
    <3>1. rules[r] \in Rule
      BY DEF Rows
    <3>2. Commands'
      BY <2>1, <3>1 DEF SaveRuleRead, Begin, Commands, Pending
    <3> QED
      BY <2>1, <3>2 DEF SaveRuleRead, Begin, Rows, Indexed, Clash, AttributionKept
  <2>2. ASSUME NEW r \in Rules, DeleteRuleRead(a, r) PROVE IInv'
    <3>1. Commands'
      BY <2>2 DEF DeleteRuleRead, Begin, Commands, Pending
    <3> QED
      BY <2>2, <3>1 DEF DeleteRuleRead, Begin, Rows, Indexed, Clash, AttributionKept
  <2>3. CASE SaveRuleWrite(a)
    <3> DEFINE c == admin[a]
               written == [rules EXCEPT ![c.rule] = Merged(c)]
    <3>1. Commands' /\ UNCHANGED <<work, entry, refused, document>>
      BY <2>3 DEF SaveRuleWrite, End, NoCommand, Commands, Pending
    <3>2. CASE rules' = rules
      BY <3>1, <3>2 DEF Rows, Indexed, Clash, AttributionKept
    <3>3. CASE Applies(c) /\ IndexAccepts(written) /\ rules' = written
      <4>1. Pending(a)
        BY <2>3 DEF SaveRuleWrite, Commands
      <4>2. Merged(c) \in Rule /\ Merged(c).status # "ABSENT"
        BY <3>3, <4>1, MergedRule
      <4>3. Rows'
        BY <3>3, <4>2 DEF Rows, IndexAccepts, Indexed, Clash
      <4>4. AttributionKept'
        BY <3>1, <3>3, <4>2 DEF AttributionKept, Rows
      <4> QED
        BY <3>1, <4>3, <4>4
    <3> QED
      BY <2>3, <3>2, <3>3 DEF SaveRuleWrite
  <2>4. CASE DeleteRuleWrite(a)
    <3> DEFINE r == admin[a].rule
    <3>1. Commands' /\ UNCHANGED <<work, entry, refused, document>>
      BY <2>4 DEF DeleteRuleWrite, End, NoCommand, Commands, Pending
    <3>2. CASE rules' = rules
      BY <3>1, <3>2 DEF Rows, Indexed, Clash, AttributionKept
    <3>3. CASE entry.rule # r /\ rules' = [rules EXCEPT ![r].status = "ABSENT"]
      <4>1. rules' \in [Rules -> Rule]
        BY <3>3 DEF Rows, Rule
      <4>2. Indexed(rules')
        BY <3>3 DEF Rows, Rule, Indexed, Clash
      <4>3. AttributionKept'
        BY <3>1, <3>3 DEF AttributionKept, Rows
      <4> QED
        BY <3>1, <4>1, <4>2, <4>3 DEF Rows
    <3> QED
      BY <2>4, <3>2, <3>3 DEF DeleteRuleWrite, Unreferenced
  <2> QED
    BY <1>2, <2>1, <2>2, <2>3, <2>4 DEF Administer
<1>3. ASSUME NEW m \in Mappings, ChangeAccounts(m) PROVE IInv'
  BY <1>3 DEF ChangeAccounts, Rows, Commands, Lines, Named, Counting, Indexed, Clash, Pending,
              NeverAmbiguous, AttributionKept
<1>4. CASE UNCHANGED vars
  BY <1>4 DEF vars, Rows, Commands, Lines, Named, Counting, Indexed, Clash, Pending,
              NeverAmbiguous, AttributionKept
<1> QED
  BY <1>1, <1>2, <1>3, <1>4 DEF Next

(* PostingRuleResolver._tier can raise AMBIGUOUS_POSTING_RULE only where   *)
(* the index is gone: no order of overlapping administrators gets there.   *)
THEOREM NoPostingIsAmbiguous == Spec => []NeverAmbiguous
<1>1. IInv => NeverAmbiguous
  BY DEF IInv
<1> QED
  BY InitIInv, NextIInv, <1>1, PTL DEF Spec

(* The rule that journal_entries.posting_rule_id names is never deleted.   *)
THEOREM AttributionIsKept == Spec => []AttributionKept
<1>1. IInv => AttributionKept
  BY DEF IInv
<1> QED
  BY InitIInv, NextIInv, <1>1, PTL DEF Spec

-----------------------------------------------------------------------------
(* The sums of a posting, as sums over the positions of its sequences.      *)
Side(s, side) == [i \in DOMAIN s |-> IF s[i].side = side THEN s[i].amount ELSE 0]
Raws(s) == [i \in DOMAIN s |-> s[i].taxable + s[i].tax]

LEMMA BookedIs ==
    ASSUME NEW s \in Seq(Leg), NEW side
    PROVE  /\ Booked(s, side) = SumIn(Side(s, side), DOMAIN s)
           /\ IsFiniteSet(DOMAIN s) /\ \A i \in DOMAIN s : Side(s, side)[i] \in Nat
           /\ Booked(s, side) \in Nat
<1> DEFINE F(i) == IF s[i].side = side THEN s[i].amount ELSE 0
           D == DOMAIN s
           f == CHOOSE g : g = [t \in SUBSET D |->
                   IF t = {} THEN 0 ELSE F(Chosen(t)) + g[t \ {Chosen(t)}]]
<1>1. Booked(s, side) = f[D]
  BY DEF Booked, SumOver, MapThenSumSet, MapThenFoldSet, Chosen
<1>2. D = 1..Len(s) /\ Len(s) \in Nat /\ IsFiniteSet(D)
  BY FS_Interval
<1>3. \A i \in D : F(i) \in Nat /\ Side(s, side)[i] = F(i)
  <2>1. ASSUME NEW i \in D PROVE s[i].amount \in Nat
    <3>1. s[i] \in Leg
      BY <1>2
    <3> QED BY <3>1 DEF Leg
  <2> QED BY <2>1 DEF Side
<1> HIDE DEF F, D
<1>4. PICK h : AddsUp(h, Side(s, side), D)
  BY <1>2, SomeWayToAddUp
<1>5. \A t \in SUBSET D : t # {} => Side(s, side)[Chosen(t)] = F(Chosen(t))
  BY <1>3, ChosenIsIn
<1>6. h = [t \in SUBSET D |-> IF t = {} THEN 0 ELSE F(Chosen(t)) + h[t \ {Chosen(t)}]]
  BY <1>4, <1>5 DEF AddsUp
<1>7. f = [t \in SUBSET D |-> IF t = {} THEN 0 ELSE F(Chosen(t)) + f[t \ {Chosen(t)}]]
  BY <1>6
<1> HIDE DEF f
<1>8. AddsUp(f, Side(s, side), D)
  BY <1>5, <1>7 DEF AddsUp
<1>9. SumIn(Side(s, side), D) = f[D] /\ SumIn(Side(s, side), D) \in Nat
  BY <1>2, <1>3, <1>8, SumIs, SumIsNat
<1> QED BY <1>1, <1>2, <1>3, <1>9 DEF D

(* t has what s has and an amount more on one side.                         *)
Adds(s, t, on, amount) ==
    /\ t \in Seq(Leg)
    /\ \A side : Booked(t, side) = Booked(s, side) + (IF on = side THEN amount ELSE 0)

(* A leg adds its amount to its side; one without an amount is left out.   *)
LEMMA LegBooks ==
    ASSUME NEW s \in Seq(Leg), NEW role \in {"debit", "credit", "tax", "own"},
           NEW mapping \in Mappings \cup {Free}, NEW on \in {"debit", "credit"},
           NEW amount \in Nat
    PROVE  Adds(s, s \o LegOf(role, mapping, on, amount), on, amount)
<1> DEFINE g == [role |-> role, mapping |-> mapping, side |-> on, amount |-> amount]
           t == s \o LegOf(role, mapping, on, amount)
           n == Len(s)
<1>1. CASE amount = 0
  <2>1. t = s
    BY <1>1 DEF LegOf
  <2>2. \A side : Booked(s, side) \in Nat
    BY BookedIs
  <2>3. t \in Seq(Leg)
    BY <2>1
  <2>4. \A side : Booked(t, side) = Booked(s, side)
    BY <2>1
  <2> HIDE DEF t
  <2>5. \A side : Booked(t, side) = Booked(s, side) + (IF on = side THEN amount ELSE 0)
    BY <1>1, <2>2, <2>4
  <2> QED BY <2>3, <2>5 DEF t, Adds
<1>2. CASE amount # 0
  <2>1. t = s \o <<g>> /\ g \in Leg
    BY <1>2 DEF LegOf, Leg
  <2> HIDE DEF t
  <2>2. /\ n \in Nat /\ DOMAIN s = 1..n /\ DOMAIN t = (1..n) \cup {n + 1}
        /\ t[n + 1] = g /\ \A i \in 1..n : t[i] = s[i]
        /\ t \in Seq(Leg)
    BY <2>1
  <2>3. ASSUME NEW side PROVE Booked(t, side) = Booked(s, side) + (IF on = side THEN amount ELSE 0)
    <3> DEFINE a == Side(t, side)
               b == Side(s, side)
               y == n + 1
               D == 1..n
    <3>1. Booked(t, side) = SumIn(a, D \cup {y}) /\ Booked(s, side) = SumIn(b, D)
      BY <2>2, BookedIs
    <3>2. IsFiniteSet(D) /\ y \notin D /\ \A i \in D \cup {y} : a[i] \in Int
      <4>1. \A i \in DOMAIN t : a[i] \in Nat
        BY <2>2, BookedIs
      <4>2. IsFiniteSet(D) /\ y \notin D
        BY <2>2, FS_Interval
      <4>3. DOMAIN t = D \cup {y}
        BY <2>2
      <4> HIDE DEF a, y, D
      <4> QED BY <4>1, <4>2, <4>3
    <3>3. \A i \in D : b[i] = a[i]
      BY <2>2 DEF Side
    <3>4. a[y] = IF on = side THEN amount ELSE 0
      BY <2>2 DEF Side
    <3>5. SumIn(b, D) \in Nat
      BY <2>2, <3>1, BookedIs
    <3> HIDE DEF a, b, y, D
    <3>6. SumIn(b, D) = SumIn(a, D)
      BY <3>2, <3>3, SumOfSame
    <3>7. SumIn(a, D \cup {y}) = a[y] + SumIn(a, D)
      BY <3>2, SumWith
    <3> QED BY <3>1, <3>4, <3>5, <3>6, <3>7
  <2> QED BY <2>2, <2>3 DEF t, Adds
<1> QED BY <1>1, <1>2

(* The total of a document is rounded from the sum of its lines' amounts.   *)
LEMMA TotalIs ==
    ASSUME NEW d, d.lines \in Seq(RawLine)
    PROVE  /\ IsFiniteSet(DOMAIN d.lines)
           /\ \A i \in DOMAIN d.lines : Raws(d.lines)[i] \in Nat
           /\ SumIn(Raws(d.lines), DOMAIN d.lines) \in Nat
           /\ Total(d) = Rounded(SumIn(Raws(d.lines), DOMAIN d.lines)) /\ Total(d) \in Nat
<1> DEFINE s == d.lines
           F(i) == s[i].taxable + s[i].tax
           D == DOMAIN s
           f == CHOOSE g : g = [t \in SUBSET D |->
                   IF t = {} THEN 0 ELSE F(Chosen(t)) + g[t \ {Chosen(t)}]]
<1>1. Total(d) = Rounded(f[D])
  BY DEF Total, SumOver, MapThenSumSet, MapThenFoldSet, Chosen
<1>2. D = 1..Len(s) /\ Len(s) \in Nat /\ IsFiniteSet(D)
  BY FS_Interval
<1>3. \A i \in D : F(i) \in Nat /\ Raws(s)[i] = F(i)
  <2>1. ASSUME NEW i \in D PROVE F(i) \in Nat
    <3>1. s[i] \in RawLine
      BY <1>2
    <3> QED BY <3>1 DEF RawLine
  <2> QED BY <2>1 DEF Raws
<1> HIDE DEF F, D, s
<1>4. PICK h : AddsUp(h, Raws(s), D)
  BY <1>2, SomeWayToAddUp
<1>5. \A t \in SUBSET D : t # {} => Raws(s)[Chosen(t)] = F(Chosen(t))
  BY <1>3, ChosenIsIn
<1>6. h = [t \in SUBSET D |-> IF t = {} THEN 0 ELSE F(Chosen(t)) + h[t \ {Chosen(t)}]]
  BY <1>4, <1>5 DEF AddsUp
<1>7. f = [t \in SUBSET D |-> IF t = {} THEN 0 ELSE F(Chosen(t)) + f[t \ {Chosen(t)}]]
  BY <1>6
<1> HIDE DEF f
<1>8. AddsUp(f, Raws(s), D)
  BY <1>5, <1>7 DEF AddsUp
<1>9. SumIn(Raws(s), D) = f[D] /\ SumIn(Raws(s), D) \in Nat
  BY <1>2, <1>3, <1>8, SumIs, SumIsNat
<1>10. Rounded(f[D]) \in Nat
  BY <1>9 DEF Rounded
<1> QED BY <1>1, <1>2, <1>3, <1>9, <1>10 DEF D, s

(* The raw amounts of the first n lines, which are part of them all.        *)
Begun(n) == SumIn(Raws(document.lines), 1..n)

LEMMA BegunGrows ==
    ASSUME Lines
    PROVE  /\ Begun(0) = 0
           /\ \A n \in DOMAIN document.lines :
                 /\ Begun(n - 1) \in Nat
                 /\ Begun(n) = Raws(document.lines)[n] + Begun(n - 1)
           /\ \A n \in 0..Len(document.lines) :
                 Begun(n) \in Nat /\ Begun(n) <= 2 * Total(document)
<1> DEFINE a == Raws(document.lines)
           D == DOMAIN document.lines
           N == Len(document.lines)
<1>1. D = 1..N /\ N \in Nat /\ IsFiniteSet(D) /\ \A i \in D : a[i] \in Nat
  BY TotalIs DEF Lines
<1>2. Total(document) \in Nat /\ SumIn(a, D) \in Nat /\ Total(document) = (SumIn(a, D) + 1) \div 2
  BY TotalIs DEF Lines, Rounded
<1> HIDE DEF a, D, N
<1>3. Begun(0) = 0
  <2>1. 1..0 = {}
    OBVIOUS
  <2>2. SumIn(a, {}) = 0
    BY SumOfParts, FS_EmptySet
  <2> QED BY <2>1, <2>2 DEF Begun, a
<1>4. ASSUME NEW n \in 0..N PROVE Begun(n) \in Nat /\ Begun(n) <= SumIn(a, D)
  <2>1. 1..n \in SUBSET D
    BY <1>1
  <2> DEFINE T == 1..n
  <2>2. Begun(n) = SumIn(a, T)
    BY DEF Begun, a
  <2> HIDE DEF T
  <2>3. /\ SumIn(a, T) \in Nat /\ SumIn(a, D \ T) \in Nat
        /\ SumIn(a, D) = SumIn(a, T) + SumIn(a, D \ T)
    BY <1>1, <2>1, SumOfPart DEF T
  <2> QED BY <2>2, <2>3
<1>5. ASSUME NEW n \in D PROVE Begun(n) = a[n] + Begun(n - 1)
  <2> DEFINE T == 1..(n - 1)
  <2>1. IsFiniteSet(T) /\ n \notin T /\ 1..n = T \cup {n} /\ T \cup {n} \subseteq D
    BY <1>1, FS_Interval
  <2>2. \A i \in T \cup {n} : a[i] \in Int
    BY <1>1, <2>1
  <2>3. Begun(n) = SumIn(a, T \cup {n}) /\ Begun(n - 1) = SumIn(a, T)
    BY <2>1 DEF Begun, a
  <2> HIDE DEF T
  <2>4. SumIn(a, T \cup {n}) = a[n] + SumIn(a, T)
    BY <2>1, <2>2, SumWith
  <2> QED BY <2>3, <2>4
<1>6. SumIn(a, D) <= 2 * Total(document)
  BY <1>2
<1>7. \A n \in D : n - 1 \in 0..N
  BY <1>1
<1>8. \A n \in 0..N : Begun(n) \in Nat /\ Begun(n) <= 2 * Total(document)
  BY <1>2, <1>4, <1>6
<1> QED BY <1>3, <1>5, <1>7, <1>8 DEF a, D, N

(* What a posting that is under way has booked: its control side is the     *)
(* total, and while no line has met an account of its own, the other side   *)
(* has no more than tax, which is at most half of what its lines amount to. *)
Draft == document \in [status : {"DRAFT", "POSTED"}, type : DOMAIN Strategy, lines : Seq(RawLine)]
AtWork == work.step # "idle" =>
    /\ document.status = "DRAFT" /\ Total(document) > 0
    /\ work.legs \in Seq(Leg) /\ work.control \in Mappings
BookedSoFar == work.step = "lines" =>
    /\ Plan.detailed /\ work.next <= Len(document.lines) + 1
    /\ Booked(work.legs, Plan.control) = Total(document)
    /\ work.resolvedAny \/ 2 * Booked(work.legs, Plan.detail) <= Begun(work.next - 1)
AllBooked == work.step = "built" =>
    (Balanced(work.legs) => Booked(work.legs, Plan.control) = Total(document))
Balancing == Draft /\ AtWork /\ BookedSoFar /\ AllBooked /\ EntryBalances

LEMMA MappingForMapping == ASSUME Rows, NEW fee PROVE MappingFor(fee) \in Mappings
<1>1. RuleFor(fee) # Free => RuleFor(fee) \in Rules
  BY RuleForRule
<1>2. \A r \in Rules : rules[r].mapping \in Mappings
  BY DEF Rows, Rule
<1> QED BY <1>1, <1>2, PostingDraftAssumption DEF MappingFor

LEMMA Plans ==
    ASSUME Draft
    PROVE  /\ Plan.control \in {"debit", "credit"} /\ Plan.detail \in {"debit", "credit"}
           /\ Plan.control # Plan.detail
           /\ Plan.detailed => Plan.control = "debit" \/ Plan.control = "credit"
BY DEF Draft, Plan, Strategy

(* The first step books the total on the control side, and on the other     *)
(* side of a document whose lines are not read.                             *)
LEMMA BeginBalances == ASSUME IInv, Balancing, PostBegin PROVE Balancing'
<1> DEFINE mapping == MappingFor(Free)
           listed == Plan.detailed /\ document.lines # <<>>
           total == Total(document)
           c == Plan.control
           d == Plan.detail
           control == LegOf(c, mapping, c, total)
           other == LegOf(d, mapping, d, total)
           legs == IF listed THEN control ELSE control \o other
<1>1. entry' = entry /\ document' = document /\ document.status = "DRAFT"
  BY DEF PostBegin, Refuse
<1>2. Draft' /\ EntryBalances'
  BY <1>1 DEF Balancing, Draft, EntryBalances
<1>3. CASE work' = NoWork
  BY <1>1, <1>2, <1>3 DEF Balancing, AtWork, BookedSoFar, AllBooked, NoWork
<1>4. CASE /\ total # 0
           /\ work' = [NoWork EXCEPT !.step = IF listed THEN "lines" ELSE "built",
                          !.rule = RuleFor(Free), !.control = mapping, !.legs = legs,
                          !.known = {mapping}, !.since = Now]
  <2>1. total \in Nat /\ total > 0
    BY <1>4, TotalIs DEF IInv, Lines
  <2>2. mapping \in Mappings
    BY MappingForMapping DEF IInv
  <2>3. c \in {"debit", "credit"} /\ d \in {"debit", "credit"} /\ c # d
    BY Plans DEF Balancing
  <2>4. /\ control \in Seq(Leg) /\ Booked(control, c) = total /\ Booked(control, d) = 0
    <3>1. <<>> \in Seq(Leg) /\ DOMAIN <<>> = {}
      OBVIOUS
    <3>2. Booked(<<>>, c) = 0 /\ Booked(<<>>, d) = 0
      BY <3>1, BookedIs, SumOfParts, FS_EmptySet
    <3>3. <<>> \o control = control
      BY DEF LegOf
    <3> HIDE DEF c, d, total, mapping
    <3>4. c \in {"debit", "credit", "tax", "own"} /\ mapping \in Mappings \cup {Free}
      BY <2>2, <2>3
    <3>5. Adds(<<>>, <<>> \o control, c, total)
      BY <2>1, <2>3, <3>1, <3>4, LegBooks
    <3> HIDE DEF control
    <3> QED BY <2>1, <2>3, <3>2, <3>3, <3>5 DEF Adds
  <2>5. control \o other \in Seq(Leg) /\ Booked(control \o other, c) = total
    <3> HIDE DEF c, d, total, mapping, control
    <3>1. d \in {"debit", "credit", "tax", "own"} /\ mapping \in Mappings \cup {Free}
      BY <2>2, <2>3
    <3>2. Adds(control, control \o other, d, total)
      BY <2>1, <2>3, <2>4, <3>1, LegBooks
    <3> HIDE DEF other
    <3> QED BY <2>1, <2>3, <2>4, <3>2 DEF Adds
  <2>6. legs \in Seq(Leg) /\ Booked(legs, c) = total /\ (listed => Booked(legs, d) = 0)
    <3> HIDE DEF c, d, total, mapping, control, other
    <3> QED BY <2>4, <2>5
  <2>7. /\ work'.step = IF listed THEN "lines" ELSE "built"
        /\ work'.legs = legs /\ work'.control = mapping /\ work'.next = 1 /\ ~work'.resolvedAny
    <3> HIDE DEF legs, mapping, listed
    <3> QED BY <1>4 DEF NoWork
  <2>8. Plan' = Plan /\ Total(document)' = total
    BY <1>1 DEF Plan
  <2>9. Begun(0)' = 0
    BY <1>1, BegunGrows DEF Begun, IInv
  <2> HIDE DEF legs, mapping, total
  <2>10. AtWork'
    BY <1>1, <2>1, <2>2, <2>6, <2>7, <2>8 DEF AtWork, total
  <2>11. BookedSoFar'
    <3>1. listed => Len(document.lines) \in Nat
      BY DEF IInv, Lines
    <3> QED BY <1>1, <2>6, <2>7, <2>8, <2>9, <3>1 DEF BookedSoFar, Begun
  <2>12. AllBooked'
    BY <2>6, <2>7, <2>8 DEF AllBooked
  <2> QED BY <1>2, <2>10, <2>11, <2>12 DEF Balancing
<1> QED BY <1>3, <1>4 DEF PostBegin, Refuse

(* A line books on the other side: its tax, at most half of what it amounts *)
(* to, and what is left of it.                                              *)
LEMMA LineBooks ==
    ASSUME NEW l \in RawLine
    PROVE  /\ TaxOf(l) \in Nat /\ LineAmount(l) - TaxOf(l) \in Nat
           /\ 2 * TaxOf(l) <= l.taxable + l.tax
<1>1. /\ l.taxable \in Nat /\ l.tax \in Nat /\ (l.tax % 2 = 0 \/ l.tax <= l.taxable)
  BY DEF RawLine
<1>2. /\ LineTax(l) = (l.tax + 1) \div 2 /\ LineAmount(l) = (l.taxable + l.tax + 1) \div 2
  BY DEF LineTax, LineAmount, Rounded
<1>3. /\ LineTax(l) \in Nat /\ LineAmount(l) \in Nat /\ LineTax(l) <= LineAmount(l)
      /\ 2 * LineTax(l) <= l.taxable + l.tax
  BY <1>1, <1>2
<1>4. Min({LineTax(l), LineAmount(l)}) = LineTax(l)
  <2> DEFINE S == {LineTax(l), LineAmount(l)}
  <2>1. LineTax(l) \in S /\ \A y \in S : LineTax(l) <= y
    BY <1>3
  <2>2. \A x \in S : (\A y \in S : x <= y) => x = LineTax(l)
    BY <1>3
  <2>3. Min(S) \in S /\ \A y \in S : Min(S) <= y
    <3> HIDE DEF S
    <3> QED BY <2>1 DEF Min
  <2> HIDE DEF S
  <2>4. Min(S) = LineTax(l)
    BY <2>2, <2>3
  <2> QED BY <2>4 DEF S
<1>5. TaxOf(l) = LineTax(l) \/ TaxOf(l) = 0
  BY <1>4 DEF TaxOf
<1> QED BY <1>1, <1>3, <1>5

LEMMA LineBalances == ASSUME IInv, Balancing, PostLine PROVE Balancing'
<1> DEFINE n == work.next
           l == document.lines[n]
           tax == TaxOf(l)
           net == LineAmount(l) - tax
           c == Plan.control
           d == Plan.detail
           mapping == MappingFor(l.fee)
           taxLeg == LegOf("tax", work.control, d, tax)
           detail == IF l.own THEN LegOf("own", Free, d, net) ELSE LegOf(d, mapping, d, net)
           legs == (work.legs \o taxLeg) \o detail
<1>1. /\ entry' = entry /\ document' = document /\ document.status = "DRAFT"
      /\ work.step = "lines" /\ n <= Len(document.lines)
  BY DEF PostLine, Refuse, Balancing, AtWork
<1>2. Draft' /\ EntryBalances'
  BY <1>1 DEF Balancing, Draft, EntryBalances
<1>3. CASE work' = NoWork
  BY <1>1, <1>2, <1>3 DEF Balancing, AtWork, BookedSoFar, AllBooked, NoWork
<1>4. CASE work' = [work EXCEPT !.next = @ + 1, !.legs = @ \o taxLeg \o detail,
                      !.resolvedAny = @ \/ net > 0,
                      !.known = IF net > 0 /\ ~l.own THEN @ \cup {mapping} ELSE @]
  <2>1. /\ work'.step = "lines" /\ work'.control = work.control /\ work'.next = n + 1
        /\ work'.legs = legs /\ work'.resolvedAny = (work.resolvedAny \/ net > 0)
    <3> HIDE DEF taxLeg, detail, net, mapping, l
    <3> QED BY <1>1, <1>4 DEF IInv, Counting, Fields
  <2>2. n \in DOMAIN document.lines /\ l \in RawLine /\ n \in Nat /\ Len(document.lines) \in Nat
    BY <1>1 DEF IInv, Lines, Counting
  <2>3. tax \in Nat /\ net \in Nat /\ 2 * tax <= l.taxable + l.tax
    BY <2>2, LineBooks
  <2>4. /\ c \in {"debit", "credit"} /\ d \in {"debit", "credit"} /\ c # d
        /\ mapping \in Mappings /\ work.control \in Mappings /\ work.legs \in Seq(Leg)
    BY <1>1, Plans, MappingForMapping DEF Balancing, AtWork, IInv
  <2>5. Adds(work.legs, work.legs \o taxLeg, d, tax)
    <3> HIDE DEF c, d, tax, l
    <3> QED BY <2>3, <2>4, LegBooks
  <2>6. Adds(work.legs \o taxLeg, legs, d, net)
    <3>1. work.legs \o taxLeg \in Seq(Leg)
      BY <2>5 DEF Adds
    <3> HIDE DEF c, d, taxLeg, net, mapping
    <3>2. CASE l.own
      BY <2>3, <2>4, <3>1, <3>2, LegBooks
    <3>3. CASE ~l.own
      <4>1. d \in {"debit", "credit", "tax", "own"} /\ mapping \in Mappings \cup {Free}
        BY <2>4
      <4> QED BY <2>3, <2>4, <3>1, <3>3, <4>1, LegBooks
    <3> QED BY <3>2, <3>3
  <2> HIDE DEF legs, taxLeg, detail
  <2>7. /\ legs \in Seq(Leg) /\ Booked(legs, c) = Booked(work.legs, c)
        /\ Booked(legs, d) = Booked(work.legs, d) + tax + net
    <3>1. Booked(work.legs, c) \in Nat /\ Booked(work.legs, d) \in Nat
      BY <2>4, BookedIs
    <3> DEFINE taxed == work.legs \o taxLeg
    <3>2. Booked(taxed, c) = Booked(work.legs, c) /\ Booked(taxed, d) = Booked(work.legs, d) + tax
      <4> HIDE DEF c, d, tax
      <4> QED BY <2>4, <2>5, <3>1 DEF Adds
    <3>3. Booked(taxed, c) \in Nat /\ Booked(taxed, d) \in Nat
      BY <2>3, <3>1, <3>2
    <3>4. legs \in Seq(Leg) /\ Booked(legs, c) = Booked(taxed, c) /\ Booked(legs, d) = Booked(taxed, d) + net
      <4> HIDE DEF c, d, net, taxed
      <4>1. Adds(taxed, legs, d, net)
        BY <2>6 DEF taxed
      <4> QED BY <2>4, <3>3, <4>1 DEF Adds
    <3> HIDE DEF c, d, tax, net, taxed
    <3> QED BY <3>2, <3>4
  <2>8. Plan' = Plan /\ Total(document)' = Total(document)
    BY <1>1 DEF Plan
  <2>9. AtWork'
    BY <1>1, <2>1, <2>4, <2>7, <2>8 DEF AtWork, Balancing
  <2>10. work.resolvedAny \/ net > 0 \/ 2 * Booked(legs, d) <= Begun(n)
    <3>1. Begun(n) = l.taxable + l.tax + Begun(n - 1) /\ Begun(n - 1) \in Nat
      BY <2>2, BegunGrows DEF IInv, Raws
    <3>2. work.resolvedAny \/ 2 * Booked(work.legs, d) <= Begun(n - 1)
      BY <1>1 DEF Balancing, BookedSoFar
    <3>3. Booked(work.legs, d) \in Nat /\ l.taxable \in Nat /\ l.tax \in Nat
      BY <2>2, <2>4, BookedIs DEF RawLine
    <3>4. ASSUME ~work.resolvedAny, ~(net > 0) PROVE 2 * Booked(legs, d) <= Begun(n)
      <4>1. 2 * Booked(work.legs, d) <= Begun(n - 1)
        BY <3>2, <3>4
      <4>2. Booked(legs, d) = Booked(work.legs, d) + tax
        <5> HIDE DEF d, tax, net
        <5> QED BY <2>3, <2>7, <3>3, <3>4
      <4> HIDE DEF d, tax, net, l, n
      <4> QED BY <2>3, <3>1, <3>3, <4>1, <4>2
    <3> QED BY <3>4
  <2>11. BookedSoFar'
    <3>1. Plan.detailed /\ Booked(work.legs, c) = Total(document)
      BY <1>1 DEF Balancing, BookedSoFar
    <3>2. work'.next - 1 = n /\ n + 1 <= Len(document.lines) + 1
      BY <1>1, <2>1, <2>2
    <3>3. Begun(work.next - 1)' = Begun(n)
      <4> HIDE DEF n
      <4> QED BY <1>1, <3>2 DEF Begun
    <3> HIDE DEF net, n
    <3> QED BY <1>1, <2>1, <2>7, <2>8, <2>10, <3>1, <3>2, <3>3 DEF BookedSoFar
  <2>12. AllBooked'
    BY <2>1 DEF AllBooked
  <2> QED BY <1>2, <2>9, <2>11, <2>12 DEF Balancing
<1> QED BY <1>3, <1>4 DEF PostLine, Refuse

(* The fallback of a supplier's bill books its total on the control side    *)
(* once more, which nothing but tax cannot balance.                         *)
LEMMA FallbackBalances == ASSUME IInv, Balancing, PostFallback PROVE Balancing'
<1> DEFINE c == Plan.control
           d == Plan.detail
           total == Total(document)
           leg == LegOf("credit", work.control, "credit", total)
           legs == IF work.resolvedAny THEN work.legs ELSE work.legs \o leg
<1>1. /\ entry' = entry /\ document' = document /\ document.status = "DRAFT"
      /\ work.step = "lines" /\ work.next > Len(document.lines)
      /\ work' = [work EXCEPT !.step = "built", !.legs = legs]
  BY DEF PostFallback, Balancing, AtWork
<1>2. Draft' /\ EntryBalances'
  BY <1>1 DEF Balancing, Draft, EntryBalances
<1>3. /\ work'.step = "built" /\ work'.control = work.control /\ work'.legs = legs
  <2> HIDE DEF legs
  <2> QED BY <1>1 DEF IInv, Counting, Fields
<1>4. /\ total \in Nat /\ total > 0 /\ work.legs \in Seq(Leg) /\ work.control \in Mappings
      /\ Booked(work.legs, c) = total
      /\ work.resolvedAny \/ 2 * Booked(work.legs, d) <= Begun(work.next - 1)
  BY <1>1, TotalIs DEF Balancing, AtWork, BookedSoFar, IInv, Lines
<1>5. c \in {"debit", "credit"} /\ d \in {"debit", "credit"} /\ c # d
  BY Plans DEF Balancing
<1>6. Adds(work.legs, work.legs \o leg, "credit", total)
  <2> HIDE DEF total
  <2> QED BY <1>4, LegBooks
<1>7. legs \in Seq(Leg)
  BY <1>4, <1>6 DEF Adds
<1>8. Balanced(legs) => Booked(legs, c) = total
  <2>1. CASE work.resolvedAny
    BY <1>4, <2>1
  <2>2. CASE ~work.resolvedAny
    <3>1. Begun(work.next - 1) <= 2 * total /\ Begun(work.next - 1) \in Nat
      <4>1. work.next - 1 \in 0..Len(document.lines)
        BY <1>1 DEF IInv, Lines, Counting, Balancing, BookedSoFar
      <4> QED BY <4>1, BegunGrows DEF IInv
    <3>2. legs = work.legs \o leg
      BY <2>2
    <3>3. Booked(work.legs, c) \in Nat /\ Booked(work.legs, d) \in Nat
      BY <1>4, BookedIs
    <3> HIDE DEF legs, leg, total, c, d
    <3>4. \A side : Booked(legs, side) = Booked(work.legs, side) + (IF "credit" = side THEN total ELSE 0)
      BY <1>6, <3>2 DEF Adds
    <3>5. CASE c = "debit"
      BY <1>4, <3>3, <3>4, <3>5
    <3>6. CASE c = "credit"
      <4>1. d = "debit"
        BY <1>5, <3>6
      <4>2. Booked(legs, "credit") = total + total
        BY <1>4, <3>4, <3>6
      <4>3. Booked(legs, "debit") = Booked(work.legs, d)
        BY <3>3, <3>4, <4>1
      <4>4. Booked(work.legs, d) <= total
        BY <1>4, <2>2, <3>1, <3>3
      <4>5. Booked(legs, "debit") # Booked(legs, "credit")
        BY <1>4, <3>3, <4>2, <4>3, <4>4
      <4> QED BY <4>5 DEF Balanced
    <3> QED BY <1>5, <3>5, <3>6
  <2> QED BY <2>1, <2>2
<1> HIDE DEF legs, total
<1>9. Plan' = Plan /\ Total(document)' = total
  BY <1>1 DEF Plan, total
<1>10. AtWork'
  BY <1>1, <1>3, <1>4, <1>7, <1>9 DEF AtWork
<1>11. BookedSoFar' /\ AllBooked'
  BY <1>3, <1>8, <1>9 DEF BookedSoFar, AllBooked, Balanced
<1> QED BY <1>2, <1>10, <1>11 DEF Balancing

(* assert_balanced compares the sides; one of them is the total.            *)
LEMMA CommitBalances == ASSUME IInv, Balancing, PostCommit PROVE Balancing'
<1>1. document.status = "DRAFT" /\ work.step = "built" /\ work.legs \in Seq(Leg)
  BY DEF PostCommit, Balancing, AtWork
<1>2. CASE work' = NoWork /\ UNCHANGED <<document, entry>>
  BY <1>1, <1>2 DEF Balancing, Draft, AtWork, BookedSoFar, AllBooked, NoWork, EntryBalances
<1>3. CASE /\ Balanced(work.legs) /\ Len(work.legs) >= 2
           /\ entry' = [rule |-> work.rule, legs |-> work.legs]
           /\ document' = [document EXCEPT !.status = "POSTED"]
           /\ work' = NoWork
  <2>1. document'.lines = document.lines /\ Draft /\ Draft'
    BY <1>3 DEF Balancing, Draft
  <2>2. Total(document') = Total(document)
    <3>1. document.lines \in Seq(RawLine) /\ document'.lines \in Seq(RawLine)
      BY <2>1 DEF Draft
    <3>2. /\ Total(document) = Rounded(SumIn(Raws(document.lines), DOMAIN document.lines))
          /\ Total(document') = Rounded(SumIn(Raws(document'.lines), DOMAIN document'.lines))
      BY <3>1, TotalIs
    <3> QED BY <2>1, <3>2
  <2>3. Booked(work.legs, Plan.control) = Total(document)
    BY <1>1, <1>3 DEF Balancing, AllBooked
  <2>4. Plan.control \in {"debit", "credit"}
    BY Plans DEF Balancing
  <2>5. Booked(work.legs, "debit") = Total(document) /\ Booked(work.legs, "credit") = Total(document)
    BY <1>3, <2>3, <2>4 DEF Balanced
  <2>6. entry'.legs = work.legs
    BY <1>3
  <2>7. EntryBalances'
    BY <1>3, <2>2, <2>5, <2>6 DEF EntryBalances
  <2> QED BY <1>3, <2>1, <2>7 DEF Balancing, AtWork, BookedSoFar, AllBooked, NoWork
<1> QED BY <1>1, <1>2, <1>3 DEF PostCommit, Refuse

LEMMA BalancingStep == IInv /\ Balancing /\ [Next]_vars => Balancing'
<1> SUFFICES ASSUME IInv, Balancing, [Next]_vars PROVE Balancing'
  OBVIOUS
<1>1. CASE Post
  BY <1>1, BeginBalances, LineBalances, FallbackBalances, CommitBalances DEF Post
<1>2. CASE UNCHANGED <<document, work, entry>>
  BY <1>2 DEF Balancing, Draft, AtWork, BookedSoFar, AllBooked, EntryBalances, Plan, Begun, Balanced
<1>3. ASSUME NEW a \in Admins, Administer(a) PROVE UNCHANGED <<document, work, entry>>
  BY <1>3 DEF Administer, SaveRuleRead, DeleteRuleRead, SaveRuleWrite, DeleteRuleWrite, Begin, End
<1>4. ASSUME NEW m \in Mappings, ChangeAccounts(m) PROVE UNCHANGED <<document, work, entry>>
  BY <1>4 DEF ChangeAccounts
<1> QED BY <1>1, <1>2, <1>3, <1>4 DEF Next, vars

(* A posted document's entry books its total on either side, however its    *)
(* lines were rounded and whatever administrators did between two lines:    *)
(* assert_balanced would pass an entry that booked another amount twice.    *)
THEOREM EntriesBookTheTotal == Spec => []EntryBalances
<1>1. Init => Balancing
  BY PostingDraftAssumption
     DEF Init, Balancing, Draft, AtWork, BookedSoFar, AllBooked, EntryBalances, NoWork
<1>2. Balancing => EntryBalances
  BY DEF Balancing
<1> QED BY InitIInv, NextIInv, BalancingStep, <1>1, <1>2, PTL DEF Spec

-----------------------------------------------------------------------------
(* Journals.  Rows keep their columns; a keeper at work has a journal and   *)
(* lines to save; and an approver at work holds the lock of a draft, whose  *)
(* lines, once checked, only their complete deletion can change.            *)
HeadColumns == {"status", "entryDate", "postingDate", "totals"}
HeadRows ==
    /\ DOMAIN heads = Journals /\ DOMAIN lines = Journals
    /\ \A j \in Journals : DOMAIN heads[j] = HeadColumns
Keeping ==
    /\ DOMAIN keeping = Keepers
    /\ \A k \in Keepers : /\ keeping[k].step # "none" => keeping[k].journal \in Journals
                          /\ keeping[k].form.lines.count \in Nat
PostingUnderLock ==
    /\ DOMAIN approving = Approvers /\ DOMAIN locks = Journals
    /\ \A a \in Approvers : DOMAIN approving[a] = {"step", "journal", "totals"}
    /\ \A a \in Approvers : approving[a].step \in {"locked", "checked"} =>
          /\ approving[a].journal \in Journals
          /\ locks[approving[a].journal] = a
          /\ heads[approving[a].journal].status = "DRAFT"
    /\ \A a \in Approvers : approving[a].step = "checked" =>
          \/ lines[approving[a].journal].count = 0
          \/ /\ MayPost(lines[approving[a].journal])
             /\ approving[a].totals = lines[approving[a].journal].own
JournalsInv == HeadRows /\ Keeping /\ PostingUnderLock /\ PostedJournalsBalance

LEMMA FormsHaveLines ==
    /\ \A form \in Forms : form.lines.count \in Nat
    /\ NoForm.lines.count = 0 /\ NotKeeping.step = "none" /\ NotKeeping.form.lines.count = 0
<1>1. \A form \in Forms : form.lines \in LineSet
  BY JournalsAssumption
<1>2. \A form \in Forms : form.lines.count \in Nat
  BY <1>1 DEF LineSet
<1>3. NoForm.lines.count = 0
  BY DEF NoForm, NoLines
<1>4. NotKeeping.step = "none" /\ NotKeeping.form = NoForm
  BY DEF NotKeeping
<1> QED BY <1>2, <1>3, <1>4

(* The end of a keeper's transaction leaves every other one its journal and *)
(* its form.                                                                *)
LEMMA EndOfKeeping ==
    ASSUME Keeping, NEW k \in Keepers, NEW gone \in BOOLEAN, EndKeeping(k, gone)
    PROVE  Keeping'
<1> DEFINE missed(o) == o # k /\ gone /\ keeping[o].journal = keeping[k].journal
                        /\ keeping[o].step = "waits"
<1>1. keeping' = [o \in Keepers |-> CASE o = k -> NotKeeping
                    [] missed(o) -> [keeping[o] EXCEPT !.step = "missed"]
                    [] OTHER -> keeping[o]]
  BY DEF EndKeeping
<1>2. ASSUME NEW o \in Keepers
      PROVE  /\ keeping'[o].step # "none" => keeping'[o].journal \in Journals
             /\ keeping'[o].form.lines.count \in Nat
  <2>1. CASE o = k
    BY <1>1, <2>1, FormsHaveLines
  <2>2. CASE o # k /\ missed(o)
    <3>1. keeping'[o] = [keeping[o] EXCEPT !.step = "missed"]
      BY <1>1, <2>2
    <3>2. keeping'[o].journal = keeping[o].journal /\ keeping'[o].form = keeping[o].form
      BY <3>1
    <3> QED BY <3>2, <2>2 DEF Keeping
  <2>3. CASE o # k /\ ~missed(o)
    <3>1. keeping'[o] = keeping[o]
      BY <1>1, <2>3
    <3> QED BY <3>1 DEF Keeping
  <2> QED BY <2>1, <2>2, <2>3
<1> QED BY <1>1, <1>2 DEF Keeping

LEMMA RefusalsKeepJournals ==
    ASSUME JournalsInv, NEW k \in Keepers, RefuseKeeper(k)
    PROVE  JournalsInv'
<1>1. EndKeeping(k, FALSE) /\ UNCHANGED <<heads, lines, locks, approving, periods, slipped>>
  BY DEF RefuseKeeper
<1>2. Keeping'
  BY <1>1, EndOfKeeping DEF JournalsInv
<1> QED BY <1>1, <1>2 DEF JournalsInv, HeadRows, PostingUnderLock, PostedJournalsBalance, MayPost, Even

(* A save's COMMIT: it rewrites the head of a draft that nobody posts, or   *)
(* leaves the head alone; and while somebody posts it leaves no lines.      *)
LEMMA CommittedLines ==
    ASSUME JournalsInv, NEW k \in Keepers, keeping[k].step # "none", CommitLines(k),
           UNCHANGED <<locks, approving>>,
           \/ heads' = heads
           \/ /\ heads[keeping[k].journal].status = "DRAFT"
              /\ heads' = [heads EXCEPT ![keeping[k].journal] = MergedHead(k)],
           \/ locks[keeping[k].journal] = Nobody
           \/ keeping[k].form.lines.count = 0 /\ heads' = heads
    PROVE  JournalsInv'
<1> DEFINE j == keeping[k].journal
           mine == deleter[j] = k
           new == IF keeping[k].form.lines.count > 0 \/ mine
                  THEN keeping[k].form.lines ELSE lines[j]
<1>1. j \in Journals
  BY DEF JournalsInv, Keeping
<1>2. /\ lines' = [lines EXCEPT ![j] = new]
      /\ slipped' = IF heads[j].status = "POSTED" /\ new # lines[j]
                    THEN slipped \cup {j} ELSE slipped
      /\ EndKeeping(k, mine)
  BY DEF CommitLines
<1>3. Keeping'
  <2> HIDE DEF mine
  <2>1. mine \in BOOLEAN
    BY DEF mine
  <2> QED BY <1>2, <2>1, EndOfKeeping DEF JournalsInv
<1>4. \/ new = lines[j]
      \/ locks[j] = Nobody
      \/ new.count = 0 /\ heads' = heads
  BY DEF JournalsInv
<1> HIDE DEF new, mine
<1>5. DOMAIN MergedHead(k) = HeadColumns /\ (heads[j].status = "DRAFT" => MergedHead(k).status = "DRAFT")
  BY DEF MergedHead, AsHead, HeadColumns
<1>6. /\ DOMAIN heads' = Journals /\ DOMAIN lines' = Journals /\ lines'[j] = new
      /\ \A o \in Journals \ {j} : heads'[o] = heads[o] /\ lines'[o] = lines[o]
      /\ DOMAIN heads'[j] = HeadColumns
      /\ heads'[j] = heads[j] \/ (heads[j].status = "DRAFT" /\ heads'[j].status = "DRAFT")
  <2>1. DOMAIN lines' = Journals /\ lines'[j] = new /\ \A o \in Journals \ {j} : lines'[o] = lines[o]
    BY <1>1, <1>2 DEF JournalsInv, HeadRows
  <2>2. CASE heads' = heads
    BY <1>1, <2>1, <2>2 DEF JournalsInv, HeadRows
  <2>3. CASE heads[j].status = "DRAFT" /\ heads' = [heads EXCEPT ![j] = MergedHead(k)]
    BY <1>1, <1>5, <2>1, <2>3 DEF JournalsInv, HeadRows
  <2> QED BY <2>2, <2>3
<1>7. HeadRows'
  BY <1>6 DEF JournalsInv, HeadRows
<1>8. PostingUnderLock'
  <2>1. \A a \in Approvers : approving[a].step \in {"locked", "checked"} =>
          approving[a].journal \in Journals /\ locks[approving[a].journal] = a /\ a # Nobody
    BY JournalsAssumption DEF JournalsInv, PostingUnderLock
  <2>2. ASSUME NEW a \in Approvers, approving[a].step \in {"locked", "checked"}
        PROVE  heads'[approving[a].journal].status = "DRAFT"
    BY <1>6, <2>1, <2>2 DEF JournalsInv, PostingUnderLock
  <2>3. ASSUME NEW a \in Approvers, approving[a].step = "checked"
        PROVE  \/ lines'[approving[a].journal].count = 0
               \/ /\ MayPost(lines'[approving[a].journal])
                  /\ approving[a].totals = lines'[approving[a].journal].own
    BY <1>4, <1>6, <2>1, <2>3 DEF JournalsInv, PostingUnderLock
  <2> QED BY <2>1, <2>2, <2>3 DEF JournalsInv, PostingUnderLock, MayPost, Even
<1>9. PostedJournalsBalance'
  <2> SUFFICES ASSUME NEW o \in Journals, heads'[o].status = "POSTED", o \notin slipped'
               PROVE  /\ MayPost(lines'[o]) /\ heads'[o].totals = lines'[o].own
                      /\ heads'[o].entryDate = heads'[o].postingDate
    BY DEF PostedJournalsBalance, MayPost, Even
  <2>1. heads'[o] = heads[o]
    BY <1>6
  <2>2. lines'[o] = lines[o] /\ o \notin slipped
    BY <1>2, <1>6, <2>1
  <2> QED BY <2>1, <2>2 DEF JournalsInv, PostedJournalsBalance
<1> QED BY <1>3, <1>7, <1>8, <1>9 DEF JournalsInv

(* A posting ends, and its lock with it.                                    *)
LEMMA EndOfApproval ==
    ASSUME JournalsInv, NEW a \in Approvers, RefuseApprover(a)
    PROVE  JournalsInv'
<1>1. /\ approving' = [approving EXCEPT ![a] = NotApproving]
      /\ locks' = [j \in Journals |-> IF locks[j] = a THEN Nobody ELSE locks[j]]
      /\ UNCHANGED <<heads, lines, keeping, slipped>>
  BY DEF RefuseApprover, EndApproving
<1> QED BY <1>1 DEF JournalsInv, HeadRows, Keeping, PostingUnderLock, PostedJournalsBalance,
                    NotApproving, MayPost, Even

LEMMA JournalsInvStep == JournalsInv /\ [JournalsNext]_journalVars => JournalsInv'
<1> SUFFICES ASSUME JournalsInv, [JournalsNext]_journalVars PROVE JournalsInv'
    OBVIOUS
<1>s. HeadRows /\ Keeping /\ PostingUnderLock /\ PostedJournalsBalance
  BY DEF JournalsInv
<1>u. ASSUME Keeping', UNCHANGED <<heads, lines, locks, approving, slipped>> PROVE JournalsInv'
  BY <1>s, <1>u DEF JournalsInv, HeadRows, PostingUnderLock, PostedJournalsBalance, MayPost, Even
<1>1. ASSUME NEW k \in Keepers, NEW j \in Journals, NEW form \in Forms, CreateJournal(k, j, form)
      PROVE  JournalsInv'
  <2>1. /\ heads[j].status = "ABSENT" /\ heads' = [heads EXCEPT ![j] = AsHead(form)]
        /\ lines' = [lines EXCEPT ![j] = form.lines]
        /\ UNCHANGED <<locks, keeping, approving, slipped>>
    BY <1>1 DEF CreateJournal
  <2>2. DOMAIN AsHead(form) = HeadColumns /\ AsHead(form).status = "DRAFT"
    BY DEF AsHead, HeadColumns
  <2>3. HeadRows'
    BY <1>s, <2>1, <2>2 DEF HeadRows
  <2>4. Keeping' /\ PostingUnderLock'
    <3>1. \A a \in Approvers : approving[a].step \in {"locked", "checked"} =>
              approving[a].journal \in Journals \ {j}
      BY <1>s, <2>1 DEF PostingUnderLock
    <3>2. \A o \in Journals \ {j} : heads'[o] = heads[o] /\ lines'[o] = lines[o]
      BY <1>s, <2>1 DEF HeadRows
    <3> QED BY <1>s, <2>1, <3>1, <3>2 DEF Keeping, PostingUnderLock
  <2>5. PostedJournalsBalance'
    <3>1. /\ \A o \in Journals \ {j} : heads'[o] = heads[o] /\ lines'[o] = lines[o]
          /\ heads'[j].status = "DRAFT" /\ slipped' = slipped
      BY <1>s, <2>1, <2>2 DEF HeadRows
    <3> QED BY <1>s, <3>1 DEF PostedJournalsBalance
  <2> QED BY <2>3, <2>4, <2>5 DEF JournalsInv
<1>2. ASSUME NEW k \in Keepers, NEW j \in Journals, NEW does, NEW form,
             form.lines.count \in Nat, Opens(k, does, j, form)
      PROVE  JournalsInv'
  <2>1. Keeping'
    BY <1>2, <1>s DEF Opens, Keeping
  <2> QED BY <1>2, <2>1, <1>u DEF Opens
<1>3. ASSUME NEW k \in Keepers, NEW j \in Journals, OpenToDelete(k, j) PROVE JournalsInv'
  <2>1. NoForm.lines.count \in Nat
    BY FormsHaveLines
  <2> QED BY <1>2, <1>3, <2>1 DEF OpenToDelete
<1>4. ASSUME NEW k \in Keepers, NEW j \in Journals, NEW form \in Forms, OpenToSave(k, j, form)
      PROVE  JournalsInv'
  BY <1>2, <1>4, FormsHaveLines DEF OpenToSave
<1>5. ASSUME NEW k \in Keepers, DeleteLines(k) PROVE JournalsInv'
  <2>1. CASE RefuseKeeper(k)
    BY <2>1, RefusalsKeepJournals
  <2>2. CASE ~RefuseKeeper(k)
    <3>1. /\ keeping[k].step \in {"read", "waits"}
          /\ keeping' = [keeping EXCEPT ![k].step = "deleted"]
          /\ UNCHANGED <<heads, lines, locks, approving, slipped>>
      BY <1>5, <2>2 DEF DeleteLines
    <3>2. Keeping'
      BY <3>1, <1>s DEF Keeping
    <3> QED BY <3>1, <3>2, <1>u
  <2> QED BY <2>1, <2>2
<1>6. ASSUME NEW k \in Keepers, WaitForLines(k) PROVE JournalsInv'
  <2>1. Keeping'
    BY <1>6, <1>s DEF WaitForLines, Keeping
  <2> QED BY <1>6, <2>1, <1>u DEF WaitForLines
<1>7. ASSUME NEW k \in Keepers, SaveHead(k) PROVE JournalsInv'
  <2>1. CASE RefuseKeeper(k)
    BY <2>1, RefusalsKeepJournals
  <2>2. CASE ~RefuseKeeper(k)
    <3>1. /\ keeping[k].step # "none" /\ locks[keeping[k].journal] = Nobody
          /\ heads[keeping[k].journal].status = "DRAFT"
          /\ heads' = [heads EXCEPT ![keeping[k].journal] = MergedHead(k)]
          /\ CommitLines(k) /\ UNCHANGED <<locks, approving>>
      BY <1>7, <2>2 DEF SaveHead
    <3> QED BY <3>1, CommittedLines
  <2> QED BY <2>1, <2>2
<1>8. ASSUME NEW k \in Keepers, SaveLines(k) PROVE JournalsInv'
  <2>1. CASE RefuseKeeper(k)
    BY <2>1, RefusalsKeepJournals
  <2>2. CASE /\ keeping' = [keeping EXCEPT ![k].step = "share"]
             /\ UNCHANGED <<heads, lines, locks, approving, slipped>>
    <3>1. keeping[k].step # "none"
      BY <1>8 DEF SaveLines
    <3>2. Keeping'
      BY <2>2, <3>1, <1>s DEF Keeping
    <3> QED BY <2>2, <3>2, <1>u
  <2>3. CASE CommitLines(k) /\ UNCHANGED <<heads, locks, approving>>
             /\ ~(keeping[k].form.lines.count > 0 /\ locks[keeping[k].journal] # Nobody)
    <3>1. keeping[k].step # "none"
      BY <1>8 DEF SaveLines
    <3>2. keeping[k].form.lines.count = 0 \/ locks[keeping[k].journal] = Nobody
      BY <2>3, <1>s DEF Keeping
    <3> QED BY <2>3, <3>1, <3>2, CommittedLines
  <2> QED BY <1>8, <2>1, <2>2, <2>3 DEF SaveLines
<1>9. ASSUME NEW k \in Keepers, ShareLock(k) PROVE JournalsInv'
  <2>1. CASE RefuseKeeper(k)
    BY <2>1, RefusalsKeepJournals
  <2>2. CASE ~RefuseKeeper(k)
    <3>1. /\ keeping[k].step # "none" /\ locks[keeping[k].journal] = Nobody
          /\ CommitLines(k) /\ UNCHANGED <<heads, locks, approving>>
      BY <1>9, <2>2 DEF ShareLock
    <3> QED BY <3>1, CommittedLines
  <2> QED BY <2>1, <2>2
<1>10. ASSUME NEW k \in Keepers, DeleteHead(k) PROVE JournalsInv'
  <2>1. CASE RefuseKeeper(k)
    BY <2>1, RefusalsKeepJournals
  <2>2. CASE ~RefuseKeeper(k)
    <3> DEFINE j == keeping[k].journal
    <3>1. /\ keeping[k].step # "none" /\ locks[j] = Nobody
          /\ heads' = [heads EXCEPT ![j] = NoHead] /\ lines' = [lines EXCEPT ![j] = NoLines]
          /\ EndKeeping(k, TRUE) /\ UNCHANGED <<locks, approving, slipped>>
      BY <1>10, <2>2 DEF DeleteHead
    <3>2. j \in Journals
      BY <3>1, <1>s DEF Keeping
    <3>3. Keeping'
      BY <3>1, <1>s, EndOfKeeping
    <3>4. DOMAIN NoHead = HeadColumns /\ NoHead.status = "ABSENT"
      BY DEF NoHead, HeadColumns
    <3>5. /\ DOMAIN heads' = Journals /\ DOMAIN lines' = Journals /\ heads'[j] = NoHead
          /\ \A o \in Journals \ {j} : heads'[o] = heads[o] /\ lines'[o] = lines[o]
      BY <1>s, <3>1, <3>2 DEF HeadRows
    <3>6. HeadRows'
      BY <1>s, <3>4, <3>5 DEF HeadRows
    <3>7. PostingUnderLock'
      <4>1. \A a \in Approvers : approving[a].step \in {"locked", "checked"} =>
              approving[a].journal \in Journals \ {j}
        BY <1>s, <3>1, JournalsAssumption DEF PostingUnderLock
      <4> QED BY <1>s, <3>1, <3>5, <4>1 DEF PostingUnderLock
    <3>8. PostedJournalsBalance'
      BY <1>s, <3>1, <3>4, <3>5 DEF PostedJournalsBalance
    <3> QED BY <3>3, <3>6, <3>7, <3>8 DEF JournalsInv
  <2> QED BY <2>1, <2>2
<1>11. ASSUME NEW k \in Keepers, KeeperGivesUp(k) PROVE JournalsInv'
  BY <1>11, RefusalsKeepJournals DEF KeeperGivesUp
<1>12. ASSUME NEW a \in Approvers, NEW j \in Journals, LockJournal(a, j) PROVE JournalsInv'
  <2>1. /\ heads[j].status = "DRAFT" /\ locks[j] = Nobody /\ locks' = [locks EXCEPT ![j] = a]
        /\ approving' = [approving EXCEPT ![a] =
                            [step |-> "locked", journal |-> j, totals |-> Zero]]
        /\ UNCHANGED <<heads, lines, keeping, slipped>>
    BY <1>12 DEF LockJournal, TakesLock
  <2>2. PostingUnderLock'
    <3>1. \A o \in Approvers \ {a} : approving[o].step \in {"locked", "checked"} =>
              approving[o].journal \in Journals \ {j}
      BY <1>s, <2>1, JournalsAssumption DEF PostingUnderLock
    <3>2. /\ approving'[a] = [step |-> "locked", journal |-> j, totals |-> Zero]
          /\ \A o \in Approvers \ {a} : approving'[o] = approving[o]
          /\ DOMAIN approving' = Approvers /\ DOMAIN locks' = Journals
          /\ locks'[j] = a /\ \A o \in Journals \ {j} : locks'[o] = locks[o]
      BY <1>s, <2>1 DEF PostingUnderLock
    <3> QED BY <1>s, <2>1, <3>1, <3>2 DEF PostingUnderLock
  <2>3. HeadRows' /\ Keeping' /\ PostedJournalsBalance'
    BY <1>s, <2>1 DEF HeadRows, Keeping, PostedJournalsBalance, MayPost, Even
  <2> QED BY <2>2, <2>3 DEF JournalsInv
<1>13. ASSUME NEW a \in Approvers, CheckJournal(a) PROVE JournalsInv'
  <2>1. CASE RefuseApprover(a)
    BY <2>1, EndOfApproval
  <2>2. CASE ~RefuseApprover(a)
    <3> DEFINE j == approving[a].journal
    <3>1. /\ approving[a].step = "locked" /\ MayPost(lines[j])
          /\ approving' = [approving EXCEPT ![a].step = "checked", ![a].totals = lines[j].own]
          /\ UNCHANGED <<heads, lines, locks, keeping, slipped>>
      BY <1>13, <2>2 DEF CheckJournal
    <3>2. /\ approving'[a].journal = j
          /\ approving'[a].totals = lines[j].own
          /\ DOMAIN approving'[a] = {"step", "journal", "totals"}
          /\ \A o \in Approvers \ {a} : approving'[o] = approving[o]
          /\ DOMAIN approving' = Approvers
      BY <3>1, <1>s DEF PostingUnderLock
    <3>3. PostingUnderLock'
      BY <1>s, <3>1, <3>2, ZenonT(30) DEF PostingUnderLock, MayPost, Even
    <3>4. HeadRows' /\ Keeping' /\ PostedJournalsBalance'
      BY <1>s, <3>1 DEF HeadRows, Keeping, PostedJournalsBalance, MayPost, Even
    <3> QED BY <3>3, <3>4 DEF JournalsInv
  <2> QED BY <2>1, <2>2
<1>14. ASSUME NEW a \in Approvers, CommitPosting(a) PROVE JournalsInv'
  <2>1. CASE RefuseApprover(a)
    BY <2>1, EndOfApproval
  <2>2. CASE ~RefuseApprover(a)
    <3> DEFINE j == approving[a].journal
    <3>1. /\ approving[a].step = "checked" /\ PostCheckPasses(j)
          /\ heads' = [heads EXCEPT ![j].status = "POSTED", ![j].totals = approving[a].totals]
          /\ approving' = [approving EXCEPT ![a] = NotApproving]
          /\ locks' = [o \in Journals |-> IF locks[o] = a THEN Nobody ELSE locks[o]]
          /\ UNCHANGED <<lines, keeping, slipped>>
      BY <1>14, <2>2 DEF CommitPosting, EndApproving
    <3>2. /\ j \in Journals /\ locks[j] = a
          /\ MayPost(lines[j]) /\ approving[a].totals = lines[j].own
          /\ heads[j].entryDate = heads[j].postingDate
      BY <1>s, <3>1 DEF PostingUnderLock, PostCheckPasses
    <3>3. /\ DOMAIN heads' = Journals /\ DOMAIN heads'[j] = HeadColumns
          /\ heads'[j].totals = lines[j].own
          /\ heads'[j].entryDate = heads'[j].postingDate
          /\ \A o \in Journals \ {j} : heads'[o] = heads[o]
      BY <1>s, <3>1, <3>2 DEF HeadRows, HeadColumns
    <3>4. \A o \in Approvers \ {a} : approving[o].step \in {"locked", "checked"} =>
              approving[o].journal \in Journals \ {j}
      BY <1>s, <3>2 DEF PostingUnderLock
    <3>5. HeadRows' /\ Keeping'
      BY <1>s, <3>1, <3>3 DEF HeadRows, Keeping
    <3>6. PostingUnderLock'
      <4>1. /\ approving'[a] = NotApproving /\ DOMAIN approving' = Approvers
            /\ \A o \in Approvers \ {a} : approving'[o] = approving[o]
        BY <1>s, <3>1 DEF PostingUnderLock
      <4>2. DOMAIN locks' = Journals /\ \A o \in Journals : locks[o] # a => locks'[o] = locks[o]
        BY <1>s, <3>1 DEF PostingUnderLock
      <4>3. /\ NotApproving.step = "none"
            /\ DOMAIN NotApproving = {"step", "journal", "totals"}
        BY DEF NotApproving
      <4>4. \A o \in Approvers : DOMAIN approving'[o] = {"step", "journal", "totals"}
        BY <1>s, <4>1, <4>3 DEF PostingUnderLock
      <4>5. ASSUME NEW o \in Approvers, approving'[o].step \in {"locked", "checked"}
            PROVE  /\ o # a /\ approving'[o] = approving[o] /\ approving[o].journal \in Journals
                   /\ locks'[approving[o].journal] = o
                   /\ heads'[approving[o].journal].status = "DRAFT"
        <5>1. o # a /\ approving'[o] = approving[o]
          BY <4>1, <4>3, <4>5
        <5>2. /\ approving[o].journal \in Journals \ {j}
              /\ locks[approving[o].journal] = o
              /\ heads[approving[o].journal].status = "DRAFT"
          BY <1>s, <3>4, <4>5, <5>1 DEF PostingUnderLock
        <5> QED BY <3>3, <4>2, <5>1, <5>2
      <4>6. lines' = lines /\ \A set : MayPost(set)' = MayPost(set)
        BY <3>1 DEF MayPost, Even
      <4> QED BY <1>s, <4>1, <4>2, <4>4, <4>5, <4>6 DEF PostingUnderLock
    <3>7. PostedJournalsBalance'
      BY <1>s, <3>1, <3>2, <3>3, ZenonT(30) DEF PostedJournalsBalance, MayPost, Even
    <3> QED BY <3>5, <3>6, <3>7 DEF JournalsInv
  <2> QED BY <2>1, <2>2
<1>15. ASSUME NEW a \in Approvers, ApproverGivesUp(a) PROVE JournalsInv'
  BY <1>15, EndOfApproval DEF ApproverGivesUp
<1>16. ASSUME NEW m \in Months, NEW status \in {"OPEN", "CLOSED"}, ChangePeriod(m, status)
       PROVE  JournalsInv'
  BY <1>16, <1>s DEF ChangePeriod, JournalsInv, HeadRows, Keeping, PostingUnderLock,
                     PostedJournalsBalance, MayPost, Even
<1>17. CASE UNCHANGED journalVars
  BY <1>17, <1>s DEF journalVars, JournalsInv, HeadRows, Keeping, PostingUnderLock,
                     PostedJournalsBalance, MayPost, Even
<1> QED
  BY <1>1, <1>3, <1>4, <1>5, <1>6, <1>7, <1>8, <1>9, <1>10, <1>11, <1>12, <1>13, <1>14, <1>15,
     <1>16, <1>17 DEF JournalsNext, Keeps, Approves

(* Every posted journal balances, unless its lines slipped in after it was  *)
(* posted, for any number of keepers, approvers and months.                 *)
THEOREM PostedJournalsStayBalanced == JournalsSpec => []PostedJournalsBalance
<1>1. JournalsInit => JournalsInv
  <2> SUFFICES ASSUME JournalsInit PROVE JournalsInv
    OBVIOUS
  <2>1. HeadRows
    BY DEF JournalsInit, HeadRows, NoHead, HeadColumns
  <2>2. Keeping
    BY FormsHaveLines DEF JournalsInit, Keeping
  <2>3. PostingUnderLock
    BY DEF JournalsInit, PostingUnderLock, NotApproving
  <2>4. PostedJournalsBalance
    BY DEF JournalsInit, PostedJournalsBalance, NoHead
  <2> QED BY <2>1, <2>2, <2>3, <2>4 DEF JournalsInv
<1>2. JournalsInv => PostedJournalsBalance
  BY DEF JournalsInv
<1> QED BY <1>1, <1>2, JournalsInvStep, PTL DEF JournalsSpec

-----------------------------------------------------------------------------
(* Statuses.  What the shared endpoint has checked and will write is the    *)
(* status it read, or none that a command brings a record into.             *)
PlainOnly ==
    \A r \in Clerks : asking[r].step = "checked" /\ asking[r].via = "status" =>
        asking[r].to = asking[r].read.status \/ asking[r].to \notin CommandStatuses(collection)
StatusesInv ==
    /\ collection \in Collections /\ DOMAIN record = {"status", "closedBy"}
    /\ DOMAIN asking = Clerks /\ PlainOnly /\ CommandStatusesByCommand

(* Where the endpoint can write at all, no plain change leads to the same   *)
(* status as a command.                                                     *)
LEMMA KindsApart ==
    ASSUME NEW c \in Appliable, NEW m \in Policies[c], m.kind = "status"
    PROVE  m.to \notin CommandStatuses(c)
<1>1. CASE c \notin {"jobs", "accountingPeriods"}
  <2>1. \E values, permission : Policies[c] = Vocabulary(values, permission)
    BY <1>1 DEF Appliable, Policies, Toggle
  <2>2. \A t \in Policies[c] : t.kind = "status"
    BY <2>1 DEF Vocabulary, Change
  <2> QED BY <2>2 DEF CommandStatuses
<1>2. CASE c = "jobs"
  <2>1. Policies[c] = OrderChanges
    BY <1>2 DEF Policies
  <2>2. \A t \in OrderChanges : t.kind = "command" => t.to = "FINISHED"
    BY DEF OrderChanges, Change
  <2>3. \A t \in OrderChanges : t.kind = "status" => t.to # "FINISHED"
    BY DEF OrderChanges, Change
  <2> QED BY <2>1, <2>2, <2>3 DEF CommandStatuses
<1>3. CASE c = "accountingPeriods"
  <2>1. Policies[c] = PeriodChanges
    BY <1>3 DEF Policies
  <2>2. \A t \in PeriodChanges : t.kind = "command" => t.to = "CLOSED"
    BY DEF PeriodChanges, Change
  <2>3. \A t \in PeriodChanges : t.kind = "status" => t.to # "CLOSED"
    BY DEF PeriodChanges, Change
  <2> QED BY <2>1, <2>2, <2>3 DEF CommandStatuses
<1> QED BY <1>1, <1>2, <1>3

LEMMA StatusesInvStep == StatusesInv /\ [StatusesNext]_statusVars => StatusesInv'
<1> SUFFICES ASSUME StatusesInv, [StatusesNext]_statusVars PROVE StatusesInv'
    OBVIOUS
<1> USE DEF StatusesInv, CommandStatusesByCommand
<1>1. ASSUME NEW m \in Policies[collection], LockedCommand(m) PROVE StatusesInv'
  BY <1>1 DEF LockedCommand, PlainOnly, CommandStatuses
<1>2. ASSUME NEW r \in Clerks, NEW held \in Allowed, NEW to \in StatusesOf(collection),
             ReadForStatus(r, to, held)
      PROVE  StatusesInv'
  <2>1. to # record.status => to \notin CommandStatuses(collection)
    <3> SUFFICES ASSUME to # record.status PROVE to \notin CommandStatuses(collection)
      OBVIOUS
    <3>1. PICK m \in Transitions(collection, record.status, to) : IsPlain(m)
      BY <1>2 DEF ReadForStatus
    <3>2. m \in Policies[collection] /\ m.to = to /\ m.kind = "status"
      BY <3>1 DEF Transitions, IsPlain
    <3>3. collection \in Appliable
      BY <1>2 DEF ReadForStatus
    <3> QED BY <3>2, <3>3, KindsApart
  <2>2. /\ asking' = [asking EXCEPT ![r] = [step |-> "checked", via |-> "status",
                          read |-> record, to |-> to, changed |-> to # record.status]]
        /\ UNCHANGED <<collection, record, jumped>>
    BY <1>2 DEF ReadForStatus
  <2>3. PlainOnly'
    BY <2>1, <2>2 DEF PlainOnly, CommandStatuses
  <2> QED BY <2>2, <2>3
<1>3. ASSUME NEW r \in Clerks, NEW m \in Policies[collection], ReadForCommand(r, m)
      PROVE  StatusesInv'
  BY <1>3 DEF ReadForCommand, PlainOnly, CommandStatuses
<1>4. ASSUME NEW r \in Clerks, CommitChange(r) PROVE StatusesInv'
  <2> DEFINE new == Stamped(r, NewRow(r, record))
  <2>1. /\ asking[r].step = "checked" /\ record' = new /\ collection' = collection
        /\ jumped' = (jumped \/ (/\ asking[r].via = "status" /\ new.status # record.status
                                 /\ new.status \in CommandStatuses(collection)))
        /\ DOMAIN asking' = Clerks /\ asking'[r].step # "checked"
        /\ \A o \in Clerks \ {r} : asking'[o] = asking[o]
    <3>1. asking' = [asking EXCEPT ![r] = IF asking[r].changed
                                          THEN [@ EXCEPT !.step = "unaudited"] ELSE Idle]
      BY <1>4 DEF CommitChange
    <3>2. asking[r].step = "checked"
      BY <1>4 DEF CommitChange
    <3>3. "step" \in DOMAIN asking[r] \/ "step" \notin DOMAIN asking[r]
      OBVIOUS
    <3> QED BY <1>4, <3>1, <3>2 DEF CommitChange, Idle
  <2>2. /\ DOMAIN NewRow(r, record) = {"status", "closedBy"}
        /\ NewRow(r, record).status = IF asking[r].to = asking[r].read.status THEN record.status
                                      ELSE asking[r].to
    BY DEF NewRow
  <2>3. DOMAIN new = {"status", "closedBy"} /\ new.status = NewRow(r, record).status
    BY <2>2 DEF Stamped
  <2>4. ~jumped'
    BY <2>1, <2>2, <2>3 DEF PlainOnly
  <2>5. PlainOnly'
    BY <2>1 DEF PlainOnly, CommandStatuses
  <2> QED BY <2>1, <2>3, <2>4, <2>5
<1>5. ASSUME NEW r \in Clerks, AuditChange(r) PROVE StatusesInv'
  BY <1>5 DEF AuditChange, Idle, PlainOnly, CommandStatuses
<1>6. ASSUME NEW r \in Clerks, LoseRequest(r) PROVE StatusesInv'
  BY <1>6 DEF LoseRequest, Idle, PlainOnly, CommandStatuses
<1>7. CASE UNCHANGED statusVars
  BY <1>7 DEF statusVars, PlainOnly, CommandStatuses
<1> QED BY <1>1, <1>2, <1>3, <1>4, <1>5, <1>6, <1>7 DEF StatusesNext

(* No bypass of the workflow commands, with any number of requests and      *)
(* permissions: a record enters a command's status only by the command.     *)
THEOREM NoCommandIsBypassed == StatusesSpec => []CommandStatusesByCommand
<1>1. StatusesInit => StatusesInv
  BY DEF StatusesInit, StatusesInv, PlainOnly, Idle, CommandStatusesByCommand
<1>2. StatusesInv => CommandStatusesByCommand
  BY DEF StatusesInv
<1> QED BY <1>1, <1>2, StatusesInvStep, PTL DEF StatusesSpec

-----------------------------------------------------------------------------
(* Sums of the community modules are those of Sums.                         *)
LEMMA ColumnSum == ASSUME NEW f PROVE SumFunction(f) = SumIn(f, DOMAIN f)
BY DEF SumFunction, SumFunctionOnSet, FoldFunctionOnSet, MapThenFoldSet, SumIn, AddsUp, Chosen

-----------------------------------------------------------------------------
(* Rates.  What half up does to a quotient.                                 *)
LEMMA RoundedIsNear ==
    ASSUME NEW n \in Nat, NEW d \in Nat \ {0}
    PROVE  /\ HalfUp(n, d) \in Nat
           /\ 2 * (d * HalfUp(n, d)) <= 2 * n + d
           /\ 2 * n <= 2 * (d * HalfUp(n, d)) + d
<1> DEFINE a == 2 * n + d
           b == 2 * d
           q == a \div b
<1>1. a \in Nat /\ b \in Nat \ {0}
  OBVIOUS
<1>2. HalfUp(n, d) = q
  BY DEF HalfUp
<1> HIDE DEF a, b
<1>3. q \in Nat /\ b * q <= a /\ a < b * q + b
  BY <1>1, Z3
<1> HIDE DEF q
<1>4. b * q = 2 * (d * q)
  BY <1>3 DEF b
<1>5. (d * q) \in Nat
  BY <1>3
<1>6. 2 * (d * q) <= 2 * n + d /\ 2 * n <= 2 * (d * q) + d
  BY <1>3, <1>4, <1>5 DEF a, b
<1> QED BY <1>2, <1>3, <1>6

LEMMA WholeIsKept ==
    ASSUME NEW n \in Nat, NEW d \in Nat \ {0}
    PROVE  HalfUp(n * d, d) = n
<1> DEFINE q == HalfUp(n * d, d)
<1>1. n * d \in Nat
  OBVIOUS
<1>2. q \in Nat /\ 2 * (d * q) <= 2 * (n * d) + d /\ 2 * (n * d) <= 2 * (d * q) + d
  BY <1>1, RoundedIsNear
<1> HIDE DEF q
<1>3. ASSUME q >= n + 1 PROVE FALSE
  <2>1. d * q >= d * (n + 1)
    BY <1>2, <1>3
  <2> QED BY <1>2, <2>1
<1>4. ASSUME q <= n - 1 PROVE FALSE
  <2>1. d * q <= d * (n - 1)
    BY <1>2, <1>4
  <2> QED BY <1>2, <2>1
<1>5. q = n
  BY <1>2, <1>3, <1>4
<1> QED BY <1>5 DEF q

(* A common factor may be left out.                                         *)
LEMMA Cancelled ==
    ASSUME NEW d \in Nat \ {0}, NEW x \in Int, NEW y \in Int, d * x <= d * y
    PROVE  x <= y
<1>1. ASSUME x >= y + 1 PROVE FALSE
  <2>1. d * x >= d * (y + 1)
    BY <1>1
  <2> QED BY <2>1
<1> QED BY <1>1

-----------------------------------------------------------------------------
(* The shares of a line come to its amount.                                 *)
StoredLineRows == [amount : Nat, tax : Nat]
StoredLines == Seq(StoredLineRows)
Places(s) == (DOMAIN s) \X {"tax", "net"}

LEMMA SharesOfLine ==
    ASSUME NEW s \in StoredLines, NEW split \in BOOLEAN, NEW i \in DOMAIN s
    PROVE  /\ Share(s, split, <<i, "tax">>) \in Nat /\ Share(s, split, <<i, "net">>) \in Nat
           /\ Share(s, split, <<i, "tax">>) + Share(s, split, <<i, "net">>) = s[i].amount
<1>1. s[i].amount \in Nat /\ s[i].tax \in Nat
  <2>1. DOMAIN s = 1..Len(s) /\ Len(s) \in Nat /\ \A j \in 1..Len(s) : s[j] \in StoredLineRows
    BY DEF StoredLines
  <2> QED BY <2>1 DEF StoredLineRows
<1> DEFINE tax == IF ~split THEN 0 ELSE IF s[i].tax < s[i].amount THEN s[i].tax ELSE s[i].amount
<1>2. Share(s, split, <<i, "tax">>) = tax /\ Share(s, split, <<i, "net">>) = s[i].amount - tax
  BY DEF Share
<1>3. tax \in Nat /\ s[i].amount - tax \in Nat
  BY <1>1
<1> HIDE DEF tax
<1> QED BY <1>1, <1>2, <1>3

LEMMA SharesAddUp ==
    ASSUME NEW s \in StoredLines, NEW split \in BOOLEAN
    PROVE  LET share == [k \in Places(s) |-> Share(s, split, k)] IN
           /\ IsFiniteSet(Places(s)) /\ \A k \in Places(s) : share[k] \in Nat
           /\ SumIn(share, Places(s)) = SumFunction(LineAmounts(s))
<1> DEFINE K == Places(s)
           D == DOMAIN s
           share == [k \in K |-> Share(s, split, k)]
           line == [k \in K |-> k[1]]
           g == LineAmounts(s)
           Of(i) == {k \in K : line[k] = i}
<1>1. IsFiniteSet(D)
  BY FS_Interval DEF StoredLines
<1>2. IsFiniteSet(K)
  <2>1. {"tax", "net"} = {"tax"} \cup {"net"} /\ IsFiniteSet({"tax"})
    BY FS_Singleton
  <2>2. IsFiniteSet({"tax"} \cup {"net"})
    BY <2>1, FS_AddElement
  <2> QED BY <1>1, <2>1, <2>2, FS_Product DEF Places
<1>3. ASSUME NEW k \in K PROVE share[k] \in Nat /\ line[k] \in D
  <2>1. PICK i \in D, h \in {"tax", "net"} : k = <<i, h>>
    BY DEF Places
  <2> QED BY <2>1, SharesOfLine
<1>4. ASSUME NEW i \in D PROVE g[i] = SumIn(share, Of(i))
  <2> DEFINE t == <<i, "tax">>
             n == <<i, "net">>
  <2>1. Of(i) = {n} \cup {t} /\ t \notin {n} /\ t \in K /\ n \in K
    BY DEF Places
  <2>2. share[t] \in Int /\ share[n] \in Int /\ share[t] + share[n] = s[i].amount
    <3>1. share[t] = Share(s, split, t) /\ share[n] = Share(s, split, n)
      BY <2>1
    <3> QED BY <3>1, SharesOfLine
  <2> HIDE DEF t, n, share
  <2>3. SumIn(share, {n}) = share[n] /\ IsFiniteSet({n})
    BY <2>2, SumOfOne, FS_Singleton
  <2>4. SumIn(share, {n} \cup {t}) = share[t] + SumIn(share, {n})
    BY <2>1, <2>2, <2>3, SumWith
  <2>5. g[i] = s[i].amount
    BY DEF LineAmounts
  <2> QED BY <2>1, <2>2, <2>3, <2>4, <2>5
<1>5. SumIn(share, K) = SumIn(g, D)
  <2> HIDE DEF K, g, share, line
  <2>1. ByParts(g, share, line, K, D)
    BY <1>4 DEF ByParts
  <2>2. \A k \in K : line[k] \in D /\ share[k] \in Int
    BY <1>3
  <2> QED BY <1>1, <1>2, <2>1, <2>2, SumByParts
<1>6. DOMAIN g = D
  BY DEF LineAmounts
<1> QED BY <1>2, <1>3, <1>5, <1>6, ColumnSum

(* The legs of an entry that balances: a finite number of amounts that come *)
(* to the total, and so do the lines, unless they come to nothing.          *)
LEMMA LegsComeToTotal ==
    ASSUME NEW s \in StoredLines, NEW split \in BOOLEAN, NEW total \in Nat \ {0},
           NEW legs, legs = DetailLegs(s, split, total), EntryBalanced(total, legs)
    PROVE  /\ IsFiniteSet(DOMAIN legs) /\ \A k \in DOMAIN legs : legs[k] \in Nat
           /\ SumFunction(legs) = total
           /\ SumFunction(LineAmounts(s)) \in {0, total}
<1> DEFINE K == Places(s)
           B == Shares(s, split)
           share == [k \in K |-> Share(s, split, k)]
           all == SumFunction(LineAmounts(s))
           rest == IF \E k \in B : k[2] = "net" THEN {} ELSE {Fallback}
<1>1. IsFiniteSet(K) /\ (\A k \in K : share[k] \in Nat) /\ SumIn(share, K) = all
  BY SharesAddUp
<1>2. B \in SUBSET K /\ (\A k \in B : share[k] > 0) /\ \A k \in K \ B : share[k] = 0
  <2>1. B = {k \in K : share[k] > 0}
    BY DEF Shares, Places
  <2> HIDE DEF B, K, share
  <2> QED BY <1>1, <2>1
<1>3. Fallback \notin B
  <2>1. 0 \notin DOMAIN s
    BY DEF StoredLines
  <2>2. \A k \in B : k[1] \in DOMAIN s
    BY DEF Shares
  <2> QED BY <2>1, <2>2 DEF Fallback
<1>4. /\ DOMAIN legs = B \cup rest
      /\ \A k \in B \cup rest : legs[k] = IF k = Fallback THEN total ELSE Share(s, split, k)
  BY DEF DetailLegs
<1>5. \A k \in B : legs[k] = share[k]
  BY <1>2, <1>3, <1>4
<1>6. SumIn(legs, DOMAIN legs) = total /\ SumFunction(legs) = total
  BY ColumnSum DEF EntryBalanced
<1>7. IsFiniteSet(B)
  BY <1>1, <1>2, FS_Subset
<1> HIDE DEF K, B, share, all
<1>8. SumIn(legs, B) = all
  <2>1. \A k \in K : share[k] \in Int
    BY <1>1
  <2> QED BY <1>1, <1>2, <1>5, <2>1, SumWithin
<1>9. CASE \E k \in B : k[2] = "net"
  <2>1. DOMAIN legs = B
    BY <1>4, <1>9
  <2>2. \A k \in B : legs[k] \in Nat
    BY <1>1, <1>2, <1>5
  <2> QED BY <1>6, <1>7, <1>8, <2>1, <2>2 DEF all
<1>10. CASE ~\E k \in B : k[2] = "net"
  <2>1. DOMAIN legs = B \cup {Fallback} /\ legs[Fallback] = total
    BY <1>4, <1>10
  <2>2. \A k \in B \cup {Fallback} : legs[k] \in Nat /\ legs[k] \in Int
    BY <1>1, <1>2, <1>5, <2>1
  <2>3. SumIn(legs, B \cup {Fallback}) = legs[Fallback] + SumIn(legs, B)
    BY <1>3, <1>7, <2>2, SumWith
  <2>4. IsFiniteSet(B \cup {Fallback})
    BY <1>7, FS_AddElement
  <2>5. SumIn(legs, B) \in Int
    BY <1>7, <2>2, SumIsInt
  <2>6. total = total + SumIn(legs, B)
    BY <1>6, <2>1, <2>3
  <2>7. SumIn(legs, B) = 0
    BY <2>5, <2>6
  <2> QED BY <1>6, <1>8, <2>1, <2>2, <2>4, <2>7 DEF all
<1> QED BY <1>9, <1>10

(* What a posting books agrees with what it reads.                          *)
LEMMA RoundingsAgree ==
    ASSUME NEW legs, IsFiniteSet(DOMAIN legs), \A k \in DOMAIN legs : legs[k] \in Nat,
           NEW rate \in Nat \ {0}, NEW total \in Nat, SumFunction(legs) = total,
           NEW bases, bases = [k \in DOMAIN legs |-> InLedger(legs[k], rate)]
    PROVE  LET control == InLedger(total, rate) IN
           /\ Near(control, SumFunction(bases), Cardinality(DOMAIN legs) + 1)
           /\ Near(control, Cent * Converted(total, 1, rate), Cent + 1)
           /\ rate = Scale => control = total /\ SumFunction(bases) = total
<1> DEFINE D == DOMAIN legs
           n == Cardinality(D)
           control == InLedger(total, rate)
           detail == SumIn(bases, D)
           header == Converted(total, 1, rate)
<1>1. Scale \in Nat \ {0} /\ Cent \in Nat \ {0}
  BY RatesAssumption
<1>2. DOMAIN bases = D /\ SumFunction(bases) = detail /\ SumIn(legs, D) = total /\ n \in Nat
  BY ColumnSum, FS_CardinalityType
<1>3. ASSUME NEW x \in Nat
      PROVE  /\ InLedger(x, rate) \in Nat
             /\ 2 * (Scale * InLedger(x, rate)) <= 2 * (x * rate) + Scale
             /\ 2 * (x * rate) <= 2 * (Scale * InLedger(x, rate)) + Scale
             /\ rate = Scale => InLedger(x, rate) = x
  <2>1. (x * rate) \in Nat
    OBVIOUS
  <2> QED BY <1>1, <2>1, RoundedIsNear, WholeIsKept DEF InLedger
<1>4. \A k \in D : /\ bases[k] \in Nat /\ legs[k] \in Nat
                   /\ (2 * Scale) * bases[k] <= (2 * rate) * legs[k] + Scale
                   /\ (2 * rate) * legs[k] <= (2 * Scale) * bases[k] + Scale
                   /\ rate = Scale => bases[k] = legs[k]
  <2> TAKE k \in D
  <2>1. bases[k] = InLedger(legs[k], rate) /\ legs[k] \in Nat
    OBVIOUS
  <2>2. ASSUME NEW x \in Nat, NEW y \in Nat
        PROVE  (2 * Scale) * y = 2 * (Scale * y) /\ (2 * rate) * x = 2 * (x * rate)
    BY <1>1
  <2> QED BY <1>3, <2>1, <2>2
<1> HIDE DEF D
<1>5. detail \in Nat
  BY <1>4, SumIsNat DEF D
<1>6. /\ (2 * Scale) * detail <= (2 * rate) * total + Scale * n
      /\ (2 * rate) * total <= (2 * Scale) * detail + Scale * n
  <2>1. (2 * Scale) \in Int /\ (2 * rate) \in Int /\ Scale \in Int
    BY <1>1
  <2>2. IsFiniteSet(D) /\ \A k \in D : bases[k] \in Int /\ legs[k] \in Int
    BY <1>4 DEF D
  <2>3. (2 * Scale) * SumIn(bases, D) <= (2 * rate) * SumIn(legs, D) + Scale * Cardinality(D)
    BY <1>4, <2>1, <2>2, SumNear
  <2>4. (2 * rate) * SumIn(legs, D) <= (2 * Scale) * SumIn(bases, D) + Scale * Cardinality(D)
    BY <1>4, <2>1, <2>2, SumNear
  <2> QED BY <1>2, <2>3, <2>4
<1>7. /\ control \in Nat
      /\ (2 * Scale) * control <= (2 * rate) * total + Scale
      /\ (2 * rate) * total <= (2 * Scale) * control + Scale
  <2>1. /\ control \in Nat /\ 2 * (Scale * control) <= 2 * (total * rate) + Scale
        /\ 2 * (total * rate) <= 2 * (Scale * control) + Scale
    BY <1>3
  <2> HIDE DEF control
  <2>2. (2 * Scale) * control = 2 * (Scale * control) /\ (2 * rate) * total = 2 * (total * rate)
    BY <1>1, <2>1
  <2> QED BY <2>1, <2>2
<1>8. /\ header \in Nat
      /\ (2 * Scale) * (Cent * header) <= (2 * rate) * total + Scale * Cent
      /\ (2 * rate) * total <= (2 * Scale) * (Cent * header) + Scale * Cent
  <2> DEFINE d == Scale * Cent * 1
  <2>1. d \in Nat \ {0} /\ d = Scale * Cent /\ (total * rate) \in Nat
    BY <1>1
  <2>2. header = HalfUp(total * rate, d)
    BY DEF Converted
  <2> HIDE DEF d, header
  <2>3. /\ header \in Nat /\ 2 * (d * header) <= 2 * (total * rate) + d
        /\ 2 * (total * rate) <= 2 * (d * header) + d
    BY <2>1, <2>2, RoundedIsNear
  <2>4. 2 * (d * header) = (2 * Scale) * (Cent * header) /\ (2 * rate) * total = 2 * (total * rate)
    BY <1>1, <2>1, <2>3
  <2> QED BY <2>1, <2>3, <2>4
<1>9. ASSUME NEW u \in Nat, NEW v \in Nat, NEW r \in Nat, NEW m \in Nat,
             (2 * Scale) * u <= r + Scale, r <= (2 * Scale) * u + Scale,
             (2 * Scale) * v <= r + Scale * m, r <= (2 * Scale) * v + Scale * m
      PROVE  Near(u, v, m + 1)
  <2>1. Scale * (2 * (u - v)) = (2 * Scale) * u - (2 * Scale) * v
    BY <1>1
  <2>2. Scale * (2 * (v - u)) = (2 * Scale) * v - (2 * Scale) * u
    BY <1>1
  <2>3. Scale * (m + 1) = Scale * m + Scale /\ (Scale * m) \in Nat
        /\ ((2 * Scale) * u) \in Nat /\ ((2 * Scale) * v) \in Nat
    BY <1>1
  <2>4. Scale * (2 * (u - v)) <= Scale * (m + 1) /\ Scale * (2 * (v - u)) <= Scale * (m + 1)
    BY <1>1, <1>9, <2>1, <2>2, <2>3
  <2>5. (2 * (u - v)) \in Int /\ (2 * (v - u)) \in Int /\ (m + 1) \in Int
    OBVIOUS
  <2> QED BY <1>1, <2>4, <2>5, Cancelled DEF Near
<1>10. Near(control, detail, n + 1)
  <2> HIDE DEF control, detail, n
  <2>1. ((2 * rate) * total) \in Nat
    OBVIOUS
  <2> QED BY <1>2, <1>5, <1>6, <1>7, <1>9, <2>1
<1>11. Near(control, Cent * header, Cent + 1)
  <2> HIDE DEF control, header
  <2>1. ((2 * rate) * total) \in Nat /\ (Cent * header) \in Nat /\ Cent \in Nat
    BY <1>1, <1>8
  <2> QED BY <1>7, <1>8, <1>9, <2>1
<1>12. rate = Scale => control = total /\ detail = total
  <2>1. rate = Scale => control = total
    BY <1>3
  <2>2. rate = Scale => \A k \in D : bases[k] = legs[k]
    BY <1>4
  <2>3. IsFiniteSet(D)
    BY DEF D
  <2>4. rate = Scale => detail = SumIn(legs, D)
    BY <2>2, <2>3, SumOfSame
  <2> QED BY <1>2, <2>1, <2>4
<1> QED BY <1>2, <1>10, <1>11, <1>12 DEF D

-----------------------------------------------------------------------------
(* Invoices keep their columns, rates are positive, and a save was read of  *)
(* an invoice that was not posted, and will write a draft.                  *)
Columns == {"status", "currency", "rate", "base", "on", "total", "baseTotal"}
InvoiceRow(row) ==
    /\ DOMAIN row = Columns /\ row.status \in {"ABSENT", "DRAFT", "POSTED"}
    /\ row.rate \in Nat \ {0} /\ row.total \in Nat
InvoiceRows ==
    /\ DOMAIN invoices = Invoices /\ \A d \in Invoices : InvoiceRow(invoices[d])
    /\ DOMAIN invoiceLines = Invoices /\ \A d \in Invoices : invoiceLines[d] \in StoredLines
    /\ DOMAIN booked = Invoices
RatesPositive == \A x \in rates : x.rate \in Nat \ {0}
EditOfDraft(e) ==
    /\ DOMAIN e = {"step", "invoice", "read", "new", "lines"}
    /\ e.invoice \in Invoices /\ e.read.status \in {"ABSENT", "DRAFT"}
    /\ InvoiceRow(e.new) /\ e.new.status = "DRAFT" /\ e.lines \in StoredLines
SavesOfDrafts ==
    /\ DOMAIN editing = Editors
    /\ \A c \in Editors : editing[c].step # "idle" => EditOfDraft(editing[c])
RatesInv == InvoiceRows /\ RatesPositive /\ SavesOfDrafts /\ PostedAmountsExplained

(* Sums of what a request submits, and the columns that hold them.          *)
LEMMA SubmittedIsStored ==
    ASSUME NEW sent \in Seq(Submitted)
    PROVE  /\ HalfUp(RawTotal(sent), Fine) \in Nat
           /\ [i \in DOMAIN sent |-> StoredLine(sent[i])] \in StoredLines
<1>1. Fine \in Nat \ {0}
  BY RatesAssumption
<1>2. /\ DOMAIN sent = 1..Len(sent) /\ Len(sent) \in Nat
      /\ \A i \in 1..Len(sent) : sent[i].taxable \in Nat /\ sent[i].tax \in Nat
  <2>1. DOMAIN sent = 1..Len(sent) /\ Len(sent) \in Nat
        /\ \A i \in 1..Len(sent) : sent[i] \in Submitted
    OBVIOUS
  <2> QED BY <2>1 DEF Submitted
<1>3. HalfUp(RawTotal(sent), Fine) \in Nat
  <2> DEFINE a == [i \in DOMAIN sent |-> sent[i].taxable + sent[i].tax]
  <2>1. DOMAIN a = DOMAIN sent /\ \A i \in DOMAIN a : a[i] \in Nat
    BY <1>2
  <2>2. IsFiniteSet(DOMAIN a)
    BY <1>2, <2>1, FS_Interval
  <2>3. RawTotal(sent) = SumIn(a, DOMAIN a)
    BY ColumnSum DEF RawTotal
  <2> HIDE DEF a
  <2>4. RawTotal(sent) \in Nat
    BY <2>1, <2>2, <2>3, SumIsNat
  <2> QED BY <1>1, <2>4, RoundedIsNear
<1>4. ASSUME NEW i \in DOMAIN sent PROVE StoredLine(sent[i]) \in StoredLineRows
  <2>1. sent[i].taxable + sent[i].tax \in Nat /\ sent[i].tax \in Nat
    BY <1>2
  <2> QED BY <1>1, <2>1, RoundedIsNear DEF StoredLine, StoredLineRows
<1>5. [i \in 1..Len(sent) |-> StoredLine(sent[i])] \in Seq(StoredLineRows)
  BY <1>2, <1>4
<1> QED BY <1>2, <1>3, <1>5 DEF StoredLines

(* Every rate a save may find is positive.                                  *)
LEMMA FoundRatesArePositive ==
    ASSUME RatesPositive, NEW doc, InvoiceRow(doc), NEW ask \in SomeSaves, NEW currency, NEW on
    PROVE  RatesFor(doc, ask, currency, on) \subseteq Nat \ {0}
<1>1. Scale \in Nat \ {0} /\ ask.rate \in Nat
  BY RatesAssumption
<1>2. ASSUME NEW from, NEW to, NEW x \in LatestApproved(from, to, on) PROVE x.rate \in Nat \ {0}
  BY <1>2 DEF LatestApproved, Applicable, RatesPositive
<1>3. ASSUME NEW x \in LatestApproved(base, currency, on)
      PROVE  HalfUp(Scale * Scale, x.rate) \in Nat
  <2>1. (Scale * Scale) \in Nat
    BY <1>1
  <2> QED BY <1>2, <2>1, RoundedIsNear
<1>4. Resolved(currency, on) \subseteq Nat \ {0}
  BY <1>2, <1>3 DEF Resolved
<1> QED BY <1>1, <1>4 DEF RatesFor, InvoiceRow

(* A save leaves a draft, or an invoice that it overran.                    *)
LEMMA SavesLeaveDrafts ==
    ASSUME RatesInv, NEW c \in Editors, CommitSave(c)
    PROVE  RatesInv'
<1> DEFINE e == editing[c]
           d == editing[c].invoice
           row == Overwritten(invoices[d], e)
           kept == IF e.step = "late" THEN invoiceLines[d] ELSE <<>>
           sent == IF kept = <<>> THEN e.lines ELSE kept
<1>1. /\ e.step # "idle"
      /\ (e.read.status = "ABSENT") <=> (invoices[d].status = "ABSENT")
      /\ invoices' = [invoices EXCEPT ![d] = row]
      /\ invoiceLines' = [invoiceLines EXCEPT ![d] = sent]
      /\ overrun' = IF invoices[d].status = "POSTED" THEN overrun \cup {d} ELSE overrun
      /\ editing' = [o \in Editors |->
             CASE o = c -> NoEdit
               [] o # c /\ editing[o].step = "cleared" /\ editing[o].invoice = d ->
                      [editing[o] EXCEPT !.step = "late"]
               [] OTHER -> editing[o]]
      /\ UNCHANGED <<rates, booked>>
  BY DEF CommitSave
<1>2. EditOfDraft(e) /\ d \in Invoices
  <2>1. \A o \in Editors : editing[o].step # "idle" => EditOfDraft(editing[o])
    BY DEF RatesInv, SavesOfDrafts
  <2>2. EditOfDraft(e)
    BY <1>1, <2>1
  <2> QED BY <2>2 DEF EditOfDraft
<1>3. InvoiceRow(invoices[d]) /\ InvoiceRow(e.new) /\ sent \in StoredLines
  BY <1>2 DEF RatesInv, InvoiceRows, EditOfDraft
<1>4. /\ DOMAIN row = Columns
      /\ \A f \in Columns : row[f] = e.new[f] \/ row[f] = invoices[d][f]
      /\ row.status = IF e.new.status # e.read.status THEN e.new.status ELSE invoices[d].status
  BY <1>3 DEF Overwritten, InvoiceRow, Columns
<1> HIDE DEF row, sent
<1>5. InvoiceRow(row) /\ (row.status = "POSTED" => invoices[d].status = "POSTED")
  <2>1. {"status", "rate", "total"} \subseteq Columns
    BY DEF Columns
  <2> QED BY <1>1, <1>2, <1>3, <1>4, <2>1 DEF InvoiceRow, EditOfDraft
<1>6. /\ DOMAIN invoices' = Invoices /\ invoices'[d] = row
      /\ DOMAIN invoiceLines' = Invoices /\ invoiceLines'[d] = sent
      /\ \A o \in Invoices \ {d} : invoices'[o] = invoices[o] /\ invoiceLines'[o] = invoiceLines[o]
  BY <1>1, <1>2 DEF RatesInv, InvoiceRows
<1>7. InvoiceRows' /\ RatesPositive'
  BY <1>1, <1>3, <1>5, <1>6 DEF RatesInv, InvoiceRows, InvoiceRow, RatesPositive
<1>8. SavesOfDrafts'
  <2>1. DOMAIN editing' = Editors
    BY <1>1
  <2>2. ASSUME NEW o \in Editors, editing'[o].step # "idle" PROVE EditOfDraft(editing'[o])
    <3>1. o # c /\ editing[o].step # "idle"
      BY <1>1, <2>2 DEF NoEdit
    <3>2. EditOfDraft(editing[o])
      BY <3>1 DEF RatesInv, SavesOfDrafts
    <3>3. \/ editing'[o] = editing[o]
          \/ editing'[o] = [editing[o] EXCEPT !.step = "late"]
      BY <1>1, <3>1
    <3>4. EditOfDraft([editing[o] EXCEPT !.step = "late"])
      BY <3>2 DEF EditOfDraft
    <3> QED BY <3>2, <3>3, <3>4
  <2> QED BY <2>1, <2>2 DEF SavesOfDrafts, EditOfDraft, InvoiceRow
<1>9. PostedAmountsExplained'
  <2>1. ASSUME NEW o \in Invoices, invoices'[o].status = "POSTED", o \notin overrun'
        PROVE  AmountsAgree(o)'
    <3>1. o # d
      BY <1>1, <1>5, <1>6, <2>1
    <3>2. AmountsAgree(o) /\ invoices'[o] = invoices[o] /\ invoiceLines'[o] = invoiceLines[o]
          /\ booked'[o] = booked[o]
      BY <1>1, <1>6, <2>1, <3>1 DEF RatesInv, PostedAmountsExplained
    <3> QED BY <3>2 DEF AmountsAgree
  <2> QED BY <2>1 DEF PostedAmountsExplained
<1> QED BY <1>7, <1>8, <1>9 DEF RatesInv

(* A posting books what the invoice and its lines carry.                    *)
LEMMA PostingsExplained ==
    ASSUME RatesInv, NEW d \in Invoices, PostInvoice(d)
    PROVE  RatesInv'
<1> DEFINE doc == invoices[d]
           s == invoiceLines[d]
           made(legs) == [control |-> InLedger(doc.total, doc.rate), legs |-> legs,
                           bases |-> [k \in DOMAIN legs |-> InLedger(legs[k], doc.rate)]]
<1>1. PICK split \in BOOLEAN : /\ EntryBalanced(doc.total, DetailLegs(s, split, doc.total))
                               /\ booked' = [booked EXCEPT ![d] =
                                                 made(DetailLegs(s, split, doc.total))]
  BY DEF PostInvoice
<1> DEFINE legs == DetailLegs(s, split, doc.total)
<1>2. /\ doc.total > 0 /\ UNCHANGED <<rates, invoiceLines, editing, overrun>>
      /\ invoices' = [invoices EXCEPT ![d].status = "POSTED",
                                     ![d].baseTotal = Converted(doc.total, 1, doc.rate)]
  BY DEF PostInvoice
<1>3. InvoiceRow(doc) /\ s \in StoredLines /\ DOMAIN invoices = Invoices /\ DOMAIN booked = Invoices
  BY DEF RatesInv, InvoiceRows
<1>4. /\ DOMAIN invoices' = Invoices /\ DOMAIN invoices'[d] = Columns
      /\ invoices'[d].status = "POSTED" /\ invoices'[d].total = doc.total
      /\ invoices'[d].rate = doc.rate /\ invoices'[d].baseTotal = Converted(doc.total, 1, doc.rate)
      /\ \A o \in Invoices \ {d} : invoices'[o] = invoices[o]
      /\ DOMAIN booked' = Invoices /\ booked'[d] = made(legs)
      /\ \A o \in Invoices \ {d} : booked'[o] = booked[o]
  BY <1>1, <1>2, <1>3 DEF InvoiceRow, Columns
<1>5. doc.total \in Nat \ {0} /\ doc.rate \in Nat \ {0}
  BY <1>2, <1>3 DEF InvoiceRow
<1> HIDE DEF doc
<1>6. InvoiceRows' /\ RatesPositive' /\ SavesOfDrafts'
  BY <1>2, <1>4, <1>5 DEF RatesInv, InvoiceRows, InvoiceRow, RatesPositive, SavesOfDrafts,
                          EditOfDraft
<1>7. AmountsAgree(d)'
  <2> DEFINE bases == [k \in DOMAIN legs |-> InLedger(legs[k], doc.rate)]
             control == InLedger(doc.total, doc.rate)
  <2>1. /\ IsFiniteSet(DOMAIN legs) /\ \A k \in DOMAIN legs : legs[k] \in Nat
        /\ SumFunction(legs) = doc.total /\ SumFunction(LineAmounts(s)) \in {0, doc.total}
    BY <1>1, <1>3, <1>5, LegsComeToTotal
  <2>2. /\ booked'[d].control = control /\ booked'[d].legs = legs /\ booked'[d].bases = bases
        /\ invoiceLines'[d] = s
    BY <1>2, <1>4
  <2> HIDE DEF legs, s
  <2>3. /\ Near(control, SumFunction(bases), Cardinality(DOMAIN legs) + 1)
        /\ Near(control, Cent * Converted(doc.total, 1, doc.rate), Cent + 1)
        /\ doc.rate = Scale => control = doc.total /\ SumFunction(bases) = doc.total
    BY <1>5, <2>1, RoundingsAgree
  <2> HIDE DEF bases, control
  <2> QED BY <1>4, <2>1, <2>2, <2>3 DEF AmountsAgree
<1>8. ASSUME NEW o \in Invoices \ {d}, invoices'[o].status = "POSTED", o \notin overrun'
      PROVE  AmountsAgree(o)'
  BY <1>2, <1>4, <1>8 DEF RatesInv, PostedAmountsExplained, AmountsAgree
<1>9. PostedAmountsExplained'
  BY <1>7, <1>8 DEF PostedAmountsExplained
<1> QED BY <1>6, <1>9 DEF RatesInv

LEMMA RatesInvStep == RatesInv /\ [RatesNext]_rateVars => RatesInv'
<1> SUFFICES ASSUME RatesInv, [RatesNext]_rateVars PROVE RatesInv'
    OBVIOUS
<1>1. ASSUME UNCHANGED invoiceVars PROVE InvoiceRows' /\ PostedAmountsExplained'
  BY <1>1 DEF invoiceVars, RatesInv, InvoiceRows, InvoiceRow, PostedAmountsExplained, AmountsAgree
<1>2. ASSUME UNCHANGED editing PROVE SavesOfDrafts'
  BY <1>2 DEF RatesInv, SavesOfDrafts, EditOfDraft, InvoiceRow
<1>3. ASSUME NEW from, NEW to, NEW on, NEW rate \in RateValues, NEW old, NEW status,
             SaveRate(old, [from |-> from, to |-> to, on |-> on, rate |-> rate,
                            status |-> "APPROVED"], status)
      PROVE  RatesInv'
  <2>1. rate \in Nat \ {0}
    BY RatesAssumption
  <2>2. RatesPositive'
    BY <1>3, <2>1 DEF SaveRate, RatesInv, RatesPositive
  <2>3. UNCHANGED invoiceVars /\ UNCHANGED editing
    BY <1>3 DEF SaveRate
  <2> QED BY <1>1, <1>2, <2>2, <2>3 DEF RatesInv
<1>4. ASSUME NEW x \in rates, DeleteRate(x) PROVE RatesInv'
  <2>1. RatesPositive'
    BY <1>4 DEF DeleteRate, RatesInv, RatesPositive
  <2>2. UNCHANGED invoiceVars /\ UNCHANGED editing
    BY <1>4 DEF DeleteRate
  <2> QED BY <1>1, <1>2, <2>1, <2>2 DEF RatesInv
<1>5. ASSUME NEW currency \in Currencies, ChangeBase(currency) PROVE RatesInv'
  <2>1. RatesPositive'
    BY <1>5 DEF ChangeBase, RatesInv, RatesPositive
  <2>2. UNCHANGED invoiceVars /\ UNCHANGED editing
    BY <1>5 DEF ChangeBase
  <2> QED BY <1>1, <1>2, <2>1, <2>2 DEF RatesInv
<1>6. ASSUME NEW c \in Editors, CommitSave(c) PROVE RatesInv'
  BY <1>6, SavesLeaveDrafts
<1>7. ASSUME NEW c \in Editors, DropSave(c) \/ ClearLines(c) PROVE RatesInv'
  <2>1. /\ UNCHANGED invoiceVars /\ UNCHANGED rates /\ editing[c].step # "idle"
        /\ \/ editing' = [editing EXCEPT ![c] = NoEdit]
           \/ editing' = [editing EXCEPT ![c].step = "cleared"]
    BY <1>7 DEF DropSave, ClearLines, invoiceVars
  <2>2. RatesPositive'
    BY <2>1 DEF RatesInv, RatesPositive
  <2>3. EditOfDraft(editing[c])
    BY <2>1 DEF RatesInv, SavesOfDrafts
  <2>4. EditOfDraft([editing[c] EXCEPT !.step = "cleared"]) /\ NoEdit.step = "idle"
    BY <2>3 DEF EditOfDraft, NoEdit
  <2>5. /\ DOMAIN editing' = Editors /\ \A o \in Editors \ {c} : editing'[o] = editing[o]
        /\ editing'[c] \in {NoEdit, [editing[c] EXCEPT !.step = "cleared"]}
    BY <2>1 DEF RatesInv, SavesOfDrafts
  <2>6. \A o \in Editors : editing'[o].step # "idle" => EditOfDraft(editing'[o])
    BY <2>4, <2>5 DEF RatesInv, SavesOfDrafts
  <2>7. SavesOfDrafts'
    BY <2>5, <2>6 DEF SavesOfDrafts, EditOfDraft, InvoiceRow
  <2> QED BY <1>1, <2>1, <2>2, <2>7 DEF RatesInv
<1>8. ASSUME NEW c \in Editors, NEW d \in Invoices, NEW ask \in SomeSaves, ReadForSave(c, d, ask)
      PROVE  RatesInv'
  <2> DEFINE doc == invoices[d]
             currency == IF ask.currency # Blank THEN ask.currency
                         ELSE IF doc.status = "ABSENT" THEN base ELSE doc.currency
             on == IF ask.on # 0 THEN ask.on ELSE doc.on
             renamed == doc.status = "ABSENT" \/ ask.currency # Blank \/ ask.rate # 0
             new(rate) == [doc EXCEPT !.status = "DRAFT", !.base = base, !.on = on,
                                   !.currency = IF renamed THEN currency ELSE @,
                                   !.rate = IF renamed THEN rate ELSE @,
                                   !.total = HalfUp(RawTotal(ask.lines), Fine),
                                   !.baseTotal = Converted(RawTotal(ask.lines), Fine, rate)]
             sent == [i \in DOMAIN ask.lines |-> StoredLine(ask.lines[i])]
  <2>1. PICK rate \in RatesFor(doc, ask, currency, on) :
          editing' = [editing EXCEPT ![c] = [step |-> "read", invoice |-> d, read |-> doc,
                                             new |-> new(rate), lines |-> sent]]
    BY <1>8 DEF ReadForSave
  <2>2. doc.status \in {"ABSENT", "DRAFT"} /\ UNCHANGED invoiceVars /\ UNCHANGED rates
    BY <1>8 DEF ReadForSave
  <2>3. HalfUp(RawTotal(ask.lines), Fine) \in Nat /\ sent \in StoredLines
    <3>1. ask.lines \in Seq(Submitted)
      BY RatesAssumption
    <3> QED BY <3>1, SubmittedIsStored
  <2>4. InvoiceRow(doc)
    BY DEF RatesInv, InvoiceRows
  <2> HIDE DEF currency, on, renamed, sent
  <2>5. rate \in Nat \ {0}
    BY <2>4, FoundRatesArePositive DEF RatesInv
  <2>6. InvoiceRow(new(rate)) /\ new(rate).status = "DRAFT"
    BY <2>3, <2>4, <2>5 DEF InvoiceRow, Columns
  <2> HIDE DEF new
  <2>7. SavesOfDrafts'
    <3>1. DOMAIN editing' = Editors /\ \A o \in Editors \ {c} : editing'[o] = editing[o]
      BY <2>1 DEF RatesInv, SavesOfDrafts
    <3>2. editing'[c] = [step |-> "read", invoice |-> d, read |-> doc, new |-> new(rate),
                         lines |-> sent]
      BY <2>1 DEF RatesInv, SavesOfDrafts
    <3>3. EditOfDraft(editing'[c])
      BY <2>2, <2>3, <2>6, <3>2 DEF EditOfDraft
    <3> QED BY <3>1, <3>3 DEF RatesInv, SavesOfDrafts, EditOfDraft, InvoiceRow
  <2>8. RatesPositive'
    BY <2>2 DEF RatesInv, RatesPositive
  <2> QED BY <1>1, <2>2, <2>7, <2>8 DEF RatesInv
<1>9. ASSUME NEW d \in Invoices, PostInvoice(d) PROVE RatesInv'
  BY <1>9, PostingsExplained
<1>10. CASE UNCHANGED rateVars
  <2>1. UNCHANGED invoiceVars /\ UNCHANGED editing /\ UNCHANGED rates
    BY <1>10 DEF rateVars
  <2> QED BY <1>1, <1>2, <2>1 DEF RatesInv, RatesPositive
<1> QED
  <2>1. CASE \E from, to \in Currencies, on \in Days, rate \in RateValues,
                status \in {Blank, "PENDING", "INACTIVE"}, old \in {{}} \cup {{x} : x \in rates} :
             from # to /\ SaveRate(old, [from |-> from, to |-> to, on |-> on, rate |-> rate,
                                         status |-> "APPROVED"], status)
    BY <2>1, <1>3
  <2> QED BY <2>1, <1>4, <1>5, <1>6, <1>7, <1>8, <1>9, <1>10 DEF RatesNext

(* For every rate, amount, scale and overlap of edits, a posted invoice     *)
(* that no save overran, its lines and its entry tell the same amounts:     *)
(* what its roundings add up to is all they differ by.                      *)
THEOREM PostedAmountsFollow == RatesSpec => []PostedAmountsExplained
<1>1. RatesInit => RatesInv
  <2> SUFFICES ASSUME RatesInit PROVE RatesInv
    OBVIOUS
  <2>1. RatesPositive
    BY RatesAssumption DEF RatesInit, RatesPositive
  <2>2. Scale \in Nat \ {0} /\ <<>> \in StoredLines
    BY RatesAssumption DEF StoredLines
  <2>3. InvoiceRows /\ SavesOfDrafts /\ PostedAmountsExplained
    BY <2>2 DEF RatesInit, InvoiceRows, InvoiceRow, SavesOfDrafts, PostedAmountsExplained,
                NewInvoice, NoEdit, Columns
  <2> QED BY <2>1, <2>3 DEF RatesInv
<1>2. RatesInv => PostedAmountsExplained
  BY DEF RatesInv
<1> QED BY <1>1, <1>2, RatesInvStep, PTL DEF RatesSpec

-----------------------------------------------------------------------------
(* Routes.  A save that has read the last version has read the stops that   *)
(* are there.                                                               *)
Planning ==
    /\ DOMAIN planning = Planners /\ version \in Nat
    /\ \A c \in Planners : planning[c].step = "read" =>
          /\ planning[c].submitted \in Submissions
          /\ planning[c].at \in Nat /\ planning[c].at <= version
          /\ planning[c].at = version => planning[c].seen = stops
RoutesInv == Planning /\ RoutesStayInOrder

(* A row id that a list repeats is reused by the first stop that names it,  *)
(* so a route that was read as it is gets a row for each stop submitted, in *)
(* the order of the list.                                                   *)
LEMMA RouteFollowsList ==
    ASSUME NEW p, p.submitted \in Seq([id : Nat, role : PlaceRoles]), p.seen = stops
    PROVE  /\ Cardinality(Renumbered(p) \cup Inserted(p)) = Len(p.submitted)
           /\ {<<s.seq, s.role>> : s \in Renumbered(p) \cup Inserted(p)} =
                  {<<i, p.submitted[i].role>> : i \in DOMAIN p.submitted}
<1> DEFINE n == Len(p.submitted)
           Positions(id) == {i \in DOMAIN p.submitted : p.submitted[i].id = id /\ Reuses(p, i)}
           Final(id) == CHOOSE i \in Positions(id) : \A j \in Positions(id) : j <= i
           Role(id) == IF p.submitted[Final(id)].role # StopOf(p.seen, id).role
                       THEN p.submitted[Final(id)].role ELSE StopOf(stops, id).role
           New(i) == lastStop + Cardinality({j \in {k \in DOMAIN p.submitted : ~Reuses(p, k)} : j <= i})
           Row(i) == [id |-> IF Reuses(p, i) THEN p.submitted[i].id ELSE New(i),
                      seq |-> i, role |-> p.submitted[i].role]
<1>1. n \in Nat /\ DOMAIN p.submitted = 1..n
  OBVIOUS
<1>2. ASSUME NEW id, NEW i \in Positions(id) PROVE Final(id) = i
  <2>1. \A j \in Positions(id) : j = i
    <3> SUFFICES ASSUME NEW j \in Positions(id), j # i PROVE FALSE
      OBVIOUS
    <3>1. i \in 1..n /\ j \in 1..n /\ Reuses(p, i) /\ Reuses(p, j)
          /\ p.submitted[i].id = p.submitted[j].id
      BY <1>1
    <3>2. i \in 1..j - 1 \/ j \in 1..i - 1
      BY <1>1, <3>1
    <3> QED BY <3>1, <3>2 DEF Reuses
  <2>2. Positions(id) = {i} /\ i <= i
    BY <1>1, <2>1
  <2> QED BY <2>2
<1>3. ASSUME NEW id, Positions(id) # {} PROVE Role(id) = p.submitted[Final(id)].role
  OBVIOUS
<1>4. Renumbered(p) = {[id |-> id, seq |-> Final(id), role |-> Role(id)] :
                          id \in {k \in IdsOf(p.seen) : Positions(k) # {}}}
  BY Zenon DEF Renumbered
<1>5. Inserted(p) = {[id |-> New(i), seq |-> i, role |-> p.submitted[i].role] :
                          i \in {k \in DOMAIN p.submitted : ~Reuses(p, k)}}
  BY Zenon DEF Inserted
<1> HIDE DEF New, Final, Role
<1>6. Renumbered(p) = {Row(i) : i \in {k \in 1..n : Reuses(p, k)}}
  <2>1. ASSUME NEW id \in IdsOf(p.seen), Positions(id) # {}
        PROVE  \E i \in {k \in 1..n : Reuses(p, k)} :
                  Row(i) = [id |-> id, seq |-> Final(id), role |-> Role(id)]
    <3>1. PICK i \in Positions(id) : TRUE
      BY <2>1
    <3>2. Final(id) = i /\ Role(id) = p.submitted[i].role
      BY <1>2, <1>3, <2>1
    <3> QED BY <1>1, <3>2
  <2>2. ASSUME NEW i \in {k \in 1..n : Reuses(p, k)}
        PROVE  \E id \in {k \in IdsOf(p.seen) : Positions(k) # {}} :
                  Row(i) = [id |-> id, seq |-> Final(id), role |-> Role(id)]
    <3> DEFINE id == p.submitted[i].id
    <3>1. i \in Positions(id) /\ id \in IdsOf(p.seen)
      BY <1>1 DEF Reuses
    <3>2. Final(id) = i /\ Role(id) = p.submitted[i].role
      BY <1>2, <1>3, <3>1
    <3> QED BY <3>1, <3>2
  <2> HIDE DEF Row, Positions
  <2> QED BY <1>4, <2>1, <2>2, Zenon
<1>7. Inserted(p) = {Row(i) : i \in {k \in 1..n : ~Reuses(p, k)}}
  BY <1>1, <1>5
<1>8. Renumbered(p) \cup Inserted(p) = {Row(i) : i \in 1..n}
  BY <1>6, <1>7
<1> HIDE DEF Positions
<1>r. \A i : Row(i).seq = i /\ Row(i).role = p.submitted[i].role
  OBVIOUS
<1> HIDE DEF Row
<1>9. Cardinality({Row(i) : i \in 1..n}) = n
  <2> DEFINE f == [i \in 1..n |-> Row(i)]
  <2>1. f \in Injection(1..n, {Row(i) : i \in 1..n})
    BY <1>r DEF Injection, IsInjective
  <2>2. f \in Surjection(1..n, {Row(i) : i \in 1..n})
    BY DEF Surjection
  <2>3. ExistsBijection(1..n, {Row(i) : i \in 1..n})
    BY <2>1, <2>2 DEF ExistsBijection, Bijection
  <2> QED BY <1>1, <2>3, FS_CountingElements
<1>10. {<<s.seq, s.role>> : s \in {Row(i) : i \in 1..n}} = {<<i, p.submitted[i].role>> : i \in 1..n}
  <2> DEFINE Place(s) == <<s.seq, s.role>>
             Wish(i) == <<i, p.submitted[i].role>>
  <2>1. \A i \in 1..n : Place(Row(i)) = Wish(i)
    BY <1>r
  <2> HIDE DEF Place, Wish
  <2>2. {Place(s) : s \in {Row(i) : i \in 1..n}} = {Wish(i) : i \in 1..n}
    BY <2>1
  <2> USE DEF Place, Wish
  <2> QED BY <2>2
<1> QED BY <1>1, <1>8, <1>9, <1>10

LEMMA RoutesInvStep == RoutesInv /\ [RoutesNext]_routeVars => RoutesInv'
<1> SUFFICES ASSUME RoutesInv, [RoutesNext]_routeVars PROVE RoutesInv'
    OBVIOUS
<1>s. Planning /\ RoutesStayInOrder
  BY DEF RoutesInv
<1>1. ASSUME NEW c \in Planners, NEW list \in Submissions, ReadRoute(c, list) PROVE RoutesInv'
  BY <1>1, <1>s DEF ReadRoute, RoutesInv, Planning, RoutesStayInOrder
<1>2. ASSUME NEW c \in Planners, CommitRoute(c) PROVE RoutesInv'
  <2> DEFINE p == planning[c]
             unseen == {s \in stops : s.id \notin IdsOf(p.seen)}
  <2>1. /\ p.step = "read" /\ stops' = unseen \cup (Renumbered(p) \cup Inserted(p))
        /\ wanted' = [i \in DOMAIN p.submitted |-> p.submitted[i].role]
        /\ version' = version + 1 /\ mixed' = (p.at # version)
        /\ planning' = [planning EXCEPT ![c] = NoPlan]
    BY <1>2 DEF CommitRoute
  <2>2. Planning'
    BY <2>1, <1>s DEF Planning, NoPlan
  <2>3. RoutesStayInOrder'
    <3> SUFFICES ASSUME ~mixed' PROVE
            /\ Cardinality(stops') = Len(wanted')
            /\ {<<s.seq, s.role>> : s \in stops'} = {<<i, wanted'[i]>> : i \in DOMAIN wanted'}
      BY DEF RoutesStayInOrder
    <3>1. p.seen = stops /\ p.submitted \in Seq([id : Nat, role : PlaceRoles])
      BY <2>1, <1>s, RoutesAssumption DEF Planning
    <3>2. unseen = {}
      BY <3>1 DEF IdsOf
    <3>3. stops' = Renumbered(p) \cup Inserted(p)
      BY <2>1, <3>2
    <3>4. Len(wanted') = Len(p.submitted) /\ DOMAIN wanted' = DOMAIN p.submitted
          /\ \A i \in DOMAIN wanted' : wanted'[i] = p.submitted[i].role
      BY <2>1, <3>1
    <3> HIDE DEF p
    <3>5. {<<i, wanted'[i]>> : i \in DOMAIN wanted'}
             = {<<i, p.submitted[i].role>> : i \in DOMAIN p.submitted}
      BY <3>4
    <3> QED BY <3>1, <3>3, <3>4, <3>5, RouteFollowsList
  <2> QED BY <2>2, <2>3 DEF RoutesInv
<1>3. ASSUME NEW c \in Planners, AbandonRoute(c) PROVE RoutesInv'
  BY <1>3, <1>s DEF AbandonRoute, NoPlan, RoutesInv, Planning, RoutesStayInOrder
<1>4. ASSUME NEW role \in PlaceRoles, RetireRole(role) PROVE RoutesInv'
  BY <1>4, <1>s DEF RetireRole, RoutesInv, Planning, RoutesStayInOrder
<1>5. CASE UNCHANGED routeVars
  BY <1>5, <1>s DEF routeVars, RoutesInv, Planning, RoutesStayInOrder
<1> QED BY <1>1, <1>2, <1>3, <1>4, <1>5 DEF RoutesNext

(* The submitted order wins, for lists and routes of any length.            *)
THEOREM RoutesKeepTheirOrder == RoutesSpec => []RoutesStayInOrder
<1>1. RoutesInit => RoutesInv
  BY FS_EmptySet DEF RoutesInit, RoutesInv, Planning, NoPlan, RoutesStayInOrder
<1>2. RoutesInv => RoutesStayInOrder
  BY DEF RoutesInv
<1> QED BY <1>1, <1>2, RoutesInvStep, PTL DEF RoutesSpec
-----------------------------------------------------------------------------
(* The general ledger.  Rows are entries; a line that was posted stays, so   *)
(* its place among the lines only moves back.                                *)
EntryRow == [date : Nat \ {0}, debited : Accounts, credited : Accounts, amount : Nat,
             posted : BOOLEAN]
Place(b, q, l) == Cardinality({m \in LedgerRange(b, q) : UpTo(m, l)})
PageFields == {"step", "ask", "page", "openings", "totals", "items", "seen", "book", "first"}
(* A reader of the ledger b has seen the lines of the start that lie on the *)
(* pages so far; the total is at least that of the page's beginning.        *)
PagedSoFar(p, b) ==
    /\ DOMAIN p = PageFields /\ p.page \in Nat
    /\ p.step # "closed" => /\ PostedLines(p.first) \subseteq PostedLines(b)
                            /\ PostedLines(p.book) \subseteq PostedLines(b)
    /\ p.step \in {"opened", "totalled"} =>
          \A l \in LedgerRange(p.first, p.ask) : Place(b, p.ask, l) <= Offset(p.page) => l \in p.seen
    /\ p.step = "totalled" => /\ p.totals.count \in Nat
                              /\ Cardinality(LedgerRange(p.book, p.ask)) <= p.totals.count
    /\ p.step \in {"shown", "torn"} =>
          /\ \A l \in LedgerRange(p.first, p.ask) :
                Place(b, p.ask, l) <= p.page * PageSize => l \in p.seen
          /\ ~HasNextPage(p) /\ (p.step = "torn" => p.ask.export) =>
                LedgerRange(p.first, p.ask) \subseteq p.seen
PagesInv ==
    /\ ledger \in Seq(EntryRow) /\ DOMAIN paging = Users
    /\ \A u \in Users : PagedSoFar(paging[u], ledger)

LEMMA LinesAreFinite ==
    ASSUME NEW b \in Seq(EntryRow)
    PROVE  IsFiniteSet(PostedLines(b))
<1> DEFINE S == {n \in DOMAIN b : b[n].posted}
           T == S \X (1..2)
           F == [x \in T |-> LineOf(b[x[1]], x[1], x[2])]
<1>1. IsFiniteSet(DOMAIN b) /\ IsFiniteSet(1..2)
  <2> DEFINE N == Len(b)
  <2>1. DOMAIN b = 1..N /\ N \in Int
    OBVIOUS
  <2> HIDE DEF N
  <2>2. \A k \in Int : IsFiniteSet(1..k)
    BY FS_Interval
  <2>3. IsFiniteSet(DOMAIN b)
    BY <2>1, <2>2
  <2>4. IsFiniteSet(1..2)
    <3>1. 2 \in Int
      OBVIOUS
    <3> QED BY <2>2, <3>1, Zenon
  <2> QED BY <2>3, <2>4
<1>2. IsFiniteSet(S)
  BY <1>1, FS_Subset
<1>3. IsFiniteSet(T)
  <2> HIDE DEF S
  <2> QED BY <1>1, <1>2, FS_Product
<1>4. F \in Surjection(T, PostedLines(b))
  <2>1. \A x \in T : F[x] \in PostedLines(b)
    BY DEF PostedLines
  <2>2. ASSUME NEW l \in PostedLines(b) PROVE \E x \in T : F[x] = l
    <3>1. PICK i \in S, no \in 1..2 : l = LineOf(b[i], i, no)
      BY DEF PostedLines
    <3>2. <<i, no>> \in T /\ F[<<i, no>>] = l
      BY <3>1
    <3> QED BY <3>2
  <2> HIDE DEF T
  <2> QED BY <2>1, <2>2 DEF Surjection
<1> HIDE DEF T, F
<1> QED BY <1>3, <1>4, FS_Surjection

(* More postings, more lines of a range, and later places.                  *)
LEMMA PlacesMoveBack ==
    ASSUME NEW b \in Seq(EntryRow), NEW c \in Seq(EntryRow), NEW q,
           PostedLines(b) \subseteq PostedLines(c)
    PROVE  /\ LedgerRange(b, q) \subseteq LedgerRange(c, q)
           /\ Cardinality(LedgerRange(b, q)) \in Nat /\ Cardinality(LedgerRange(c, q)) \in Nat
           /\ Cardinality(LedgerRange(b, q)) <= Cardinality(LedgerRange(c, q))
           /\ \A l : /\ Place(b, q, l) \in Nat /\ Place(c, q, l) \in Nat
                     /\ Place(b, q, l) <= Place(c, q, l)
                     /\ Place(c, q, l) <= Cardinality(LedgerRange(c, q))
<1>1. /\ LedgerRange(b, q) \subseteq LedgerRange(c, q)
      /\ LedgerRange(b, q) \subseteq PostedLines(b) /\ LedgerRange(c, q) \subseteq PostedLines(c)
  BY DEF LedgerRange, UntilLastDay, Matching
<1>2. IsFiniteSet(LedgerRange(b, q)) /\ IsFiniteSet(LedgerRange(c, q))
  BY <1>1, LinesAreFinite, FS_Subset
<1>3. /\ Cardinality(LedgerRange(b, q)) \in Nat /\ Cardinality(LedgerRange(c, q)) \in Nat
      /\ Cardinality(LedgerRange(b, q)) <= Cardinality(LedgerRange(c, q))
  BY <1>1, <1>2, FS_CardinalityType, FS_Subset
<1>4. ASSUME NEW l
      PROVE  /\ Place(b, q, l) \in Nat /\ Place(c, q, l) \in Nat
             /\ Place(b, q, l) <= Place(c, q, l)
             /\ Place(c, q, l) <= Cardinality(LedgerRange(c, q))
  <2> DEFINE B == {m \in LedgerRange(b, q) : UpTo(m, l)}
             C == {m \in LedgerRange(c, q) : UpTo(m, l)}
  <2>1. B \subseteq C /\ C \subseteq LedgerRange(c, q)
    BY <1>1
  <2>2. Place(b, q, l) = Cardinality(B) /\ Place(c, q, l) = Cardinality(C)
    BY DEF Place
  <2> HIDE DEF B, C
  <2>3. IsFiniteSet(B) /\ IsFiniteSet(C)
    BY <1>2, <2>1, FS_Subset
  <2>4. /\ Cardinality(B) \in Nat /\ Cardinality(C) \in Nat
        /\ Cardinality(B) <= Cardinality(C) /\ Cardinality(C) <= Cardinality(LedgerRange(c, q))
    BY <1>2, <2>1, <2>3, FS_CardinalityType, FS_Subset
  <2> QED BY <2>2, <2>4
<1> QED BY <1>1, <1>3, <1>4

(* Entries are drafted and posted, and never change otherwise.              *)
LEMMA PostingsAdd ==
    ASSUME ReportsAssumption, ledger \in Seq(EntryRow), Posts
    PROVE  ledger' \in Seq(EntryRow) /\ PostedLines(ledger) \subseteq PostedLines(ledger')
<1>1. ASSUME NEW e \in Entries, DraftEntry(e)
      PROVE  ledger' \in Seq(EntryRow) /\ PostedLines(ledger) \subseteq PostedLines(ledger')
  <2> DEFINE r == Drafted(e)
  <2>1. r \in EntryRow
    BY DEF ReportsAssumption, Drafted, EntryRow
  <2> HIDE DEF r
  <2>2. ledger' = Append(ledger, r)
    BY <1>1 DEF DraftEntry, r
  <2>3. ledger' \in Seq(EntryRow) /\ \A i \in DOMAIN ledger : i \in DOMAIN ledger' /\ ledger'[i] = ledger[i]
    BY <2>1, <2>2
  <2> QED BY <2>3 DEF PostedLines
<1>2. ASSUME NEW i \in DOMAIN ledger, PostEntry(i)
      PROVE  ledger' \in Seq(EntryRow) /\ PostedLines(ledger) \subseteq PostedLines(ledger')
  <2>1. ledger' = [ledger EXCEPT ![i].posted = TRUE] /\ ~ledger[i].posted
    BY <1>2 DEF PostEntry
  <2>2. ledger[i] \in EntryRow
    OBVIOUS
  <2>3. [ledger[i] EXCEPT !.posted = TRUE] \in EntryRow
    BY <2>2 DEF EntryRow
  <2>4. ledger' \in Seq(EntryRow)
    BY <2>1, <2>3
  <2>5. \A n \in DOMAIN ledger : n # i => n \in DOMAIN ledger' /\ ledger'[n] = ledger[n]
    BY <2>1
  <2>6. ASSUME NEW l \in PostedLines(ledger) PROVE l \in PostedLines(ledger')
    <3>1. PICK n \in {k \in DOMAIN ledger : ledger[k].posted}, no \in 1..2 : l = LineOf(ledger[n], n, no)
      BY DEF PostedLines
    <3>2. n \in DOMAIN ledger' /\ ledger'[n] = ledger[n]
      BY <2>1, <2>5
    <3> QED BY <3>1, <3>2 DEF PostedLines
  <2> QED BY <2>4, <2>6
<1> QED BY <1>1, <1>2 DEF Posts

LEMMA Offsets ==
    ASSUME ReportsAssumption, NEW n \in Nat
    PROVE  /\ Offset(n) + PageSize = n * PageSize /\ Offset(n + 1) = n * PageSize
           /\ Offset(n) \in Int /\ n * PageSize \in Nat
BY DEF ReportsAssumption, Offset

LEMMA PostingsKeepPages ==
    ASSUME NEW p, NEW b \in Seq(EntryRow), NEW c \in Seq(EntryRow),
           PostedLines(b) \subseteq PostedLines(c), ReportsAssumption, PagedSoFar(p, b)
    PROVE  PagedSoFar(p, c)
<1>1. \A l : /\ Place(b, p.ask, l) \in Nat /\ Place(c, p.ask, l) \in Nat
             /\ Place(b, p.ask, l) <= Place(c, p.ask, l)
  BY PlacesMoveBack
<1>2. p.page * PageSize \in Nat /\ Offset(p.page) \in Int
  BY DEF PagedSoFar, ReportsAssumption, Offset
<1>3. \A l, k : k \in Int /\ Place(c, p.ask, l) <= k => Place(b, p.ask, l) <= k
  BY <1>1
<1> QED BY <1>2, <1>3 DEF PagedSoFar

LEMMA ShowingPages ==
    ASSUME ReportsAssumption, PagesInv, NEW u \in Users, ShowLedger(u)
    PROVE  PagedSoFar(paging'[u], ledger)
<1> DEFINE p == paging[u]
           q == p.ask
           items == LedgerPage(ledger, q, p.page, p.openings)
           range == LedgerRange(ledger, q)
<1>1. PagedSoFar(p, ledger) /\ p.step = "totalled" /\ ledger \in Seq(EntryRow)
  BY DEF ShowLedger, PagesInv
<1>2. paging'[u] = [p EXCEPT !.step = IF p.book = ledger THEN "shown" ELSE "torn",
                             !.items = items, !.seen = @ \cup {i.line : i \in items}]
  BY DEF ShowLedger, PagesInv
<1>3. /\ DOMAIN paging'[u] = PageFields /\ paging'[u].page = p.page /\ paging'[u].ask = q
      /\ paging'[u].first = p.first /\ paging'[u].book = p.book /\ paging'[u].totals = p.totals
      /\ paging'[u].seen = p.seen \cup {i.line : i \in items}
      /\ paging'[u].step = IF p.book = ledger THEN "shown" ELSE "torn"
  <2> HIDE DEF items
  <2> QED BY <1>1, <1>2 DEF PagedSoFar, PageFields
<1>4. ASSUME NEW l \in range, q.export \/ (Place(ledger, q, l) > Offset(p.page) /\ Place(ledger, q, l) <= Offset(p.page) + PageSize)
      PROVE  l \in paging'[u].seen
  <2>1. \E i \in items : i.line = l
    <3> DEFINE i == [line |-> l, balance |-> p.openings[l.account]
                                  + NetOf({m \in OnAccount(l.account, range) : UpTo(m, l)})]
    <3>1. i \in items
      BY <1>4 DEF LedgerPage, Place
    <3>2. i.line = l
      OBVIOUS
    <3> QED BY <3>1, <3>2
  <2> HIDE DEF items
  <2> QED BY <1>3, <2>1
<1>5. /\ LedgerRange(p.first, q) \subseteq range
      /\ Cardinality(range) \in Nat
      /\ \A l : Place(ledger, q, l) \in Nat /\ Place(ledger, q, l) <= Cardinality(range)
  <2>1. PostedLines(p.first) \subseteq PostedLines(ledger)
    BY <1>1 DEF PagedSoFar
  <2>2. LedgerRange(p.first, q) \subseteq range
    BY <2>1 DEF LedgerRange, UntilLastDay, Matching
  <2> QED BY <1>1, <2>2, PlacesMoveBack
<1>6. /\ Offset(p.page) \in Int /\ p.page * PageSize \in Nat
      /\ Offset(p.page) + PageSize = p.page * PageSize /\ PageSize \in Nat
  <2>1. p.page \in Nat
    BY <1>1 DEF PagedSoFar
  <2>2. PageSize \in Nat
    BY DEF ReportsAssumption
  <2> QED BY <2>1, <2>2, Offsets
<1> HIDE DEF items, range
<1>7. \A l \in LedgerRange(p.first, q) : Place(ledger, q, l) <= p.page * PageSize => l \in paging'[u].seen
  <2>1. \A l \in LedgerRange(p.first, q) : Place(ledger, q, l) <= Offset(p.page) => l \in p.seen
    BY <1>1 DEF PagedSoFar
  <2> QED BY <1>3, <1>4, <1>5, <1>6, <2>1
<1>8. ASSUME ~HasNextPage(paging'[u]), paging'[u].step = "torn" => q.export
      PROVE  LedgerRange(p.first, q) \subseteq paging'[u].seen
  <2>1. CASE q.export
    BY <1>4, <1>5, <2>1
  <2>2. CASE ~q.export
    <3>1. p.book = ledger
      BY <1>3, <1>8, <2>2
    <3>2. p.totals.count \in Nat /\ Cardinality(range) <= p.totals.count
      BY <1>1, <3>1 DEF PagedSoFar, range
    <3>3. p.totals.count <= p.page * PageSize
      BY <1>3, <1>6, <1>8, <2>2, <3>2 DEF HasNextPage
    <3>4. \A l : Place(ledger, q, l) <= p.page * PageSize
      BY <1>5, <1>6, <3>2, <3>3
    <3> QED BY <1>7, <3>4
  <2> QED BY <2>1, <2>2
<1> QED BY <1>1, <1>3, <1>7, <1>8 DEF PagedSoFar

LEMMA OneReader ==
    ASSUME NEW u \in Users, DOMAIN paging = Users, Pages(u)
    PROVE  /\ UNCHANGED ledger /\ DOMAIN paging' = Users
           /\ \A v \in Users \ {u} : paging'[v] = paging[v]
<1>1. UNCHANGED ledger /\ \E x : paging' = [paging EXCEPT ![u] = x]
  <2>1. ASSUME NEW q \in Asks, AskLedger(u, q)
        PROVE  UNCHANGED ledger /\ \E x : paging' = [paging EXCEPT ![u] = x]
    BY <2>1 DEF AskLedger
  <2>2. CASE TotalLedger(u)
    BY <2>2 DEF TotalLedger
  <2>3. CASE ShowLedger(u)
    BY <2>3 DEF ShowLedger
  <2>4. CASE NextPage(u)
    BY <2>4 DEF NextPage
  <2>5. CASE CloseLedger(u)
    BY <2>5 DEF CloseLedger
  <2> QED BY <2>1, <2>2, <2>3, <2>4, <2>5 DEF Pages
<1> QED BY <1>1

LEMMA PagesInvStep == ReportsAssumption /\ PagesInv /\ [ReportsNext]_reportVars => PagesInv'
<1> SUFFICES ASSUME ReportsAssumption, PagesInv, [ReportsNext]_reportVars PROVE PagesInv'
  OBVIOUS
<1>1. CASE UNCHANGED <<ledger, paging>>
  BY <1>1 DEF PagesInv
<1>2. CASE Posts
  <2>1. paging' = paging /\ ledger' \in Seq(EntryRow) /\ PostedLines(ledger) \subseteq PostedLines(ledger')
    BY <1>2, PostingsAdd DEF PagesInv, Posts, DraftEntry, PostEntry
  <2>2. \A u \in Users : PagedSoFar(paging[u], ledger')
    BY <2>1, PostingsKeepPages DEF PagesInv
  <2> QED BY <2>1, <2>2 DEF PagesInv
<1>3. ASSUME NEW u \in Users, Pages(u) PROVE PagesInv'
  <2> DEFINE p == paging[u]
  <2>1. SUFFICES /\ UNCHANGED ledger /\ DOMAIN paging' = Users
                 /\ \A v \in Users \ {u} : paging'[v] = paging[v]
                 /\ PagedSoFar(paging'[u], ledger)
    BY DEF PagesInv
  <2>2. /\ UNCHANGED ledger /\ DOMAIN paging' = Users
        /\ \A v \in Users \ {u} : paging'[v] = paging[v]
    BY <1>3, OneReader DEF PagesInv
  <2>3. PagedSoFar(p, ledger) /\ ledger \in Seq(EntryRow)
    BY DEF PagesInv
  <2>4. ASSUME NEW q \in Asks, AskLedger(u, q) PROVE PagedSoFar(paging'[u], ledger)
    <3> DEFINE new == [Closed EXCEPT !.step = "opened", !.ask = q, !.page = 1, !.book = ledger,
                         !.first = ledger, !.openings = OpeningBalances(ledger, q)]
    <3>1. paging'[u] = new
      BY <2>4 DEF AskLedger, PagesInv
    <3>2. /\ DOMAIN new = PageFields /\ new.page = 1 /\ new.step = "opened"
          /\ new.book = ledger /\ new.first = ledger /\ new.ask = q
      BY DEF Closed, PageFields
    <3> HIDE DEF new
    <3>3. Offset(1) = 0
      BY DEF ReportsAssumption, Offset
    <3>4. ASSUME NEW l \in LedgerRange(ledger, q) PROVE ~(Place(ledger, q, l) <= 0)
      <4> DEFINE before == {m \in LedgerRange(ledger, q) : UpTo(m, l)}
      <4>1. IsFiniteSet(before) /\ Place(ledger, q, l) = Cardinality(before)
        <5>1. before \subseteq PostedLines(ledger)
          BY DEF LedgerRange, UntilLastDay, Matching
        <5> HIDE DEF before
        <5>2. IsFiniteSet(before)
          BY <2>3, <5>1, LinesAreFinite, FS_Subset
        <5> QED BY <5>2 DEF Place, before
      <4>2. UpTo(l, l)
        <5>1. l \in PostedLines(ledger)
          BY <3>4 DEF LedgerRange, UntilLastDay, Matching
        <5>2. PICK i \in DOMAIN ledger, no \in 1..2 : l = LineOf(ledger[i], i, no)
          BY <5>1 DEF PostedLines
        <5> QED BY <5>2 DEF UpTo, LineOf
      <4>3. before # {}
        BY <3>4, <4>2
      <4> HIDE DEF before
      <4>4. Cardinality(before) \in Nat /\ Cardinality(before) # 0
        BY <4>1, <4>3, FS_CardinalityType, FS_EmptySet
      <4> QED BY <4>1, <4>4
    <3> QED BY <3>1, <3>2, <3>3, <3>4 DEF PagedSoFar
  <2>5. ASSUME TotalLedger(u) PROVE PagedSoFar(paging'[u], ledger)
    <3>1. /\ p.step = "opened"
          /\ paging'[u] = [p EXCEPT !.step = "totalled", !.totals = LedgerTotals(ledger, p.ask)]
      BY <2>5 DEF TotalLedger, PagesInv
    <3>2. LedgerTotals(ledger, p.ask).count = Cardinality(LedgerRange(ledger, p.ask))
      BY DEF LedgerTotals
    <3>3. PostedLines(p.book) \subseteq PostedLines(ledger)
      BY <2>3, <3>1 DEF PagedSoFar
    <3>4. /\ LedgerRange(p.book, p.ask) \subseteq LedgerRange(ledger, p.ask)
          /\ LedgerRange(ledger, p.ask) \subseteq PostedLines(ledger)
      BY <3>3 DEF LedgerRange, UntilLastDay, Matching
    <3>5. /\ Cardinality(LedgerRange(ledger, p.ask)) \in Nat
          /\ Cardinality(LedgerRange(p.book, p.ask)) <= Cardinality(LedgerRange(ledger, p.ask))
      <4>1. IsFiniteSet(LedgerRange(ledger, p.ask))
        BY <2>3, <3>4, LinesAreFinite, FS_Subset
      <4> QED BY <3>4, <4>1, FS_CardinalityType, FS_Subset
    <3>6. /\ DOMAIN paging'[u] = PageFields /\ paging'[u].page = p.page /\ paging'[u].ask = p.ask
          /\ paging'[u].first = p.first /\ paging'[u].book = p.book /\ paging'[u].seen = p.seen
          /\ paging'[u].step = "totalled"
          /\ paging'[u].totals.count = Cardinality(LedgerRange(ledger, p.ask))
      BY <2>3, <3>1, <3>2 DEF PagedSoFar, PageFields
    <3> QED BY <2>3, <3>1, <3>5, <3>6 DEF PagedSoFar
  <2>6. ASSUME ShowLedger(u) PROVE PagedSoFar(paging'[u], ledger)
    BY <2>6, ShowingPages
  <2>7. ASSUME NextPage(u) PROVE PagedSoFar(paging'[u], ledger)
    <3>1. /\ p.step \in {"shown", "torn"}
          /\ paging'[u] = [p EXCEPT !.step = "opened", !.page = @ + 1, !.book = ledger,
                              !.items = {}, !.openings = OpeningBalances(ledger, p.ask)]
      BY <2>7 DEF NextPage, PagesInv
    <3>2. /\ DOMAIN paging'[u] = PageFields /\ paging'[u].page = p.page + 1 /\ paging'[u].ask = p.ask
          /\ paging'[u].first = p.first /\ paging'[u].book = ledger /\ paging'[u].seen = p.seen
          /\ paging'[u].step = "opened"
      BY <2>3, <3>1 DEF PagedSoFar, PageFields
    <3>3. p.page \in Nat /\ Offset(p.page + 1) = p.page * PageSize
      BY <2>3, Offsets DEF PagedSoFar
    <3> QED BY <2>3, <3>1, <3>2, <3>3 DEF PagedSoFar
  <2>8. ASSUME CloseLedger(u) PROVE PagedSoFar(paging'[u], ledger)
    <3>1. paging'[u] = Closed
      BY <2>8 DEF CloseLedger, PagesInv
    <3> QED BY <3>1 DEF PagedSoFar, Closed, PageFields
  <2> QED BY <1>3, <2>2, <2>4, <2>5, <2>6, <2>7, <2>8 DEF Pages
<1>4. ASSUME NEW o \in Offices, Draws(o) PROVE UNCHANGED <<ledger, paging>>
  BY <1>4 DEF Draws, MissCache, ReadTotal, CacheStatement
<1>5. CASE UNCHANGED reportVars
  BY <1>5 DEF reportVars, PagesInv
<1> QED BY <1>1, <1>2, <1>3, <1>4, <1>5
         DEF ReportsNext, LedgerNext, StatementsNext, BumpReports, ExpireStatement, LinkAccount

(* Who pages to the end has seen every line of the start.                   *)
THEOREM PagesShowEverything == ReportsSpec => []PagesMissNothing
<1>1. ReportsInit => PagesInv
  BY DEF ReportsInit, PagesInv, PagedSoFar, Closed, PageFields
<1>2. PagesInv => PagesMissNothing
  BY DEF PagesInv, PagedSoFar, PagesMissNothing
<1> QED BY <1>1, <1>2, PagesInvStep, ReportsAssumption, PTL DEF ReportsSpec
-----------------------------------------------------------------------------
(* Sums over lines, and what the lines of an entry add up to.               *)
AllLines == [date : Nat, entry : Nat, no : 1..2, account : Accounts, debit : Nat, credit : Nat]
DebitOf == [l \in AllLines |-> l.debit]
CreditOf == [l \in AllLines |-> l.credit]
NetLine == [l \in AllLines |-> l.debit - l.credit]

LEMMA DebitsAre ==
    ASSUME NEW S \in SUBSET AllLines, IsFiniteSet(S)
    PROVE  Debits(S) = SumIn(DebitOf, S) /\ Debits(S) \in Int
<1> DEFINE f == CHOOSE g : g = [s \in SUBSET S |->
                   IF s = {} THEN 0 ELSE Chosen(s).debit + g[s \ {Chosen(s)}]]
<1>1. Debits(S) = f[S]
  BY DEF Debits, MapThenSumSet, MapThenFoldSet, Chosen
<1>2. PICK h : AddsUp(h, DebitOf, S)
  BY SomeWayToAddUp
<1>3. \A s \in SUBSET S : s # {} => DebitOf[Chosen(s)] = Chosen(s).debit
  BY ChosenIsIn DEF DebitOf
<1>4. h = [s \in SUBSET S |-> IF s = {} THEN 0 ELSE Chosen(s).debit + h[s \ {Chosen(s)}]]
  BY <1>2, <1>3 DEF AddsUp
<1>5. f = [s \in SUBSET S |-> IF s = {} THEN 0 ELSE Chosen(s).debit + f[s \ {Chosen(s)}]]
  BY <1>4
<1> HIDE DEF f
<1>6. AddsUp(f, DebitOf, S)
  BY <1>3, <1>5 DEF AddsUp
<1>7. \A l \in S : DebitOf[l] \in Int
  BY DEF DebitOf, AllLines
<1> QED BY <1>1, <1>6, <1>7, SumIs, SumIsInt

LEMMA CreditsAre ==
    ASSUME NEW S \in SUBSET AllLines, IsFiniteSet(S)
    PROVE  Credits(S) = SumIn(CreditOf, S) /\ Credits(S) \in Int
<1> DEFINE f == CHOOSE g : g = [s \in SUBSET S |->
                   IF s = {} THEN 0 ELSE Chosen(s).credit + g[s \ {Chosen(s)}]]
<1>1. Credits(S) = f[S]
  BY DEF Credits, MapThenSumSet, MapThenFoldSet, Chosen
<1>2. PICK h : AddsUp(h, CreditOf, S)
  BY SomeWayToAddUp
<1>3. \A s \in SUBSET S : s # {} => CreditOf[Chosen(s)] = Chosen(s).credit
  BY ChosenIsIn DEF CreditOf
<1>4. h = [s \in SUBSET S |-> IF s = {} THEN 0 ELSE Chosen(s).credit + h[s \ {Chosen(s)}]]
  BY <1>2, <1>3 DEF AddsUp
<1>5. f = [s \in SUBSET S |-> IF s = {} THEN 0 ELSE Chosen(s).credit + f[s \ {Chosen(s)}]]
  BY <1>4
<1> HIDE DEF f
<1>6. AddsUp(f, CreditOf, S)
  BY <1>3, <1>5 DEF AddsUp
<1>7. \A l \in S : CreditOf[l] \in Int
  BY DEF CreditOf, AllLines
<1> QED BY <1>1, <1>6, <1>7, SumIs, SumIsInt

LEMMA NetIs ==
    ASSUME NEW S \in SUBSET AllLines, IsFiniteSet(S)
    PROVE  /\ NetOf(S) = SumIn(NetLine, S) /\ NetOf(S) \in Int
           /\ NetOf(S) = Debits(S) - Credits(S) /\ \A l \in S : NetLine[l] \in Int
<1>1. \A l \in S : /\ DebitOf[l] \in Int /\ CreditOf[l] \in Int
                   /\ NetLine[l] = DebitOf[l] - CreditOf[l] /\ NetLine[l] \in Int
  BY DEF DebitOf, CreditOf, NetLine, AllLines
<1>2. SumIn(NetLine, S) = SumIn(DebitOf, S) - SumIn(CreditOf, S)
  BY <1>1, SumOfDifference
<1> QED BY <1>1, <1>2, DebitsAre, CreditsAre DEF NetOf

(* The net of two sets that share no line.                                  *)
LEMMA NetOfUnion ==
    ASSUME NEW S \in SUBSET AllLines, IsFiniteSet(S), NEW T \in SUBSET AllLines, IsFiniteSet(T),
           S \cap T = {}
    PROVE  NetOf(S \cup T) = NetOf(S) + NetOf(T)
<1>1. IsFiniteSet(S \cup T) /\ S \cup T \in SUBSET AllLines
  BY FS_Union
<1>2. \A l \in S \cup T : NetLine[l] \in Int
  BY <1>1, NetIs
<1>3. SumIn(NetLine, S \cup T) = SumIn(NetLine, S) + SumIn(NetLine, T)
  BY <1>2, SumOfUnion
<1> QED BY <1>1, <1>3, NetIs

(* A sum over lines is one over accounts.                                   *)
LEMMA ByAccount ==
    ASSUME NEW S \in SUBSET AllLines, IsFiniteSet(S),
           NEW K, IsFiniteSet(K), \A l \in S : l.account \in K
    PROVE  /\ \A k : OnAccount(k, S) \in SUBSET AllLines /\ IsFiniteSet(OnAccount(k, S))
           /\ SumIn([k \in K |-> NetOf(OnAccount(k, S))], K) = NetOf(S)
           /\ SumIn([k \in K |-> Debits(OnAccount(k, S))], K) = Debits(S)
           /\ SumIn([k \in K |-> Credits(OnAccount(k, S))], K) = Credits(S)
<1> DEFINE f == [l \in S |-> l.account]
           Of(k) == {l \in S : f[l] = k}
<1>1. \A l \in S : /\ f[l] \in K /\ DebitOf[l] \in Int /\ CreditOf[l] \in Int /\ NetLine[l] \in Int
  BY DEF DebitOf, CreditOf, NetLine, AllLines
<1>2. \A k : Of(k) = OnAccount(k, S)
  BY DEF OnAccount
<1>3. \A k : OnAccount(k, S) \in SUBSET AllLines /\ IsFiniteSet(OnAccount(k, S))
  <2>1. \A k : OnAccount(k, S) \subseteq S
    BY DEF OnAccount
  <2> QED BY <2>1, FS_Subset
<1> HIDE DEF f
<1>4. SumIn([k \in K |-> NetOf(OnAccount(k, S))], K) = SumIn(NetLine, S)
  <2> DEFINE g == [k \in K |-> NetOf(OnAccount(k, S))]
  <2>1. \A k \in K : g[k] = SumIn(NetLine, {l \in S : f[l] = k})
    BY <1>2, <1>3, NetIs
  <2> HIDE DEF g
  <2>2. ByParts(g, NetLine, f, S, K)
    BY <2>1 DEF ByParts
  <2>3. SumIn(NetLine, S) = SumIn(g, K)
    BY <1>1, <2>2, SumByParts
  <2> QED BY <2>3 DEF g
<1>5. SumIn([k \in K |-> Debits(OnAccount(k, S))], K) = SumIn(DebitOf, S)
  <2> DEFINE g == [k \in K |-> Debits(OnAccount(k, S))]
  <2>1. \A k \in K : g[k] = SumIn(DebitOf, {l \in S : f[l] = k})
    BY <1>2, <1>3, DebitsAre
  <2> HIDE DEF g
  <2>2. ByParts(g, DebitOf, f, S, K)
    BY <2>1 DEF ByParts
  <2>3. SumIn(DebitOf, S) = SumIn(g, K)
    BY <1>1, <2>2, SumByParts
  <2> QED BY <2>3 DEF g
<1>6. SumIn([k \in K |-> Credits(OnAccount(k, S))], K) = SumIn(CreditOf, S)
  <2> DEFINE g == [k \in K |-> Credits(OnAccount(k, S))]
  <2>1. \A k \in K : g[k] = SumIn(CreditOf, {l \in S : f[l] = k})
    BY <1>2, <1>3, CreditsAre
  <2> HIDE DEF g
  <2>2. ByParts(g, CreditOf, f, S, K)
    BY <2>1 DEF ByParts
  <2>3. SumIn(CreditOf, S) = SumIn(g, K)
    BY <1>1, <2>2, SumByParts
  <2> QED BY <2>3 DEF g
<1> QED BY <1>3, <1>4, <1>5, <1>6, NetIs, DebitsAre, CreditsAre

LEMMA LinesAreLines ==
    ASSUME NEW b \in Seq(EntryRow)
    PROVE  PostedLines(b) \in SUBSET AllLines /\ IsFiniteSet(PostedLines(b))
<1>1. ASSUME NEW l \in PostedLines(b) PROVE l \in AllLines
  <2>1. PICK i \in DOMAIN b, no \in 1..2 : l = LineOf(b[i], i, no)
    BY DEF PostedLines
  <2>2. b[i] \in EntryRow /\ i \in Nat
    OBVIOUS
  <2> QED BY <2>1, <2>2 DEF LineOf, EntryRow, AllLines
<1> QED BY <1>1, LinesAreFinite

(* Whole entries are even.                                                  *)
LEMMA EntriesAreEven ==
    ASSUME NEW b \in Seq(EntryRow), NEW S \in SUBSET PostedLines(b),
           \A l \in S : \A m \in PostedLines(b) : m.entry = l.entry => m \in S
    PROVE  NetOf(S) = 0 /\ Debits(S) = Credits(S)
<1> DEFINE K == DOMAIN b
           f == [l \in S |-> l.entry]
           g == [k \in K |-> SumIn(NetLine, {l \in S : f[l] = k})]
<1>1. IsFiniteSet(K)
  <2> DEFINE N == Len(b)
  <2>1. DOMAIN b = 1..N /\ N \in Int
    OBVIOUS
  <2> HIDE DEF N
  <2>2. IsFiniteSet(1..N)
    BY <2>1, FS_Interval
  <2> QED BY <2>1, <2>2
<1>2. S \in SUBSET AllLines /\ IsFiniteSet(S)
  BY LinesAreLines, FS_Subset
<1>3. \A l \in S : f[l] \in K /\ NetLine[l] \in Int
  <2>1. \A l \in S : l.entry \in K
    BY DEF PostedLines, LineOf
  <2> QED BY <1>2, <2>1, NetIs
<1>4. ASSUME NEW k \in K PROVE g[k] = 0
  <2> DEFINE P == {l \in S : f[l] = k}
             one == LineOf(b[k], k, 1)
             two == LineOf(b[k], k, 2)
  <2>1. b[k] \in EntryRow /\ k \in Nat
    OBVIOUS
  <2>2. /\ one \in AllLines /\ two \in AllLines /\ one # two
        /\ NetLine[one] = b[k].amount /\ NetLine[two] = 0 - b[k].amount
    BY <2>1 DEF LineOf, EntryRow, AllLines, NetLine
  <2>3. P = {} \/ P = {one, two}
    <3>1. ASSUME NEW l \in P PROVE l \in {one, two}
      <4>1. PICK i \in DOMAIN b, no \in 1..2 : l = LineOf(b[i], i, no) /\ i = l.entry
        BY DEF PostedLines, LineOf
      <4>2. i = k
        BY <4>1
      <4> QED BY <4>1, <4>2
    <3>2. ASSUME NEW l \in P PROVE one \in P /\ two \in P
      <4>1. PICK i \in {n \in DOMAIN b : b[n].posted}, no \in 1..2 : l = LineOf(b[i], i, no) /\ i = l.entry
        BY DEF PostedLines, LineOf
      <4>2. i = k
        BY <4>1
      <4>3. one \in PostedLines(b) /\ two \in PostedLines(b) /\ one.entry = k /\ two.entry = k
        BY <4>1, <4>2 DEF PostedLines, LineOf
      <4> QED BY <4>3
    <3> HIDE DEF P, one, two
    <3> QED BY <3>1, <3>2
  <2>4. CASE P = {}
    BY <2>4, SumOfParts, FS_EmptySet
  <2>5. CASE P = {one, two}
    <3>1. b[k].amount \in Nat
      BY <2>1 DEF EntryRow
    <3> HIDE DEF one, two, P
    <3>2. SumIn(NetLine, {}) = 0 /\ IsFiniteSet({}) /\ IsFiniteSet({one})
      BY SumOfParts, FS_EmptySet, FS_Singleton
    <3>3. SumIn(NetLine, {} \cup {one}) = NetLine[one] + SumIn(NetLine, {})
      BY <2>2, <3>1, <3>2, SumWith
    <3>4. {} \cup {one} = {one}
      OBVIOUS
    <3>5. SumIn(NetLine, {one} \cup {two}) = NetLine[two] + SumIn(NetLine, {one})
      <4>1. NetLine[one] \in Int /\ NetLine[two] \in Int
        BY <2>2, <3>1
      <4>2. (\A x \in {one} \cup {two} : NetLine[x] \in Int) /\ two \notin {one}
        BY <2>2, <4>1
      <4> QED BY <3>2, <4>2, SumWith
    <3>6. {one} \cup {two} = P
      BY <2>5
    <3>7. SumIn(NetLine, {one}) = NetLine[one] + 0
      BY <3>2, <3>3, <3>4
    <3>8. SumIn(NetLine, P) = NetLine[two] + (NetLine[one] + 0)
      BY <3>5, <3>6, <3>7
    <3>9. NetLine[two] + (NetLine[one] + 0) = 0
      BY <2>2, <3>1
    <3> QED BY <3>8, <3>9 DEF P
  <2> QED BY <2>3, <2>4, <2>5
<1>5. ByParts(g, NetLine, f, S, K)
  BY DEF ByParts
<1> HIDE DEF K, f, g
<1>6. SumIn(NetLine, S) = SumIn(g, K)
  BY <1>1, <1>2, <1>3, <1>5, SumByParts
<1>7. SumIn(g, K) = 0
  BY <1>1, <1>4, SumOfZeros
<1>8. /\ NetOf(S) = SumIn(NetLine, S) /\ NetOf(S) = Debits(S) - Credits(S)
      /\ Debits(S) \in Int /\ Credits(S) \in Int
  BY <1>2, NetIs, DebitsAre, CreditsAre
<1> QED BY <1>6, <1>7, <1>8

-----------------------------------------------------------------------------
(* What the reports say of a book.  The lines of a range of codes, and those *)
(* among them that come before the first day.                                *)
CodeLines(b, q, codes) == {l \in UntilLastDay(q, PostedLines(b)) : l.account \in codes}
CodeOpening(b, q, codes) == BeforeRange(q, CodeLines(b, q, codes))

LEMMA CodeLinesAreLines ==
    ASSUME NEW b \in Seq(EntryRow), NEW q, NEW codes
    PROVE  /\ CodeLines(b, q, codes) \in SUBSET PostedLines(b)
           /\ CodeLines(b, q, codes) \in SUBSET AllLines /\ IsFiniteSet(CodeLines(b, q, codes))
           /\ CodeOpening(b, q, codes) \in SUBSET CodeLines(b, q, codes)
           /\ IsFiniteSet(CodeOpening(b, q, codes))
           /\ IsFiniteSet(CodeLines(b, q, codes) \ CodeOpening(b, q, codes))
<1>1. /\ CodeLines(b, q, codes) \subseteq PostedLines(b)
      /\ CodeOpening(b, q, codes) \subseteq CodeLines(b, q, codes)
  BY DEF CodeLines, CodeOpening, UntilLastDay, BeforeRange
<1>2. PostedLines(b) \in SUBSET AllLines /\ IsFiniteSet(PostedLines(b))
  BY LinesAreLines
<1>3. IsFiniteSet(CodeLines(b, q, codes))
  BY <1>1, <1>2, FS_Subset
<1>4. /\ IsFiniteSet(CodeOpening(b, q, codes))
      /\ IsFiniteSet(CodeLines(b, q, codes) \ CodeOpening(b, q, codes))
  <2>1. CodeLines(b, q, codes) \ CodeOpening(b, q, codes) \subseteq CodeLines(b, q, codes)
    OBVIOUS
  <2> QED BY <1>1, <1>3, <2>1, FS_Subset
<1> QED BY <1>1, <1>2, <1>3, <1>4

(* The lines of an account, split in two.                                    *)
LEMMA NetOfAccount ==
    ASSUME NEW S \in SUBSET AllLines, IsFiniteSet(S), NEW T \in SUBSET AllLines, IsFiniteSet(T),
           S \cap T = {}, NEW a
    PROVE  /\ NetOf(OnAccount(a, S \cup T)) = NetOf(OnAccount(a, S)) + NetOf(OnAccount(a, T))
           /\ NetOf(OnAccount(a, S \cup T)) \in Int /\ NetOf(OnAccount(a, T)) \in Int
<1> DEFINE U == OnAccount(a, S)
           V == OnAccount(a, T)
<1>1. OnAccount(a, S \cup T) = U \cup V /\ U \subseteq S /\ V \subseteq T /\ U \cap V = {}
  BY DEF OnAccount
<1>2. IsFiniteSet(U) /\ IsFiniteSet(V) /\ U \in SUBSET AllLines /\ V \in SUBSET AllLines
  BY <1>1, FS_Subset
<1> HIDE DEF U, V
<1>3. NetOf(U \cup V) = NetOf(U) + NetOf(V) /\ NetOf(U) \in Int /\ NetOf(V) \in Int
  BY <1>1, <1>2, NetOfUnion, NetIs
<1>4. /\ NetOf(OnAccount(a, S \cup T)) = NetOf(U) + NetOf(V)
      /\ NetOf(OnAccount(a, S \cup T)) \in Int /\ NetOf(V) \in Int
  <2>1. OnAccount(a, S \cup T) = U \cup V
    BY <1>1
  <2>2. NetOf(OnAccount(a, S \cup T)) = NetOf(U \cup V)
    BY <2>1, Zenon
  <2> QED BY <1>3, <2>2
<1> QED BY <1>4 DEF U, V

(* The columns of the trial balance.                                         *)
LEMMA TrialIs ==
    ASSUME ReportsAssumption, NEW b \in Seq(EntryRow), NEW q, NEW codes
    PROVE  /\ ClosingOf(TrialBalance(b, q, codes)) = NetOf(CodeLines(b, q, codes))
           /\ \A l \in CodeLines(b, q, codes) :
                 TrialBalance(b, q, codes)[l.account].closing
                     = NetOf(OnAccount(l.account, CodeLines(b, q, codes)))
           /\ SumFunction([a \in DOMAIN TrialBalance(b, q, codes) |-> TrialBalance(b, q, codes)[a].debit])
                  = Debits(CodeLines(b, q, codes) \ CodeOpening(b, q, codes))
           /\ SumFunction([a \in DOMAIN TrialBalance(b, q, codes) |-> TrialBalance(b, q, codes)[a].credit])
                  = Credits(CodeLines(b, q, codes) \ CodeOpening(b, q, codes))
<1> DEFINE report == TrialBalance(b, q, codes)
           L == CodeLines(b, q, codes)
           B == CodeOpening(b, q, codes)
           K == {l.account : l \in L}
<1>1. /\ DOMAIN report = K
      /\ \A a \in K : /\ report[a].closing = NetOf(OnAccount(a, B)) + NetOf(OnAccount(a, L \ B))
                      /\ report[a].debit = Debits(OnAccount(a, L \ B))
                      /\ report[a].credit = Credits(OnAccount(a, L \ B))
  BY DEF TrialBalance, CodeLines, CodeOpening
<1>2. /\ L \in SUBSET AllLines /\ IsFiniteSet(L) /\ B \in SUBSET L /\ IsFiniteSet(B)
      /\ IsFiniteSet(L \ B)
  BY CodeLinesAreLines
<1>3. IsFiniteSet(K) /\ \A l \in L : l.account \in K
  <2>1. K \subseteq Accounts
    BY <1>2 DEF AllLines
  <2> QED BY <2>1, FS_Subset DEF ReportsAssumption
<1> HIDE DEF report, L, B, K
<1>4. \A a : NetOf(OnAccount(a, L)) = NetOf(OnAccount(a, B)) + NetOf(OnAccount(a, L \ B))
  <2>1. B \cup (L \ B) = L /\ B \cap (L \ B) = {} /\ B \in SUBSET AllLines /\ L \ B \in SUBSET AllLines
    BY <1>2
  <2> QED BY <1>2, <2>1, NetOfAccount
<1>5. \A a \in K : report[a].closing = NetOf(OnAccount(a, L))
  BY <1>1, <1>4
<1>6. ClosingOf(report) = NetOf(L)
  <2> DEFINE f == [a \in DOMAIN report |-> report[a].closing]
             g == [a \in K |-> NetOf(OnAccount(a, L))]
  <2>1. f = g /\ DOMAIN f = K
    BY <1>1, <1>5
  <2>2. ClosingOf(report) = SumFunction(f)
    BY DEF ClosingOf
  <2>3. SumIn(g, K) = NetOf(L)
    BY <1>2, <1>3, ByAccount
  <2> HIDE DEF f, g
  <2> QED BY <2>1, <2>2, <2>3, ColumnSum
<1>7. /\ SumFunction([a \in DOMAIN report |-> report[a].debit]) = Debits(L \ B)
      /\ SumFunction([a \in DOMAIN report |-> report[a].credit]) = Credits(L \ B)
  <2> DEFINE f == [a \in DOMAIN report |-> report[a].debit]
             g == [a \in K |-> Debits(OnAccount(a, L \ B))]
             h == [a \in DOMAIN report |-> report[a].credit]
             i == [a \in K |-> Credits(OnAccount(a, L \ B))]
  <2>1. f = g /\ DOMAIN f = K /\ h = i /\ DOMAIN h = K
    BY <1>1
  <2>2. SumIn(g, K) = Debits(L \ B) /\ SumIn(i, K) = Credits(L \ B)
    <3>1. L \ B \in SUBSET AllLines /\ \A l \in L \ B : l.account \in K
      BY <1>2, <1>3
    <3> QED BY <1>2, <1>3, <3>1, ByAccount
  <2>3. SumFunction(f) = SumIn(f, DOMAIN f) /\ SumFunction(h) = SumIn(h, DOMAIN h)
    BY ColumnSum
  <2> HIDE DEF f, g, h, i
  <2>4. SumFunction(f) = Debits(L \ B) /\ SumFunction(h) = Credits(L \ B)
    BY <2>1, <2>2, <2>3
  <2> QED BY <2>4 DEF f, h
<1>8. \A l \in L : report[l.account].closing = NetOf(OnAccount(l.account, L))
  BY <1>3, <1>5
<1> QED BY <1>6, <1>7, <1>8 DEF report, L, B

(* The trial balance of the whole chart passes its control.                  *)
LEMMA TheControlPasses ==
    ASSUME ReportsAssumption, NEW b \in Seq(EntryRow), NEW q
    PROVE  ControlPasses(TrialBalance(b, q, Accounts))
<1> DEFINE L == CodeLines(b, q, Accounts)
           B == CodeOpening(b, q, Accounts)
           report == TrialBalance(b, q, Accounts)
<1>1. \A l \in PostedLines(b), m \in PostedLines(b) :
         m.entry = l.entry => m.date = l.date /\ m.account \in Accounts
  <2>1. ASSUME NEW l \in PostedLines(b), NEW m \in PostedLines(b), m.entry = l.entry
        PROVE  m.date = l.date
    <3>1. PICK i \in DOMAIN b, no \in 1..2 : l = LineOf(b[i], i, no)
      BY DEF PostedLines
    <3>2. PICK j \in DOMAIN b, other \in 1..2 : m = LineOf(b[j], j, other)
      BY DEF PostedLines
    <3>3. /\ l.entry = i /\ l.date = b[i].date /\ m.entry = j /\ m.date = b[j].date
      BY <3>1, <3>2 DEF LineOf
    <3> QED BY <2>1, <3>3
  <2>2. \A m \in PostedLines(b) : m.account \in Accounts
    BY LinesAreLines DEF AllLines
  <2> QED BY <2>1, <2>2
<1>2. L \in SUBSET PostedLines(b) /\ B \in SUBSET L
  BY CodeLinesAreLines
<1>3. \A l \in L : \A m \in PostedLines(b) : m.entry = l.entry => m \in L
  BY <1>1, <1>2 DEF CodeLines, UntilLastDay
<1>4. \A l \in L \ B : \A m \in PostedLines(b) : m.entry = l.entry => m \in L \ B
  <2>1. ASSUME NEW l \in L \ B, NEW m \in PostedLines(b), m.entry = l.entry PROVE m \in L \ B
    <3>1. m \in L /\ m.date = l.date
      BY <1>1, <1>2, <1>3, <2>1
    <3>2. l \in L /\ ~(FirstDay(q) # None /\ l.date < FirstDay(q))
      BY DEF CodeOpening, BeforeRange
    <3> QED BY <3>1, <3>2 DEF CodeOpening, BeforeRange
  <2> QED BY <2>1
<1> HIDE DEF L, B
<1>5. NetOf(L) = 0
  BY <1>2, <1>3, EntriesAreEven
<1>6. Debits(L \ B) = Credits(L \ B)
  <2>1. L \ B \in SUBSET PostedLines(b)
    BY <1>2
  <2> QED BY <1>4, <2>1, EntriesAreEven
<1>7. /\ ClosingOf(report) = 0
      /\ SumFunction([a \in DOMAIN report |-> report[a].debit])
             = SumFunction([a \in DOMAIN report |-> report[a].credit])
  BY <1>5, <1>6, TrialIs DEF L, B
<1> HIDE DEF report
<1> QED BY <1>7 DEF ControlPasses, ClosingOf, report

(* A range has days that are numbers, and lines that come last.              *)
LEMMA DaysAreDays ==
    ASSUME ReportsAssumption, NEW q \in Asks, ~RangeRefused(q)
    PROVE  FirstDay(q) \in Int /\ LastDay(q) \in Int
<1>1. q.from \in Nat /\ q.to \in Nat
  BY DEF ReportsAssumption
<1>2. q.year # None => {FiscalYears[q.year].first, FiscalYears[q.year].last} \subseteq Nat
  BY DEF ReportsAssumption, RangeRefused
<1>3. \A m \in Nat, n \in Nat : Max({m, n}) \in Nat /\ Min({m, n}) \in Nat
  <2>1. ASSUME NEW m \in Nat, NEW n \in Nat PROVE Max({m, n}) \in Nat /\ Min({m, n}) \in Nat
    <3>1. \E x \in {m, n} : \A y \in {m, n} : x >= y
      OBVIOUS
    <3>2. \E x \in {m, n} : \A y \in {m, n} : x <= y
      OBVIOUS
    <3> QED BY <3>1, <3>2 DEF Max, Min
  <2> QED BY <2>1
<1>4. CASE q.year = None
  BY <1>1, <1>4 DEF FirstDay, LastDay
<1>5. CASE q.year # None
  <2>1. PICK m \in Nat, n \in Nat : m = FiscalYears[q.year].first /\ n = FiscalYears[q.year].last
    BY <1>2, <1>5
  <2>2. FirstDay(q) = Max({q.from, m})
    BY <1>5, <2>1 DEF FirstDay
  <2>3. LastDay(q) = IF q.to = None THEN n ELSE Min({q.to, n})
    BY <1>5, <2>1 DEF LastDay
  <2>4. Max({q.from, m}) \in Nat /\ Min({q.to, n}) \in Nat
    BY <1>1, <1>3
  <2> QED BY <2>2, <2>3, <2>4
<1> QED BY <1>4, <1>5

LEMMA SomeLineIsLast ==
    ASSUME NEW S \in SUBSET AllLines, IsFiniteSet(S), S # {}
    PROVE  \E l \in S : \A m \in S : UpTo(m, l)
<1> DEFINE After(l) == {m \in S : ~UpTo(m, l)}
           C == {After(l) : l \in S}
<1>1. PICK D \in C : \A E \in C : E \subseteq D => E = D
  <2>1. C \subseteq SUBSET S /\ C # {}
    OBVIOUS
  <2> HIDE DEF C
  <2> QED BY <2>1, SmallestPart
<1>2. PICK l \in S : D = After(l)
  OBVIOUS
<1>3. ASSUME NEW m \in D PROVE FALSE
  <2>1. m \in S /\ ~UpTo(m, l)
    BY <1>2
  <2>2. UpTo(m, m) /\ UpTo(l, m)
    BY <2>1 DEF UpTo, AllLines
  <2>3. ASSUME NEW x \in After(m) PROVE x \in After(l)
    <3>1. x \in AllLines /\ m \in AllLines /\ l \in AllLines
      BY <2>1
    <3>2. UpTo(x, l) => UpTo(x, m)
      BY <2>2, <3>1 DEF UpTo, AllLines
    <3> QED BY <3>2
  <2>4. After(m) \in C /\ After(m) \subseteq D /\ m \notin After(m)
    BY <1>2, <2>1, <2>2, <2>3
  <2> QED BY <1>1, <2>4
<1>4. \A m \in S : UpTo(m, l)
  BY <1>2, <1>3
<1> QED BY <1>4

(* The general ledger of a book closes where the book's trial balance does. *)
CodesOf(q) == IF q.account = None THEN Accounts ELSE {q.account}

LEMMA LedgerCloses ==
    ASSUME ReportsAssumption, NEW b \in Seq(EntryRow), NEW q \in Asks, ~RangeRefused(q), ~NoDays(q)
    PROVE  /\ ClosingOf(TrialBalance(b, q, CodesOf(q)))
                  = SumFunction(OpeningBalances(b, q)) + LedgerTotals(b, q).debit
                        - LedgerTotals(b, q).credit
           /\ \A page, i : /\ i \in LedgerPage(b, q, page, OpeningBalances(b, q))
                           /\ i.line = LastOf(i.line.account, LedgerRange(b, q))
                 => i.balance = TrialBalance(b, q, CodesOf(q))[i.line.account].closing
<1> DEFINE L == CodeLines(b, q, CodesOf(q))
           B == BeforeRange(q, Matching(b, q))
           R == LedgerRange(b, q)
           O == OpeningBalances(b, q)
<1>1. /\ L \in SUBSET AllLines /\ IsFiniteSet(L)
  BY CodeLinesAreLines
<1>2. L = B \cup R /\ B \cap R = {}
  <2>1. \A l \in PostedLines(b) : l.date \in Int /\ l.account \in Accounts
    BY LinesAreLines DEF AllLines
  <2>2. FirstDay(q) \in Int /\ LastDay(q) \in Int /\ None = 0
    BY DaysAreDays DEF ReportsAssumption
  <2>3. \A l \in PostedLines(b) : l.account \in CodesOf(q) <=> (q.account = None \/ l.account = q.account)
    BY <2>1 DEF CodesOf
  <2>4. ASSUME NEW l
        PROVE  /\ l \in L <=> l \in B \/ l \in R
               /\ ~(l \in B /\ l \in R)
    <3>1. l \in L <=> /\ l \in PostedLines(b) /\ (LastDay(q) # None => l.date <= LastDay(q))
                     /\ l.account \in CodesOf(q)
      BY DEF CodeLines, UntilLastDay
    <3>2. l \in B <=> /\ l \in PostedLines(b) /\ (q.account = None \/ l.account = q.account)
                     /\ FirstDay(q) # None /\ l.date < FirstDay(q)
      BY DEF BeforeRange, Matching
    <3>3. l \in R <=> /\ l \in PostedLines(b) /\ (q.account = None \/ l.account = q.account)
                     /\ (LastDay(q) # None => l.date <= LastDay(q))
                     /\ (FirstDay(q) # None => l.date >= FirstDay(q))
      BY DEF LedgerRange, UntilLastDay, Matching
    <3> HIDE DEF L, B, R
    <3>4. CASE l \in PostedLines(b)
      <4>1. l.date \in Int
        BY <2>1, <3>4
      <4> QED BY <2>2, <2>3, <3>1, <3>2, <3>3, <3>4, <4>1 DEF NoDays
    <3>5. CASE l \notin PostedLines(b)
      BY <3>1, <3>2, <3>3, <3>5
    <3> QED BY <3>4, <3>5
  <2> HIDE DEF L, B, R
  <2> QED BY <2>4
<1>3. /\ B \in SUBSET AllLines /\ IsFiniteSet(B) /\ R \in SUBSET AllLines /\ IsFiniteSet(R)
  <2> HIDE DEF L, B, R
  <2>1. B \subseteq L /\ R \subseteq L
    BY <1>2
  <2> QED BY <1>1, <2>1, FS_Subset
<1>4. SumFunction(O) = NetOf(B)
  <2>1. O = [a \in Accounts |-> NetOf(OnAccount(a, B))]
    BY DEF OpeningBalances
  <2>2. \A l \in B : l.account \in Accounts
    BY <1>3 DEF AllLines
  <2>3. IsFiniteSet(Accounts)
    BY DEF ReportsAssumption
  <2> DEFINE g == [a \in Accounts |-> NetOf(OnAccount(a, B))]
  <2> HIDE DEF B
  <2>4. SumIn(g, Accounts) = NetOf(B) /\ DOMAIN g = Accounts
    BY <1>3, <2>2, <2>3, ByAccount
  <2> HIDE DEF g, O
  <2>5. O = g
    BY <2>1 DEF g
  <2> QED BY <2>4, <2>5, ColumnSum
<1>5. ClosingOf(TrialBalance(b, q, CodesOf(q))) = NetOf(L)
  BY TrialIs
<1>6. NetOf(R) = LedgerTotals(b, q).debit - LedgerTotals(b, q).credit
  BY DEF LedgerTotals, NetOf
<1>7. /\ NetOf(L) = NetOf(B) + NetOf(R) /\ NetOf(B) \in Int /\ NetOf(R) \in Int
      /\ Debits(R) \in Int /\ Credits(R) \in Int
  <2> HIDE DEF L, B, R
  <2>1. NetOf(B \cup R) = NetOf(B) + NetOf(R)
    BY <1>2, <1>3, NetOfUnion
  <2>2. NetOf(L) = NetOf(B \cup R)
    BY <1>2, Zenon
  <2> QED BY <1>3, <2>1, <2>2, NetIs, DebitsAre, CreditsAre
<1>8. ASSUME NEW page, NEW i \in LedgerPage(b, q, page, O), i.line = LastOf(i.line.account, R)
      PROVE  i.balance = TrialBalance(b, q, CodesOf(q))[i.line.account].closing
  <2> DEFINE l == i.line
             a == i.line.account
             A == OnAccount(a, R)
  <2>1. l \in R /\ i.balance = O[a] + NetOf({m \in A : UpTo(m, l)})
    <3>1. PICK m \in R : i = [line |-> m, balance |-> O[m.account]
                                             + NetOf({k \in OnAccount(m.account, R) : UpTo(k, m)})]
      BY <1>8 DEF LedgerPage
    <3>2. /\ i.line = m
          /\ i.balance = O[m.account] + NetOf({k \in OnAccount(m.account, R) : UpTo(k, m)})
      BY <3>1
    <3> HIDE DEF O, R
    <3> QED BY <3>2
  <2>2. A \in SUBSET AllLines /\ IsFiniteSet(A) /\ l \in A
    <3>1. A \subseteq R /\ l \in A
      BY <2>1 DEF OnAccount
    <3> QED BY <1>3, <3>1, FS_Subset
  <2>3. \A m \in A : UpTo(m, l)
    <3>1. l = CHOOSE x \in A : \A m \in A : UpTo(m, x)
      BY <1>8 DEF LastOf
    <3> HIDE DEF A, l
    <3>2. \E x \in A : \A m \in A : UpTo(m, x)
      BY <2>2, SomeLineIsLast
    <3> QED BY <3>1, <3>2
  <2>4. {m \in A : UpTo(m, l)} = A
    BY <2>3
  <2>5. O[a] = NetOf(OnAccount(a, B))
    <3>1. a \in Accounts
      BY <1>3, <2>1 DEF AllLines
    <3> QED BY <3>1 DEF OpeningBalances
  <2>6. i.balance = NetOf(OnAccount(a, B)) + NetOf(A)
    <3> HIDE DEF A, B, l, a, O
    <3>1. NetOf({m \in A : UpTo(m, l)}) = NetOf(A)
      BY <2>4, Zenon
    <3> QED BY <2>1, <2>5, <3>1
  <2>7. NetOf(OnAccount(a, L)) = NetOf(OnAccount(a, B)) + NetOf(OnAccount(a, R))
    <3> HIDE DEF L, B, R, a
    <3>1. NetOf(OnAccount(a, B \cup R)) = NetOf(OnAccount(a, B)) + NetOf(OnAccount(a, R))
      BY <1>2, <1>3, NetOfAccount
    <3>2. NetOf(OnAccount(a, L)) = NetOf(OnAccount(a, B \cup R))
      BY <1>2, Zenon
    <3> QED BY <3>1, <3>2
  <2>8. TrialBalance(b, q, CodesOf(q))[l.account].closing = NetOf(OnAccount(l.account, L))
    <3>1. l \in L
      <4> HIDE DEF L, B, R, l
      <4> QED BY <1>2, <2>1
    <3> QED BY <3>1, TrialIs
  <2> QED BY <2>6, <2>7, <2>8
<1>9. ClosingOf(TrialBalance(b, q, CodesOf(q)))
         = SumFunction(O) + LedgerTotals(b, q).debit - LedgerTotals(b, q).credit
  <2>1. LedgerTotals(b, q).debit = Debits(R) /\ LedgerTotals(b, q).credit = Credits(R)
    BY DEF LedgerTotals
  <2> HIDE DEF L, B, R, O
  <2> QED BY <1>4, <1>5, <1>6, <1>7, <2>1
<1> QED BY <1>8, <1>9

(* A reader's page follows from a book: the openings from the book of the   *)
(* page's beginning; the totals from a later one, the same one unless torn. *)
PageOfABook(p, b) ==
    /\ p.step # "closed" => p.ask \in Asks /\ ~RangeRefused(p.ask) /\ p.book \in Seq(EntryRow)
    /\ p.step \in {"opened", "totalled", "shown"} => p.openings = OpeningBalances(p.book, p.ask)
    /\ p.step = "totalled" =>
          \E t \in Seq(EntryRow) :
             /\ PostedLines(p.book) \subseteq PostedLines(t) /\ PostedLines(t) \subseteq PostedLines(b)
             /\ p.totals = LedgerTotals(t, p.ask)
    /\ p.step = "shown" => /\ p.totals = LedgerTotals(p.book, p.ask)
                           /\ p.items = LedgerPage(p.book, p.ask, p.page, p.openings)
RangesInv == PagesInv /\ \A u \in Users : PageOfABook(paging[u], ledger)

LEMMA PageStep ==
    ASSUME ReportsAssumption, RangesInv, NEW u \in Users, Pages(u)
    PROVE  PageOfABook(paging'[u], ledger)
<1> DEFINE p == paging[u]
<1>1. /\ PagedSoFar(p, ledger) /\ PageOfABook(p, ledger) /\ ledger \in Seq(EntryRow)
      /\ DOMAIN paging = Users /\ DOMAIN p = PageFields
  BY DEF RangesInv, PagesInv, PagedSoFar
<1>2. ASSUME NEW q \in Asks, AskLedger(u, q) PROVE PageOfABook(paging'[u], ledger)
  <2> DEFINE new == [Closed EXCEPT !.step = "opened", !.ask = q, !.page = 1, !.book = ledger,
                       !.first = ledger, !.openings = OpeningBalances(ledger, q)]
  <2>1. paging'[u] = new /\ ~RangeRefused(q)
    BY <1>1, <1>2 DEF AskLedger
  <2>2. /\ new.step = "opened" /\ new.book = ledger /\ new.ask = q
        /\ new.openings = OpeningBalances(ledger, q)
    BY DEF Closed
  <2> HIDE DEF new
  <2> QED BY <1>1, <2>1, <2>2 DEF PageOfABook
<1>3. CASE TotalLedger(u)
  <2>1. /\ p.step = "opened"
        /\ paging'[u] = [p EXCEPT !.step = "totalled", !.totals = LedgerTotals(ledger, p.ask)]
    BY <1>1, <1>3 DEF TotalLedger
  <2>2. /\ paging'[u].step = "totalled" /\ paging'[u].totals = LedgerTotals(ledger, p.ask)
        /\ paging'[u].ask = p.ask /\ paging'[u].book = p.book /\ paging'[u].openings = p.openings
    BY <1>1, <2>1 DEF PageFields
  <2>3. PostedLines(p.book) \subseteq PostedLines(ledger)
    BY <1>1, <2>1 DEF PagedSoFar
  <2> QED BY <1>1, <2>1, <2>2, <2>3 DEF PageOfABook
<1>4. CASE ShowLedger(u)
  <2> DEFINE items == LedgerPage(ledger, p.ask, p.page, p.openings)
  <2>1. /\ p.step = "totalled"
        /\ paging'[u] = [p EXCEPT !.step = IF p.book = ledger THEN "shown" ELSE "torn",
                                  !.items = items, !.seen = @ \cup {i.line : i \in items}]
    BY <1>1, <1>4 DEF ShowLedger
  <2>2. /\ paging'[u].step = IF p.book = ledger THEN "shown" ELSE "torn"
        /\ paging'[u].totals = p.totals /\ paging'[u].items = items /\ paging'[u].page = p.page
        /\ paging'[u].ask = p.ask /\ paging'[u].book = p.book /\ paging'[u].openings = p.openings
    <3> HIDE DEF items
    <3> QED BY <1>1, <2>1 DEF PageFields
  <2>3. p.book = ledger => p.totals = LedgerTotals(p.book, p.ask)
    <3>1. PICK t \in Seq(EntryRow) :
             /\ PostedLines(p.book) \subseteq PostedLines(t)
             /\ PostedLines(t) \subseteq PostedLines(ledger)
             /\ p.totals = LedgerTotals(t, p.ask)
      BY <1>1, <2>1 DEF PageOfABook
    <3>2. SUFFICES ASSUME p.book = ledger PROVE LedgerTotals(t, p.ask) = LedgerTotals(p.book, p.ask)
      BY <3>1
    <3>3. PostedLines(t) = PostedLines(p.book)
      BY <3>1, <3>2
    <3>4. LedgerRange(t, p.ask) = LedgerRange(p.book, p.ask)
      BY <3>3 DEF LedgerRange, UntilLastDay, Matching
    <3> QED BY <3>4, Zenon DEF LedgerTotals
  <2> HIDE DEF items
  <2>4. p.book = ledger => items = LedgerPage(p.book, p.ask, p.page, p.openings)
    BY DEF items
  <2> QED BY <1>1, <2>1, <2>2, <2>3, <2>4 DEF PageOfABook
<1>5. CASE NextPage(u)
  <2>1. /\ p.step \in {"shown", "torn"}
        /\ paging'[u] = [p EXCEPT !.step = "opened", !.page = @ + 1, !.book = ledger,
                            !.items = {}, !.openings = OpeningBalances(ledger, p.ask)]
    BY <1>1, <1>5 DEF NextPage
  <2>2. /\ paging'[u].step = "opened" /\ paging'[u].ask = p.ask /\ paging'[u].book = ledger
        /\ paging'[u].openings = OpeningBalances(ledger, p.ask)
    BY <1>1, <2>1 DEF PageFields
  <2> QED BY <1>1, <2>1, <2>2 DEF PageOfABook
<1>6. CASE CloseLedger(u)
  <2>1. paging'[u] = Closed
    BY <1>1, <1>6 DEF CloseLedger
  <2> QED BY <2>1 DEF PageOfABook, Closed
<1> QED BY <1>2, <1>3, <1>4, <1>5, <1>6 DEF Pages

LEMMA RangesInvStep == ReportsAssumption /\ RangesInv /\ [ReportsNext]_reportVars => RangesInv'
<1> SUFFICES ASSUME ReportsAssumption, RangesInv, [ReportsNext]_reportVars PROVE RangesInv'
  OBVIOUS
<1>1. PagesInv'
  BY PagesInvStep DEF RangesInv
<1>2. CASE Posts
  <2>1. paging' = paging /\ PostedLines(ledger) \subseteq PostedLines(ledger')
    BY <1>2, PostingsAdd DEF RangesInv, PagesInv, Posts, DraftEntry, PostEntry
  <2>2. ASSUME NEW u \in Users PROVE PageOfABook(paging[u], ledger')
    <3>1. PageOfABook(paging[u], ledger)
      BY DEF RangesInv
    <3> QED BY <2>1, <3>1 DEF PageOfABook
  <2> QED BY <1>1, <2>1, <2>2 DEF RangesInv
<1>3. ASSUME NEW u \in Users, Pages(u) PROVE RangesInv'
  <2>1. /\ UNCHANGED ledger /\ \A v \in Users \ {u} : paging'[v] = paging[v]
    BY <1>3, OneReader DEF RangesInv, PagesInv
  <2>2. PageOfABook(paging'[u], ledger)
    BY <1>3, PageStep
  <2> QED BY <1>1, <2>1, <2>2 DEF RangesInv
<1>4. CASE UNCHANGED <<ledger, paging>>
  BY <1>1, <1>4 DEF RangesInv
<1>5. ASSUME NEW o \in Offices, Draws(o) PROVE UNCHANGED <<ledger, paging>>
  BY <1>5 DEF Draws, MissCache, ReadTotal, CacheStatement
<1> QED BY <1>2, <1>3, <1>4, <1>5
         DEF ReportsNext, LedgerNext, StatementsNext, BumpReports, ExpireStatement, LinkAccount, reportVars

LEMMA RangesHold == ReportsAssumption /\ RangesInv => RangesReconcile
<1> SUFFICES ASSUME ReportsAssumption, RangesInv PROVE RangesReconcile
  OBVIOUS
<1>1. ledger \in Seq(EntryRow)
  BY DEF RangesInv, PagesInv
<1>2. \A q \in Asks : ControlPasses(TrialBalance(ledger, q, Accounts))
  BY <1>1, TheControlPasses
<1>3. ASSUME NEW u \in Users, paging[u].step = "shown", ~NoDays(paging[u].ask)
      PROVE  LET p == paging[u]
                 report == TrialBalance(p.book, p.ask, CodesOf(p.ask))
             IN /\ ClosingOf(report) = SumFunction(p.openings) + p.totals.debit - p.totals.credit
                /\ \A i \in p.items : i.line = LastOf(i.line.account, LedgerRange(p.book, p.ask)) =>
                                          i.balance = report[i.line.account].closing
  <2> DEFINE p == paging[u]
  <2>1. /\ p.ask \in Asks /\ ~RangeRefused(p.ask) /\ p.book \in Seq(EntryRow)
        /\ p.openings = OpeningBalances(p.book, p.ask)
        /\ p.totals = LedgerTotals(p.book, p.ask)
        /\ p.items = LedgerPage(p.book, p.ask, p.page, p.openings)
    BY <1>3 DEF RangesInv, PageOfABook
  <2> HIDE DEF p
  <2>2. /\ ClosingOf(TrialBalance(p.book, p.ask, CodesOf(p.ask)))
             = SumFunction(OpeningBalances(p.book, p.ask)) + LedgerTotals(p.book, p.ask).debit
                 - LedgerTotals(p.book, p.ask).credit
        /\ \A page, i : /\ i \in LedgerPage(p.book, p.ask, page, OpeningBalances(p.book, p.ask))
                        /\ i.line = LastOf(i.line.account, LedgerRange(p.book, p.ask))
              => i.balance = TrialBalance(p.book, p.ask, CodesOf(p.ask))[i.line.account].closing
    BY <1>3, <2>1, LedgerCloses DEF p
  <2> QED BY <2>1, <2>2 DEF p
<1> QED BY <1>2, <1>3 DEF RangesReconcile, CodesOf

-----------------------------------------------------------------------------
(* The statements: what each SELECT of one reads of a book.                  *)
AmountOf(type, b, cash) == IF type = "CASH" THEN CashTotal(b, cash) ELSE TypeTotal(b, type)
OfTypes(b, types) == {l \in PostedLines(b) : TypeOf[l.account] \in types}
Always == [from |-> None, to |-> None, year |-> None]
Result == [amounts : Seq(Int), book : Seq(EntryRow), cash : SUBSET Accounts, torn : BOOLEAN]

LEMMA AmountsAre ==
    ASSUME ReportsAssumption, NEW b \in Seq(EntryRow)
    PROVE  /\ \A types : /\ ClosingOf(TrialBalance(b, Always, {a \in Accounts : TypeOf[a] \in types}))
                                  = NetOf(OfTypes(b, types))
                         /\ NetOf(OfTypes(b, types)) \in Int
           /\ \A cash : /\ ClosingOf(TrialBalance(b, Always, cash)) = CashTotal(b, cash)
                        /\ CashTotal(b, cash) \in Int
           /\ \A type : /\ TypeTotal(b, type) \in Int
                        /\ TypeTotal(b, type) = IF type \in {"REVENUE", "LIABILITY", "EQUITY"}
                                                THEN -NetOf(OfTypes(b, {type}))
                                                ELSE NetOf(OfTypes(b, {type}))
<1>1. PostedLines(b) \in SUBSET AllLines /\ IsFiniteSet(PostedLines(b))
  BY LinesAreLines
<1>2. ASSUME NEW codes
      PROVE  CodeLines(b, Always, codes) = {l \in PostedLines(b) : l.account \in codes}
  BY DEF CodeLines, UntilLastDay, LastDay, Always
<1>3. ASSUME NEW types
      PROVE  /\ ClosingOf(TrialBalance(b, Always, {a \in Accounts : TypeOf[a] \in types}))
                    = NetOf(OfTypes(b, types))
             /\ NetOf(OfTypes(b, types)) \in Int
  <2> DEFINE codes == {a \in Accounts : TypeOf[a] \in types}
  <2>1. CodeLines(b, Always, codes) = OfTypes(b, types)
    BY <1>1, <1>2 DEF OfTypes, AllLines
  <2>2. OfTypes(b, types) \in SUBSET AllLines /\ IsFiniteSet(OfTypes(b, types))
    <3>1. OfTypes(b, types) \subseteq PostedLines(b)
      BY DEF OfTypes
    <3> QED BY <1>1, <3>1, FS_Subset
  <2> HIDE DEF codes
  <2>3. ClosingOf(TrialBalance(b, Always, codes)) = NetOf(CodeLines(b, Always, codes))
    BY TrialIs
  <2> QED BY <2>1, <2>2, <2>3, NetIs DEF codes
<1>4. ASSUME NEW cash
      PROVE  /\ ClosingOf(TrialBalance(b, Always, cash)) = CashTotal(b, cash)
             /\ CashTotal(b, cash) \in Int
  <2> DEFINE L == {l \in PostedLines(b) : l.account \in cash}
  <2>1. CodeLines(b, Always, cash) = L /\ CashTotal(b, cash) = NetOf(L)
    BY <1>2 DEF CashTotal
  <2>2. L \in SUBSET AllLines /\ IsFiniteSet(L)
    <3>1. L \subseteq PostedLines(b)
      OBVIOUS
    <3> QED BY <1>1, <3>1, FS_Subset
  <2>3. ClosingOf(TrialBalance(b, Always, cash)) = NetOf(CodeLines(b, Always, cash))
    BY TrialIs
  <2> HIDE DEF L
  <2> QED BY <2>1, <2>2, <2>3, NetIs
<1>5. ASSUME NEW type
      PROVE  /\ TypeTotal(b, type) \in Int
             /\ TypeTotal(b, type) = IF type \in {"REVENUE", "LIABILITY", "EQUITY"}
                                     THEN -NetOf(OfTypes(b, {type})) ELSE NetOf(OfTypes(b, {type}))
  <2>1. {l \in PostedLines(b) : TypeOf[l.account] = type} = OfTypes(b, {type})
    BY DEF OfTypes
  <2>2. NetOf({l \in PostedLines(b) : TypeOf[l.account] = type}) = NetOf(OfTypes(b, {type}))
    BY <2>1, Zenon
  <2> DEFINE net == NetOf({l \in PostedLines(b) : TypeOf[l.account] = type})
             other == NetOf(OfTypes(b, {type}))
  <2>3. TypeTotal(b, type) = IF type \in {"REVENUE", "LIABILITY", "EQUITY"} THEN -net ELSE net
    BY DEF TypeTotal
  <2>4. net = other /\ other \in Int
    BY <1>3, <2>2
  <2> HIDE DEF net, other
  <2>5. TypeTotal(b, type) = IF type \in {"REVENUE", "LIABILITY", "EQUITY"} THEN -other ELSE other
    BY <2>3, <2>4
  <2>6. TypeTotal(b, type) \in Int
    BY <2>4, <2>5
  <2> QED BY <2>5, <2>6 DEF other
<1> QED BY <1>3, <1>4, <1>5

(* Types of account that are told apart add up; all of them to nothing.      *)
LEMMA TypesAddUp ==
    ASSUME ReportsAssumption, NEW b \in Seq(EntryRow)
    PROVE  /\ \A S, T : S \cap T = {} =>
                 NetOf(OfTypes(b, S \cup T)) = NetOf(OfTypes(b, S)) + NetOf(OfTypes(b, T))
           /\ NetOf(OfTypes(b, AccountTypes)) = 0
<1>1. PostedLines(b) \in SUBSET AllLines /\ IsFiniteSet(PostedLines(b))
  BY LinesAreLines
<1>2. \A S : OfTypes(b, S) \in SUBSET AllLines /\ IsFiniteSet(OfTypes(b, S))
  <2>1. \A S : OfTypes(b, S) \subseteq PostedLines(b)
    BY DEF OfTypes
  <2> QED BY <1>1, <2>1, FS_Subset
<1>3. ASSUME NEW S, NEW T, S \cap T = {}
      PROVE  NetOf(OfTypes(b, S \cup T)) = NetOf(OfTypes(b, S)) + NetOf(OfTypes(b, T))
  <2>1. /\ OfTypes(b, S \cup T) = OfTypes(b, S) \cup OfTypes(b, T)
        /\ OfTypes(b, S) \cap OfTypes(b, T) = {}
    BY <1>3 DEF OfTypes
  <2>2. NetOf(OfTypes(b, S) \cup OfTypes(b, T)) = NetOf(OfTypes(b, S)) + NetOf(OfTypes(b, T))
    BY <1>2, <2>1, NetOfUnion
  <2>3. NetOf(OfTypes(b, S \cup T)) = NetOf(OfTypes(b, S) \cup OfTypes(b, T))
    BY <2>1, Zenon
  <2> QED BY <2>2, <2>3
<1>4. NetOf(OfTypes(b, AccountTypes)) = 0
  <2>1. OfTypes(b, AccountTypes) = PostedLines(b)
    BY <1>1 DEF OfTypes, AllLines, ReportsAssumption
  <2> QED BY <2>1, EntriesAreEven
<1> QED BY <1>3, <1>4

LEMMA ReadsAre ==
    ASSUME NEW s \in Statements
    PROVE  /\ Len(ReadsOf[s]) \in Nat \ {0} /\ \A n \in 2..Len(ReadsOf[s]) : ReadsOf[s][n] # "CASH"
           /\ Len(ReadsOf[s]) = 1 \/ ReadsOf[s][1] # "CASH"
BY DEF Statements, ReadsOf

(* An office's statement so far, and one in the cache, are those of one book *)
(* unless a posting tore them.                                               *)
OfOneBook(s, r) ==
    /\ r \in Result /\ Len(r.amounts) <= Len(ReadsOf[s]) /\ (r.amounts = <<>> => ~r.torn)
    /\ ~r.torn => \A n \in 1..Len(r.amounts) : r.amounts[n] = AmountOf(ReadsOf[s][n], r.book, r.cash)
StatementsInv ==
    /\ ledger \in Seq(EntryRow) /\ linked \in SUBSET Accounts
    /\ drawing \in [Offices -> [statement : Statements \cup {"none"}, result : Result]]
    /\ DOMAIN cached = Statements
    /\ \A o \in Offices : drawing[o].statement # "none" => OfOneBook(drawing[o].statement, drawing[o].result)
    /\ \A s \in Statements : cached[s] # NoStatement =>
                              OfOneBook(s, cached[s]) /\ Len(cached[s].amounts) = Len(ReadsOf[s])

LEMMA NothingReadYet == /\ NoStatement \in Result /\ "none" \notin Statements
                        /\ \A s \in Statements : OfOneBook(s, NoStatement)
<1>1. NoStatement \in Result /\ Len(NoStatement.amounts) = 0 /\ ~NoStatement.torn
  BY DEF NoStatement, Result
<1>2. "none" \notin Statements
  BY DEF Statements, ReadsOf
<1> QED BY <1>1, <1>2, ReadsAre DEF OfOneBook

(* A sequence with one element more, and the first of one that is not empty.*)
LEMMA OneElementMore ==
    ASSUME NEW S, NEW s \in Seq(S), NEW e \in S
    PROVE  /\ Append(s, e) \in Seq(S) /\ Append(s, e) # <<>>
           /\ Len(s) \in Nat /\ Len(Append(s, e)) = Len(s) + 1
           /\ Append(s, e)[Len(s) + 1] = e
           /\ \A n \in 1..Len(s) : Append(s, e)[n] = s[n]
OBVIOUS

LEMMA HasAFirst ==
    ASSUME NEW S, NEW s \in Seq(S), s # <<>>
    PROVE  Len(s) \in Nat /\ 1 \in 1..Len(s) /\ s[1] \in S
<1>1. Len(s) \in Nat /\ Len(s) # 0
  OBVIOUS
<1>2. 1 \in 1..Len(s)
  BY <1>1
<1> QED BY <1>1, <1>2

LEMMA ReadingKeepsTheBook ==
    ASSUME ReportsAssumption, StatementsInv, NEW o \in Offices, ReadTotal(o)
    PROVE  StatementsInv'
<1> DEFINE s == drawing[o].statement
           r == drawing[o].result
           amount == AmountOf(ReadsOf[s][Len(r.amounts) + 1], ledger, linked)
           isFirst == r.amounts = <<>>
           new == [amounts |-> Append(r.amounts, amount), book |-> IF isFirst THEN ledger ELSE r.book,
                   cash |-> linked, torn |-> ~isFirst /\ (r.torn \/ r.book # ledger)]
<1>1. /\ s \in Statements /\ Len(r.amounts) < Len(ReadsOf[s]) /\ OfOneBook(s, r)
      /\ drawing' = [drawing EXCEPT ![o].result = new]
      /\ UNCHANGED <<ledger, linked, cached>>
  BY DEF ReadTotal, StatementsInv, AmountOf
<1>2. /\ r.amounts \in Seq(Int) /\ r.book \in Seq(EntryRow) /\ r.torn \in BOOLEAN
      /\ ledger \in Seq(EntryRow) /\ linked \in SUBSET Accounts
  BY <1>1 DEF OfOneBook, Result, StatementsInv
<1>3. \A type : AmountOf(type, ledger, linked) \in Int
  BY <1>2, AmountsAre DEF AmountOf
<1>4. amount \in Int
  BY <1>3
<1>5. /\ Len(ReadsOf[s]) \in Nat \ {0} /\ \A n \in 2..Len(ReadsOf[s]) : ReadsOf[s][n] # "CASH"
      /\ Len(ReadsOf[s]) = 1 \/ ReadsOf[s][1] # "CASH"
  BY <1>1, ReadsAre
<1>6. new \in Result /\ Len(new.amounts) = Len(r.amounts) + 1 /\ new.amounts # <<>>
  <2> HIDE DEF amount
  <2>1. Append(r.amounts, amount) \in Seq(Int) /\ Len(Append(r.amounts, amount)) = Len(r.amounts) + 1
    BY <1>2, <1>4
  <2>2. (IF isFirst THEN ledger ELSE r.book) \in Seq(EntryRow)
    BY <1>2
  <2>3. Append(r.amounts, amount) # <<>>
    BY <1>2, <2>1
  <2> QED BY <1>2, <2>1, <2>2, <2>3 DEF Result
<1>7. ASSUME ~new.torn, NEW n \in 1..Len(new.amounts)
      PROVE  new.amounts[n] = AmountOf(ReadsOf[s][n], new.book, new.cash)
  <2>1. new.cash = linked /\ new.book = ledger
    BY <1>7
  <2>2. CASE n = Len(r.amounts) + 1
    <3> HIDE DEF amount
    <3>1. new.amounts = Append(r.amounts, amount)
      OBVIOUS
    <3>2. Append(r.amounts, amount)[Len(r.amounts) + 1] = amount
      BY <1>2, <1>4, OneElementMore
    <3> HIDE DEF new
    <3> QED BY <2>1, <2>2, <3>1, <3>2 DEF amount
  <2>3. CASE n \in 1..Len(r.amounts)
    <3>1. ~isFirst /\ ~r.torn /\ r.book = ledger
      <4>1. ~isFirst
        <5>1. SUFFICES ASSUME r.amounts = <<>> PROVE FALSE
          OBVIOUS
        <5>2. Len(r.amounts) = 0
          BY <5>1
        <5> QED BY <2>3, <5>2
      <4>2. new.torn = (~isFirst /\ (r.torn \/ r.book # ledger))
        OBVIOUS
      <4> HIDE DEF new
      <4> QED BY <1>7, <4>1, <4>2
    <3>2. new.amounts[n] = r.amounts[n]
      <4> HIDE DEF amount
      <4>1. new.amounts = Append(r.amounts, amount)
        OBVIOUS
      <4> HIDE DEF new
      <4> QED BY <1>2, <1>4, <2>3, <4>1, OneElementMore
    <3>3. r.amounts[n] = AmountOf(ReadsOf[s][n], r.book, r.cash)
      BY <1>1, <2>3, <3>1 DEF OfOneBook
    <3>4. ReadsOf[s][n] # "CASH"
      <4>1. Len(r.amounts) \in Nat /\ n \in Nat /\ 1 <= n /\ n <= Len(r.amounts)
        BY <1>2, <2>3
      <4>2. 1 < Len(ReadsOf[s]) /\ n < Len(ReadsOf[s])
        BY <1>1, <1>5, <4>1
      <4> QED BY <1>5, <4>1, <4>2
    <3> HIDE DEF new
    <3> QED BY <2>1, <3>1, <3>2, <3>3, <3>4 DEF AmountOf
  <2>4. n \in 1..Len(r.amounts) \/ n = Len(r.amounts) + 1
    <3>1. Len(r.amounts) \in Nat /\ n \in 1..(Len(r.amounts) + 1)
      BY <1>2, <1>6
    <3> HIDE DEF r, new
    <3> QED BY <3>1
  <2> HIDE DEF new, amount
  <2> QED BY <2>2, <2>3, <2>4
<1>8. OfOneBook(s, new)
  <2>1. Len(new.amounts) <= Len(ReadsOf[s])
    <3> HIDE DEF new
    <3> QED BY <1>1, <1>2, <1>5, <1>6
  <2> HIDE DEF new
  <2> QED BY <1>6, <1>7, <2>1 DEF OfOneBook
<1> HIDE DEF new
<1>9. /\ drawing' \in [Offices -> [statement : Statements \cup {"none"}, result : Result]]
      /\ drawing'[o].statement = s /\ drawing'[o].result = new
      /\ \A v \in Offices \ {o} : drawing'[v] = drawing[v]
  BY <1>1, <1>6 DEF StatementsInv
<1>10. ASSUME NEW v \in Offices, drawing'[v].statement # "none"
       PROVE  OfOneBook(drawing'[v].statement, drawing'[v].result)
  <2>1. CASE v = o
    BY <1>8, <1>9, <2>1
  <2>2. CASE v # o
    BY <1>9, <1>10, <2>2 DEF StatementsInv
  <2> QED BY <2>1, <2>2
<1> QED BY <1>1, <1>9, <1>10 DEF StatementsInv

LEMMA StatementsInvStep ==
    ReportsAssumption /\ StatementsInv /\ [ReportsNext]_reportVars => StatementsInv'
<1> SUFFICES ASSUME ReportsAssumption, StatementsInv, [ReportsNext]_reportVars PROVE StatementsInv'
  OBVIOUS
<1>1. CASE Posts
  <2>1. ledger' \in Seq(EntryRow)
    BY <1>1, PostingsAdd DEF StatementsInv
  <2>2. UNCHANGED <<linked, drawing, cached>>
    BY <1>1 DEF Posts, DraftEntry, PostEntry
  <2> QED BY <2>1, <2>2 DEF StatementsInv
<1>2. CASE BumpReports
  BY <1>2 DEF BumpReports, StatementsInv
<1>3. ASSUME NEW s \in Statements, ExpireStatement(s) PROVE StatementsInv'
  BY <1>3 DEF ExpireStatement, StatementsInv
<1>4. ASSUME NEW a \in Accounts, LinkAccount(a) PROVE StatementsInv'
  BY <1>4 DEF LinkAccount, StatementsInv
<1>5. ASSUME NEW o \in Offices, NEW s \in Statements, MissCache(o, s) PROVE StatementsInv'
  <2>1. /\ drawing[o] = NotDrawing /\ drawing' = [drawing EXCEPT ![o].statement = s]
        /\ UNCHANGED <<ledger, linked, cached>>
    BY <1>5 DEF MissCache
  <2>2. drawing'[o] = [NotDrawing EXCEPT !.statement = s]
    BY <2>1 DEF StatementsInv
  <2>3. /\ drawing'[o].statement = s /\ drawing'[o].result = NoStatement
        /\ drawing'[o] \in [statement : Statements \cup {"none"}, result : Result]
    BY <2>2, NothingReadYet DEF NotDrawing
  <2>4. /\ drawing' \in [Offices -> [statement : Statements \cup {"none"}, result : Result]]
        /\ \A v \in Offices \ {o} : drawing'[v] = drawing[v]
    BY <2>1, <2>3 DEF StatementsInv
  <2>5. ASSUME NEW v \in Offices, drawing'[v].statement # "none"
        PROVE  OfOneBook(drawing'[v].statement, drawing'[v].result)
    <3>1. CASE v = o
      BY <2>3, <3>1, NothingReadYet
    <3>2. CASE v # o
      BY <2>4, <2>5, <3>2 DEF StatementsInv
    <3> QED BY <3>1, <3>2
  <2> QED BY <2>1, <2>4, <2>5 DEF StatementsInv
<1>6. ASSUME NEW o \in Offices, ReadTotal(o) PROVE StatementsInv'
  BY <1>6, ReadingKeepsTheBook
<1>7. ASSUME NEW o \in Offices, CacheStatement(o) PROVE StatementsInv'
  <2> DEFINE s == drawing[o].statement
  <2>1. /\ s \in Statements /\ Len(drawing[o].result.amounts) = Len(ReadsOf[s])
        /\ OfOneBook(s, drawing[o].result)
        /\ cached' = [cached EXCEPT ![s] = drawing[o].result]
        /\ drawing' = [drawing EXCEPT ![o] = NotDrawing] /\ UNCHANGED <<ledger, linked>>
    BY <1>7 DEF CacheStatement, StatementsInv
  <2>2. /\ NotDrawing \in [statement : Statements \cup {"none"}, result : Result]
        /\ NotDrawing.statement = "none"
    BY NothingReadYet DEF NotDrawing
  <2>3. /\ drawing' \in [Offices -> [statement : Statements \cup {"none"}, result : Result]]
        /\ \A v \in Offices : drawing'[v].statement # "none" => drawing'[v] = drawing[v]
    BY <2>1, <2>2 DEF StatementsInv
  <2>4. /\ DOMAIN cached' = Statements
        /\ \A t \in Statements : cached'[t] = IF t = s THEN drawing[o].result ELSE cached[t]
    BY <2>1 DEF StatementsInv
  <2> HIDE DEF s
  <2>5. \A t \in Statements : cached'[t] # NoStatement =>
                              OfOneBook(t, cached'[t]) /\ Len(cached'[t].amounts) = Len(ReadsOf[t])
    BY <2>1, <2>4 DEF StatementsInv
  <2>6. \A v \in Offices : drawing'[v].statement # "none" =>
                              OfOneBook(drawing'[v].statement, drawing'[v].result)
    BY <2>3 DEF StatementsInv
  <2> QED BY <2>1, <2>3, <2>4, <2>5, <2>6 DEF StatementsInv
<1>8. ASSUME NEW u \in Users, Pages(u) PROVE UNCHANGED <<ledger, linked, drawing, cached>>
  BY <1>8 DEF Pages, AskLedger, TotalLedger, ShowLedger, NextPage, CloseLedger
<1>9. CASE UNCHANGED <<ledger, linked, drawing, cached>>
  BY <1>9 DEF StatementsInv
<1> QED BY <1>1, <1>2, <1>3, <1>4, <1>5, <1>6, <1>7, <1>8, <1>9
         DEF ReportsNext, LedgerNext, StatementsNext, Draws, reportVars

LEMMA StatementsHold == ReportsAssumption /\ StatementsInv => StatementsReconcile
<1> SUFFICES ASSUME ReportsAssumption, StatementsInv,
                    NEW s \in Statements, cached[s] # NoStatement, ~cached[s].torn
             PROVE  LET c == cached[s]
                        t == c.amounts
                        closing(codes) == ClosingOf(TrialBalance(c.book, Always, codes))
                        typed(types) == {a \in Accounts : TypeOf[a] \in types}
                    IN CASE s = "sheet" -> t[1] = t[2] + t[3] + (t[4] - t[5])
                         [] s = "summary" -> t[1] - t[2] = closing(typed({"ASSET", "LIABILITY"}))
                         [] s = "profit" -> t[1] - t[2] = -closing(typed({"REVENUE", "EXPENSE"}))
                         [] OTHER -> t[1] = closing(c.cash)
  BY DEF StatementsReconcile, Always
<1> DEFINE t == cached[s].amounts
           b == cached[s].book
           cash == cached[s].cash
           NetBy(types) == NetOf(OfTypes(b, types))
<1>1. /\ b \in Seq(EntryRow) /\ Len(t) = Len(ReadsOf[s])
      /\ \A n \in 1..Len(t) : t[n] = AmountOf(ReadsOf[s][n], b, cash)
  BY DEF StatementsInv, OfOneBook, Result
<1>2. \A types : /\ ClosingOf(TrialBalance(b, Always, {a \in Accounts : TypeOf[a] \in types})) = NetBy(types)
                 /\ NetBy(types) \in Int
  BY <1>1, AmountsAre
<1>3. ClosingOf(TrialBalance(b, Always, cash)) = CashTotal(b, cash)
  BY <1>1, AmountsAre
<1>4. \A type : TypeTotal(b, type) = IF type \in {"REVENUE", "LIABILITY", "EQUITY"}
                                    THEN -NetBy({type}) ELSE NetBy({type})
  BY <1>1, AmountsAre
<1>5. \A S, T : S \cap T = {} => NetBy(S \cup T) = NetBy(S) + NetBy(T)
  BY <1>1, TypesAddUp
<1>6. NetBy(AccountTypes) = 0
  BY <1>1, TypesAddUp
<1> HIDE DEF t, b, cash, NetBy
<1>7. CASE s = "sheet"
  <2>1. /\ t[1] = TypeTotal(b, "ASSET") /\ t[2] = TypeTotal(b, "LIABILITY") /\ t[3] = TypeTotal(b, "EQUITY")
        /\ t[4] = TypeTotal(b, "REVENUE") /\ t[5] = TypeTotal(b, "EXPENSE")
    BY <1>1, <1>7 DEF ReadsOf, AmountOf
  <2>2. /\ t[1] = NetBy({"ASSET"}) /\ t[2] = -NetBy({"LIABILITY"}) /\ t[3] = -NetBy({"EQUITY"})
        /\ t[4] = -NetBy({"REVENUE"}) /\ t[5] = NetBy({"EXPENSE"})
    BY <1>4, <2>1
  <2>3. NetBy({"ASSET", "LIABILITY"}) = NetBy({"ASSET"}) + NetBy({"LIABILITY"})
    <3>1. {"ASSET"} \cup {"LIABILITY"} = {"ASSET", "LIABILITY"} /\ {"ASSET"} \cap {"LIABILITY"} = {}
      OBVIOUS
    <3>2. NetBy({"ASSET"} \cup {"LIABILITY"}) = NetBy({"ASSET"}) + NetBy({"LIABILITY"})
      BY <1>5, <3>1
    <3> QED BY <3>1, <3>2
  <2>4. NetBy({"ASSET", "LIABILITY", "EQUITY"}) = NetBy({"ASSET", "LIABILITY"}) + NetBy({"EQUITY"})
    <3>1. /\ {"ASSET", "LIABILITY"} \cup {"EQUITY"} = {"ASSET", "LIABILITY", "EQUITY"}
          /\ {"ASSET", "LIABILITY"} \cap {"EQUITY"} = {}
      OBVIOUS
    <3>2. NetBy({"ASSET", "LIABILITY"} \cup {"EQUITY"}) = NetBy({"ASSET", "LIABILITY"}) + NetBy({"EQUITY"})
      BY <1>5, <3>1
    <3> QED BY <3>1, <3>2
  <2>5. NetBy({"REVENUE", "EXPENSE"}) = NetBy({"REVENUE"}) + NetBy({"EXPENSE"})
    <3>1. {"REVENUE"} \cup {"EXPENSE"} = {"REVENUE", "EXPENSE"} /\ {"REVENUE"} \cap {"EXPENSE"} = {}
      OBVIOUS
    <3>2. NetBy({"REVENUE"} \cup {"EXPENSE"}) = NetBy({"REVENUE"}) + NetBy({"EXPENSE"})
      BY <1>5, <3>1
    <3> QED BY <3>1, <3>2
  <2>6. NetBy(AccountTypes) = NetBy({"ASSET", "LIABILITY", "EQUITY"}) + NetBy({"REVENUE", "EXPENSE"})
    <3>1. /\ {"ASSET", "LIABILITY", "EQUITY"} \cup {"REVENUE", "EXPENSE"} = AccountTypes
          /\ {"ASSET", "LIABILITY", "EQUITY"} \cap {"REVENUE", "EXPENSE"} = {}
      BY DEF AccountTypes
    <3>2. NetBy({"ASSET", "LIABILITY", "EQUITY"} \cup {"REVENUE", "EXPENSE"})
             = NetBy({"ASSET", "LIABILITY", "EQUITY"}) + NetBy({"REVENUE", "EXPENSE"})
      BY <1>5, <3>1
    <3> QED BY <3>1, <3>2
  <2>7. /\ NetBy({"ASSET"}) \in Int /\ NetBy({"LIABILITY"}) \in Int /\ NetBy({"EQUITY"}) \in Int
        /\ NetBy({"REVENUE"}) \in Int /\ NetBy({"EXPENSE"}) \in Int
    BY <1>2
  <2>8. t[1] = t[2] + t[3] + (t[4] - t[5])
    BY <1>6, <2>2, <2>3, <2>4, <2>5, <2>6, <2>7
  <2> QED BY <1>7, <2>8 DEF t
<1>8. CASE s = "summary"
  <2>1. t[1] = TypeTotal(b, "ASSET") /\ t[2] = TypeTotal(b, "LIABILITY")
    BY <1>1, <1>8 DEF ReadsOf, AmountOf
  <2>2. t[1] = NetBy({"ASSET"}) /\ t[2] = -NetBy({"LIABILITY"})
    BY <1>4, <2>1
  <2>3. NetBy({"ASSET", "LIABILITY"}) = NetBy({"ASSET"}) + NetBy({"LIABILITY"})
    <3>1. {"ASSET"} \cup {"LIABILITY"} = {"ASSET", "LIABILITY"} /\ {"ASSET"} \cap {"LIABILITY"} = {}
      OBVIOUS
    <3>2. NetBy({"ASSET"} \cup {"LIABILITY"}) = NetBy({"ASSET"}) + NetBy({"LIABILITY"})
      BY <1>5, <3>1
    <3> QED BY <3>1, <3>2
  <2>4. t[1] - t[2] = NetBy({"ASSET", "LIABILITY"})
    BY <1>2, <2>2, <2>3
  <2>5. t[1] - t[2] = ClosingOf(TrialBalance(b, Always, {a \in Accounts : TypeOf[a] \in {"ASSET", "LIABILITY"}}))
    BY <1>2, <2>4
  <2> QED BY <1>8, <2>5 DEF t, b
<1>9. CASE s = "profit"
  <2>1. t[1] = TypeTotal(b, "REVENUE") /\ t[2] = TypeTotal(b, "EXPENSE")
    BY <1>1, <1>9 DEF ReadsOf, AmountOf
  <2>2. t[1] = -NetBy({"REVENUE"}) /\ t[2] = NetBy({"EXPENSE"})
    BY <1>4, <2>1
  <2>3. NetBy({"REVENUE", "EXPENSE"}) = NetBy({"REVENUE"}) + NetBy({"EXPENSE"})
    <3>1. {"REVENUE"} \cup {"EXPENSE"} = {"REVENUE", "EXPENSE"} /\ {"REVENUE"} \cap {"EXPENSE"} = {}
      OBVIOUS
    <3>2. NetBy({"REVENUE"} \cup {"EXPENSE"}) = NetBy({"REVENUE"}) + NetBy({"EXPENSE"})
      BY <1>5, <3>1
    <3> QED BY <3>1, <3>2
  <2>4. t[1] - t[2] = -NetBy({"REVENUE", "EXPENSE"})
    BY <1>2, <2>2, <2>3
  <2>5. t[1] - t[2] = -ClosingOf(TrialBalance(b, Always, {a \in Accounts : TypeOf[a] \in {"REVENUE", "EXPENSE"}}))
    BY <1>2, <2>4
  <2> QED BY <1>9, <2>5 DEF t, b
<1>10. CASE s \in {"cash", "card"}
  <2>1. t[1] = CashTotal(b, cash)
    BY <1>1, <1>10 DEF ReadsOf, AmountOf
  <2> QED BY <1>3, <1>10, <2>1 DEF t, b, cash
<1>11. s \in {"sheet", "summary", "profit", "cash", "card"}
  BY DEF Statements, ReadsOf
<1> QED BY <1>7, <1>8, <1>9, <1>10, <1>11

(* The reports of one ledger reconcile, in their ranges and statements.      *)
THEOREM ReportsAgree == ReportsSpec => []ReportsReconcile
<1>1. ASSUME ReportsAssumption, ReportsInit PROVE RangesInv /\ StatementsInv
  <2>1. PagesInv
    BY <1>1 DEF ReportsInit, PagesInv, PagedSoFar, Closed, PageFields
  <2>2. RangesInv
    BY <1>1, <2>1 DEF ReportsInit, RangesInv, PageOfABook, Closed
  <2>3. NotDrawing \in [statement : Statements \cup {"none"}, result : Result] /\ NotDrawing.statement = "none"
    BY NothingReadYet DEF NotDrawing
  <2>4. StatementsInv
    BY <1>1, <2>3 DEF ReportsInit, StatementsInv
  <2> QED BY <2>2, <2>4
<1>2. ReportsAssumption /\ RangesInv /\ StatementsInv => ReportsReconcile
  BY RangesHold, StatementsHold DEF ReportsReconcile
<1> QED BY <1>1, <1>2, RangesInvStep, StatementsInvStep, ReportsAssumption, PTL DEF ReportsSpec

-----------------------------------------------------------------------------
(* Balances: the cache.  A part is current if it shows what the books would *)
(* show now; each is kept under the name of what it shows.                  *)
NameAt(r, n) == PartsOf[r][n]
Part == [saw : Books, late : BOOLEAN]
Current(b, name, p) == ~p.late => Shown(name, p.saw) = Shown(name, b)
Holds(b, bumps, r, parts) ==
    /\ parts \in Seq(Part) /\ Len(parts) <= Len(PartsOf[r])
    /\ bumps = 0 => \A n \in 1..Len(parts) : Current(b, NameAt(r, n), parts[n])
ShelfInv ==
    /\ unposted \in Nat /\ books \in Books
    /\ DOMAIN shelf = ReportNames /\ \A r \in ReportNames : Holds(books, unposted, r, shelf[r])
    /\ DOMAIN board = Boards
    /\ \A o \in Boards :
          \/ board[o] = NoBoard
          \/ /\ board[o] \in [report : ReportNames, parts : Seq(Part), toStore : BOOLEAN]
             /\ Holds(books, unposted, board[o].report, board[o].parts)
             /\ board[o].toStore => /\ board[o].parts # <<>>
                                    /\ NameAt(board[o].report, Len(board[o].parts)) \in ReportNames

(* The reports, and what is at which place of which.                        *)
LEMMA NamesOfParts ==
    /\ ReportNames = {"receivables", "payables", "profitability", "trial", "dashboard"}
    /\ \A r \in ReportNames : /\ Len(PartsOf[r]) \in Nat /\ Len(PartsOf[r]) > 0
                              /\ \A n \in 1..Len(PartsOf[r]) : NameAt(r, n) \in ReportNames =>
                                    /\ Len(PartsOf[NameAt(r, n)]) = 1
                                    /\ NameAt(NameAt(r, n), 1) = NameAt(r, n)
<1>1. ReportNames = {"receivables", "payables", "profitability", "trial", "dashboard"}
  BY DEF ReportNames, PartsOf
<1>2. /\ PartsOf["receivables"] = <<"receivables">> /\ PartsOf["payables"] = <<"payables">>
      /\ PartsOf["profitability"] = <<"profitability">> /\ PartsOf["trial"] = <<"trial">>
      /\ PartsOf["dashboard"] = <<"jobs", "receivables", "payables", "ledger", "cash">>
  BY DEF PartsOf
<1>3. \A r \in ReportNames : r # "dashboard" =>
         /\ Len(PartsOf[r]) = 1 /\ NameAt(r, 1) = r
  BY <1>1, <1>2 DEF NameAt
<1>4. /\ Len(PartsOf["dashboard"]) = 5
      /\ \A n \in 1..5 : NameAt("dashboard", n) \in {"jobs", "receivables", "payables", "ledger", "cash"}
  BY <1>2 DEF NameAt
<1>5. ASSUME NEW r \in ReportNames, NEW n \in 1..Len(PartsOf[r]), NameAt(r, n) \in ReportNames
      PROVE  /\ Len(PartsOf[NameAt(r, n)]) = 1
             /\ NameAt(NameAt(r, n), 1) = NameAt(r, n)
  <2>1. CASE r = "dashboard"
    <3>1. NameAt(r, n) \in ReportNames /\ NameAt(r, n) # "dashboard"
      BY <1>4, <1>5, <2>1
    <3> QED BY <1>3, <3>1
  <2>2. CASE r # "dashboard"
    <3>1. Len(PartsOf[r]) = 1 /\ NameAt(r, 1) = r
      BY <1>3, <2>2
    <3>2. n = 1
      BY <3>1
    <3> QED BY <3>1, <3>2
  <2> QED BY <2>1, <2>2
<1>6. \A r \in ReportNames : Len(PartsOf[r]) \in Nat /\ Len(PartsOf[r]) > 0
  BY <1>3, <1>4
<1> QED BY <1>1, <1>5, <1>6

(* Drafts appear in nothing that a report shows.                            *)
LEMMA DraftsAreNotShown ==
    ASSUME NEW b, NEW c, NEW name,
           b.settled = c.settled, b.paid = c.paid, b.charge = c.charge, b.job = c.job,
           \A d \in Papers : \/ b.paper[d] = c.paper[d]
                              \/ {b.paper[d], c.paper[d]} \subseteq {"NONE", "DRAFT"}
    PROVE  Shown(name, b) = Shown(name, c)
<1>1. \A types : /\ InState(b, types, "POSTED") = InState(c, types, "POSTED")
                 /\ InState(b, types, "REVERSED") = InState(c, types, "REVERSED")
  BY DEF InState, OfType
<1>2. ASSUME NEW type PROVE Owed(b, type) = Owed(c, type)
  <2>1. \A d : Paid(b, d) = Paid(c, d)
    BY DEF Paid
  <2>2. \A d : Outstanding(b, d) = Outstanding(c, d)
    BY <2>1 DEF Outstanding
  <2>3. InState(b, {type}, "POSTED") = InState(c, {type}, "POSTED")
    BY <1>1
  <2> QED BY <2>1, <2>2, <2>3 DEF Owed
<1>3. JobCounts(b) = JobCounts(c)
  BY DEF JobCounts
<1>4. PostedJournalLines(b) = PostedJournalLines(c)
  BY <1>1, Zenon DEF PostedJournalLines
<1>5. \A a : BalanceOf(b, a) = BalanceOf(c, a)
  BY <1>4, Zenon DEF BalanceOf
<1>6. ASSUME NEW j
      PROVE  /\ ProfitRow(b, j).revenue = ProfitRow(c, j).revenue
             /\ ProfitRow(b, j).cost = ProfitRow(c, j).cost
             /\ ProfitRow(b, j).issued = ProfitRow(c, j).issued
  <2> DEFINE R(x) == Worth({d \in InState(x, {"CUSTOMER_INVOICE"}, "POSTED") : PaperOf[d].job = j})
             C(x) == Worth({d \in InState(x, {"SUPPLIER_BILL"}, "POSTED") : PaperOf[d].job = j})
             I(x) == Charged({k \in JobCharges : ChargeOf[k].job = j /\ x.charge[k] = "ISSUED"})
  <2>1. \A x : ProfitRow(x, j).revenue = R(x) /\ ProfitRow(x, j).cost = C(x) /\ ProfitRow(x, j).issued = I(x)
    BY DEF ProfitRow
  <2>2. R(b) = R(c) /\ C(b) = C(c)
    BY <1>1, Zenon
  <2>3. I(b) = I(c)
    OBVIOUS
  <2> HIDE DEF R, C, I
  <2> QED BY <2>1, <2>2, <2>3
<1>7. Shown("receivables", b) = Shown("receivables", c) /\ Shown("payables", b) = Shown("payables", c)
  BY <1>2 DEF Shown
<1>8. Shown("profitability", b) = Shown("profitability", c)
  BY <1>6 DEF Shown
<1>9. Shown("trial", b) = Shown("trial", c) /\ Shown("ledger", b) = Shown("ledger", c)
      /\ Shown("cash", b) = Shown("cash", c)
  BY <1>5 DEF Shown, TrialRows, LedgerCards, CashCard
<1>10. Shown("jobs", b) = Shown("jobs", c)
  BY <1>3 DEF Shown
<1> QED BY <1>7, <1>8, <1>9, <1>10 DEF Shown

(* A report begins with nothing, goes on with what is current ...           *)
LEMMA NothingIsCurrent ==
    ASSUME NEW r \in ReportNames, NEW b, NEW bumps PROVE Holds(b, bumps, r, <<>>)
BY NamesOfParts DEF Holds
LEMMA OneMore ==
    ASSUME NEW r \in ReportNames, NEW parts, Holds(books, unposted, r, parts), Len(parts) < Len(PartsOf[r]),
           NEW p \in Part, unposted = 0 => Current(books, NameAt(r, Len(parts) + 1), p)
    PROVE  Holds(books, unposted, r, Append(parts, p))
<1>1. parts \in Seq(Part) /\ Len(parts) \in Nat /\ Len(PartsOf[r]) \in Nat
  BY NamesOfParts DEF Holds
<1>2. Append(parts, p) \in Seq(Part) /\ Len(Append(parts, p)) = Len(parts) + 1
  BY <1>1
<1>3. ASSUME unposted = 0, NEW n \in 1..(Len(parts) + 1)
      PROVE  Current(books, NameAt(r, n), Append(parts, p)[n])
  <2>1. CASE n = Len(parts) + 1
    BY <1>1, <1>3, <2>1
  <2>2. CASE n # Len(parts) + 1
    <3>1. n \in 1..Len(parts) /\ Append(parts, p)[n] = parts[n]
      BY <1>1, <2>2
    <3> QED BY <1>3, <3>1 DEF Holds
  <2> QED BY <2>1, <2>2
<1> QED BY <1>1, <1>2, <1>3 DEF Holds

(* ... and stays current while nothing that it shows is committed, or while *)
(* a bump is to come.                                                       *)
LEMMA StillHolds ==
    ASSUME unposted \in Nat, books \in Books, unposted' \in Nat, NEW r, NEW parts, Holds(books, unposted, r, parts),
           \/ unposted' # 0
           \/ /\ unposted' = unposted
              /\ \A name : Shown(name, books') = Shown(name, books)
    PROVE  Holds(books', unposted', r, parts)
BY DEF Holds, Current

LEMMA ShelfInvHoldsOn ==
    ASSUME ShelfInv, UNCHANGED <<shelf, board>>, unposted' \in Nat, books' \in Books,
           \/ unposted' # 0
           \/ /\ unposted' = unposted
              /\ \A name : Shown(name, books') = Shown(name, books)
    PROVE  ShelfInv'
<1>1. \A r, parts : Holds(books, unposted, r, parts) => Holds(books', unposted', r, parts)
  BY StillHolds DEF ShelfInv
<1>2. /\ DOMAIN shelf' = ReportNames
      /\ \A r \in ReportNames : Holds(books', unposted', r, shelf'[r])
  BY <1>1 DEF ShelfInv
<1>3. ASSUME NEW o \in Boards, board[o] # NoBoard
      PROVE  Holds(books', unposted', board'[o].report, board'[o].parts)
  BY <1>1, <1>3 DEF ShelfInv
<1> QED BY <1>2, <1>3 DEF ShelfInv

(* The same parts under the same bumps are as current as they were.         *)
LEMMA SameIsCurrent ==
    ASSUME UNCHANGED <<books, unposted>>, NEW r, NEW parts, Holds(books, unposted, r, parts)
    PROVE  Holds(books', unposted', r, parts)
BY DEF Holds, Current

(* One reader goes on, the others and the cache stay.                       *)
LEMMA OneBoard ==
    ASSUME ShelfInv, NEW o \in Boards, NEW new, UNCHANGED <<books, unposted>>,
           board' = [board EXCEPT ![o] = new],
           DOMAIN shelf' = ReportNames, \A r \in ReportNames : Holds(books, unposted, r, shelf'[r]),
           \/ new = NoBoard
           \/ /\ new \in [report : ReportNames, parts : Seq(Part), toStore : BOOLEAN]
              /\ Holds(books, unposted, new.report, new.parts)
              /\ new.toStore => /\ new.parts # <<>>
                                /\ NameAt(new.report, Len(new.parts)) \in ReportNames
    PROVE  ShelfInv'
<1>1. \A r, parts : Holds(books, unposted, r, parts) => Holds(books', unposted', r, parts)
  BY SameIsCurrent
<1>2. \A r \in ReportNames : Holds(books', unposted', r, shelf'[r])
  BY <1>1
<1>3. /\ DOMAIN board' = Boards /\ board'[o] = new
      /\ \A x \in Boards \ {o} : board'[x] = board[x]
  BY DEF ShelfInv
<1>4. new # NoBoard => Holds(books', unposted', new.report, new.parts)
  BY <1>1
<1>5. \A x \in Boards : board[x] # NoBoard => Holds(books', unposted', board[x].report, board[x].parts)
  BY <1>1 DEF ShelfInv
<1>6. ASSUME NEW x \in Boards
      PROVE  \/ board'[x] = NoBoard
             \/ /\ board'[x] \in [report : ReportNames, parts : Seq(Part), toStore : BOOLEAN]
                /\ Holds(books', unposted', board'[x].report, board'[x].parts)
                /\ board'[x].toStore => /\ board'[x].parts # <<>>
                                        /\ NameAt(board'[x].report, Len(board'[x].parts)) \in ReportNames
  <2>1. CASE x = o
    BY <1>3, <1>4, <2>1
  <2>2. CASE x # o
    BY <1>3, <1>5, <2>2 DEF ShelfInv
  <2> QED BY <2>1, <2>2
<1> QED BY <1>2, <1>3, <1>6 DEF ShelfInv

LEMMA AskKeepsShelf ==
    ASSUME ShelfInv, NEW o \in Boards, NEW r \in ReportNames, AskReport(o, r)
    PROVE  ShelfInv'
<1> DEFINE new == [NoBoard EXCEPT !.report = r]
<1>1. /\ new.report = r /\ new.parts = <<>> /\ ~new.toStore
      /\ new \in [report : ReportNames, parts : Seq(Part), toStore : BOOLEAN]
  <2>1. <<>> \in Seq(Part)
    OBVIOUS
  <2> QED BY <2>1 DEF NoBoard
<1>2. board' = [board EXCEPT ![o] = new] /\ UNCHANGED <<books, shelf, unposted>>
  BY DEF AskReport
<1>3. Holds(books, unposted, new.report, new.parts)
  BY <1>1, NothingIsCurrent
<1>5. DOMAIN shelf' = ReportNames /\ \A q \in ReportNames : Holds(books, unposted, q, shelf'[q])
  BY <1>2 DEF ShelfInv
<1> HIDE DEF new
<1> QED BY <1>1, <1>2, <1>3, <1>5, OneBoard

LEMMA ReadKeepsShelf ==
    ASSUME ShelfInv, NEW o \in Boards, ReadPart(o)
    PROVE  ShelfInv'
<1> DEFINE r == board[o].report
           parts == board[o].parts
           name == PartsOf[r][Len(parts) + 1]
           isList == name \in ReportNames
           hit == isList /\ shelf[name] # Absent
           read == IF hit THEN shelf[name][1] ELSE [saw |-> books, late |-> FALSE]
           new == [board[o] EXCEPT !.parts = Append(parts, read), !.toStore = isList /\ ~hit]
<1>1. /\ r # "none" /\ Len(parts) < Len(PartsOf[r])
      /\ board' = [board EXCEPT ![o] = new] /\ UNCHANGED <<books, shelf, unposted>>
  BY DEF ReadPart
<1>2. /\ board[o] \in [report : ReportNames, parts : Seq(Part), toStore : BOOLEAN]
      /\ r \in ReportNames /\ Holds(books, unposted, r, parts) /\ parts \in Seq(Part)
  BY <1>1 DEF ShelfInv, NoBoard
<1>3. name = NameAt(r, Len(parts) + 1) /\ Len(parts) + 1 \in 1..Len(PartsOf[r])
  <2>1. Len(parts) \in Nat /\ Len(PartsOf[r]) \in Nat
    BY <1>2, NamesOfParts
  <2>2. name = NameAt(r, Len(parts) + 1)
    BY DEF NameAt
  <2> HIDE DEF r, parts, name, new
  <2> QED BY <1>1, <2>1, <2>2
<1>4. read \in Part /\ (unposted = 0 => Current(books, name, read))
  <2>1. CASE hit
    <3>1. name \in ReportNames /\ Holds(books, unposted, name, shelf[name]) /\ shelf[name] # <<>>
      BY <2>1 DEF ShelfInv, Absent
    <3>2. read = shelf[name][1]
      BY <2>1
    <3> HIDE DEF name, read, hit, new
    <3>3. Len(PartsOf[name]) = 1 /\ NameAt(name, 1) = name
      BY <1>2, <1>3, <3>1, NamesOfParts
    <3>4. shelf[name] \in Seq(Part)
      BY <3>1 DEF Holds
    <3>5. 1 \in 1..Len(shelf[name]) /\ shelf[name][1] \in Part
      BY <3>1, <3>4, HasAFirst
    <3>6. unposted = 0 => Current(books, NameAt(name, 1), shelf[name][1])
      BY <3>1, <3>5 DEF Holds
    <3> QED BY <3>2, <3>3, <3>5, <3>6
  <2>2. CASE ~hit
    <3>1. read = [saw |-> books, late |-> FALSE]
      BY <2>2
    <3>2. books \in Books
      BY DEF ShelfInv
    <3> HIDE DEF read, hit
    <3> QED BY <3>1, <3>2 DEF Part, Current
  <2> QED BY <2>1, <2>2
<1> HIDE DEF read, hit, name
<1>5. Holds(books, unposted, r, Append(parts, read))
  BY <1>1, <1>2, <1>3, <1>4, OneMore
<1>6. /\ new.report = r /\ new.parts = Append(parts, read) /\ new.toStore = (isList /\ ~hit)
      /\ new \in [report : ReportNames, parts : Seq(Part), toStore : BOOLEAN]
  <2> DEFINE a == Append(parts, read)
             t == isList /\ ~hit
  <2>1. a \in Seq(Part) /\ t \in BOOLEAN
    BY <1>2, <1>4
  <2>2. new = [board[o] EXCEPT !.parts = a, !.toStore = t]
    OBVIOUS
  <2> HIDE DEF a, t, new
  <2>3. /\ new.report = r /\ new.parts = a /\ new.toStore = t
        /\ new \in [report : ReportNames, parts : Seq(Part), toStore : BOOLEAN]
    BY <1>2, <2>1, <2>2
  <2> QED BY <2>3 DEF a, t
<1>7. Append(parts, read) # <<>> /\ Len(Append(parts, read)) = Len(parts) + 1
  BY <1>2, <1>4
<1>8. new.toStore => NameAt(new.report, Len(new.parts)) \in ReportNames
  BY <1>3, <1>6, <1>7
<1>9. DOMAIN shelf' = ReportNames /\ \A q \in ReportNames : Holds(books, unposted, q, shelf'[q])
  BY <1>1 DEF ShelfInv
<1> HIDE DEF new
<1> QED BY <1>1, <1>5, <1>6, <1>7, <1>8, <1>9, OneBoard

LEMMA StoreKeepsShelf ==
    ASSUME ShelfInv, NEW o \in Boards, StoreList(o)
    PROVE  ShelfInv'
<1> DEFINE r == board[o].report
           parts == board[o].parts
           name == PartsOf[r][Len(parts)]
           p == parts[Len(parts)]
           new == [board[o] EXCEPT !.toStore = FALSE]
<1>1. /\ board[o].toStore /\ shelf' = [shelf EXCEPT ![name] = <<p>>]
      /\ board' = [board EXCEPT ![o] = new] /\ UNCHANGED <<books, unposted>>
  BY DEF StoreList
<1>2. /\ board[o] \in [report : ReportNames, parts : Seq(Part), toStore : BOOLEAN]
      /\ r \in ReportNames /\ Holds(books, unposted, r, parts) /\ parts \in Seq(Part) /\ parts # <<>>
      /\ name \in ReportNames /\ name = NameAt(r, Len(parts))
  BY <1>1 DEF ShelfInv, NoBoard, NameAt
<1>3. Len(parts) \in 1..Len(parts) /\ Len(parts) \in 1..Len(PartsOf[r]) /\ p \in Part
  <2>1. Len(parts) \in Nat /\ Len(parts) > 0
    BY <1>2
  <2> QED BY <1>2, <2>1, NamesOfParts DEF Holds
<1>4. Len(PartsOf[name]) = 1 /\ NameAt(name, 1) = name
  BY <1>2, <1>3, NamesOfParts
<1>5. unposted = 0 => Current(books, name, p)
  BY <1>2, <1>3 DEF Holds
<1>6. Holds(books, unposted, name, <<p>>)
  <2>1. <<p>> \in Seq(Part) /\ Len(<<p>>) = 1 /\ <<p>>[1] = p
    BY <1>3
  <2> HIDE DEF p, name
  <2>2. \A n \in 1..1 : n = 1
    OBVIOUS
  <2> QED BY <1>4, <1>5, <2>1, <2>2 DEF Holds
<1>7. DOMAIN shelf' = ReportNames /\ \A q \in ReportNames : Holds(books, unposted, q, shelf'[q])
  <2> HIDE DEF p, name
  <2> QED BY <1>1, <1>2, <1>6 DEF ShelfInv
<1>8. /\ new \in [report : ReportNames, parts : Seq(Part), toStore : BOOLEAN]
      /\ new.report = r /\ new.parts = parts /\ ~new.toStore
  BY <1>2
<1> HIDE DEF new
<1> QED BY <1>1, <1>2, <1>7, <1>8, OneBoard

LEMMA AnswerKeepsShelf ==
    ASSUME ShelfInv, NEW o \in Boards, Answer(o)
    PROVE  ShelfInv'
<1> DEFINE r == board[o].report
<1>1. /\ r # "none" /\ board' = [board EXCEPT ![o] = NoBoard] /\ UNCHANGED <<books, unposted>>
      /\ shelf' = IF r = "dashboard" THEN [shelf EXCEPT ![r] = board[o].parts] ELSE shelf
  BY DEF Answer
<1>2. r \in ReportNames /\ Holds(books, unposted, r, board[o].parts)
  BY <1>1 DEF ShelfInv, NoBoard
<1>3. DOMAIN shelf' = ReportNames /\ \A q \in ReportNames : Holds(books, unposted, q, shelf'[q])
  BY <1>1, <1>2 DEF ShelfInv
<1> QED BY <1>1, <1>3, OneBoard

LEMMA ExpiryKeepsShelf ==
    ASSUME ShelfInv, NEW r \in ReportNames, ExpireReport(r)
    PROVE  ShelfInv'
<1>1. \A q, parts : Holds(books, unposted, q, parts) => Holds(books', unposted', q, parts)
  BY SameIsCurrent DEF ExpireReport
<1>2. /\ shelf' = [shelf EXCEPT ![r] = <<>>] /\ UNCHANGED <<books, board, unposted>>
  BY DEF ExpireReport, Absent
<1>3. DOMAIN shelf' = ReportNames /\ \A q \in ReportNames : Holds(books', unposted', q, shelf'[q])
  BY <1>1, <1>2, NothingIsCurrent DEF ShelfInv
<1>4. \A x \in Boards : board[x] # NoBoard => Holds(books', unposted', board[x].report, board[x].parts)
  BY <1>1 DEF ShelfInv
<1> QED BY <1>2, <1>3, <1>4 DEF ShelfInv

LEMMA BumpKeepsShelf == ASSUME ShelfInv, BumpShelf PROVE ShelfInv'
<1>1. /\ unposted > 0 /\ unposted' = unposted - 1 /\ unposted' \in Nat /\ books' = books
      /\ shelf' = [r \in ReportNames |-> <<>>]
      /\ board' = [o \in Boards |-> [board[o] EXCEPT !.parts =
                      [n \in DOMAIN @ |-> [board[o].parts[n] EXCEPT !.late = TRUE]]]]
  BY DEF BumpShelf, ShelfInv, Absent
<1>2. \A r \in ReportNames : Holds(books', unposted', r, <<>>)
  BY NothingIsCurrent
<1>3. ASSUME NEW o \in Boards, board[o] # NoBoard
      PROVE  /\ board'[o] \in [report : ReportNames, parts : Seq(Part), toStore : BOOLEAN]
             /\ Holds(books', unposted', board'[o].report, board'[o].parts)
             /\ board'[o].report = board[o].report /\ board'[o].toStore = board[o].toStore
             /\ Len(board'[o].parts) = Len(board[o].parts)
             /\ board[o].parts # <<>> => board'[o].parts # <<>>
  <2> DEFINE b == board[o].parts
             c == [n \in DOMAIN b |-> [b[n] EXCEPT !.late = TRUE]]
             N == Len(b)
  <2>1. /\ board[o] \in [report : ReportNames, parts : Seq(Part), toStore : BOOLEAN]
        /\ Holds(books, unposted, board[o].report, b)
    BY <1>3 DEF ShelfInv
  <2>2. b \in Seq(Part) /\ DOMAIN b = 1..N /\ N \in Nat
    BY <2>1
  <2>3. ASSUME NEW n \in 1..N PROVE c[n] \in Part /\ c[n].late
    <3>1. b[n] \in Part /\ c[n] = [b[n] EXCEPT !.late = TRUE]
      BY <2>2
    <3> HIDE DEF b, c, N
    <3> QED BY <3>1 DEF Part
  <2>4. c \in Seq(Part) /\ Len(c) = N /\ DOMAIN c = 1..N
    <3>1. c = [n \in 1..N |-> c[n]] /\ DOMAIN c = 1..N
      BY <2>2
    <3> HIDE DEF c, N, b
    <3> QED BY <2>2, <2>3, <3>1
  <2>5. board'[o] = [board[o] EXCEPT !.parts = c]
    BY <1>1
  <2>6. /\ board'[o].report = board[o].report /\ board'[o].toStore = board[o].toStore
        /\ board'[o].parts = c /\ board'[o] \in [report : ReportNames, parts : Seq(Part), toStore : BOOLEAN]
    <3> HIDE DEF c, N, b
    <3> QED BY <2>1, <2>4, <2>5
  <2>7. \A name : \A n \in 1..N : Current(books', name, c[n])
    BY <2>3 DEF Current
  <2> HIDE DEF c
  <2>8. /\ c \in Seq(Part) /\ Len(c) <= Len(PartsOf[board[o].report])
        /\ \A n \in 1..Len(c) : Current(books', NameAt(board[o].report, n), c[n])
    BY <2>1, <2>4, <2>7 DEF Holds
  <2>9. Holds(books', unposted', board'[o].report, board'[o].parts)
    BY <2>6, <2>8 DEF Holds
  <2>10. b # <<>> => c # <<>>
    BY <2>2, <2>4
  <2> QED BY <2>4, <2>6, <2>9, <2>10
<1>4. \A o \in Boards : board[o] = NoBoard => board'[o] = NoBoard
  <2>1. [n \in DOMAIN NoBoard.parts |-> [NoBoard.parts[n] EXCEPT !.late = TRUE]] = <<>>
    BY DEF NoBoard
  <2> QED BY <1>1, <2>1 DEF NoBoard
<1>5. DOMAIN shelf' = ReportNames /\ \A r \in ReportNames : Holds(books', unposted', r, shelf'[r])
  BY <1>1, <1>2
<1>6. DOMAIN board' = Boards
  BY <1>1
<1>7. ASSUME NEW o \in Boards
      PROVE  \/ board'[o] = NoBoard
             \/ /\ board'[o] \in [report : ReportNames, parts : Seq(Part), toStore : BOOLEAN]
                /\ Holds(books', unposted', board'[o].report, board'[o].parts)
                /\ board'[o].toStore => /\ board'[o].parts # <<>>
                                        /\ NameAt(board'[o].report, Len(board'[o].parts)) \in ReportNames
  BY <1>3, <1>4 DEF ShelfInv
<1>8. books' \in Books
  BY <1>1 DEF ShelfInv
<1> QED BY <1>1, <1>5, <1>6, <1>7, <1>8 DEF ShelfInv

(* A commit either moves a draft, which nothing shows, or owes a bump.      *)
LEMMA CommitKeepsShelf ==
    ASSUME ShelfInv, NEW new \in Books, NEW bumps \in BOOLEAN, Commit(new, bumps),
           ~bumps => \A name : Shown(name, new) = Shown(name, books)
    PROVE  ShelfInv'
<1>1. /\ books' = new /\ unposted' = IF bumps THEN unposted + 1 ELSE unposted
      /\ UNCHANGED <<shelf, board>> /\ unposted \in Nat
  BY DEF Commit, ShelfInv
<1>2. unposted' \in Nat /\ (bumps => unposted' # 0)
  BY <1>1
<1> QED BY <1>1, <1>2, ShelfInvHoldsOn

LEMMA DraftsKeepShelf ==
    ASSUME ShelfInv, NEW d \in Papers, SaveDraft(d) \/ DeleteDraft(d)
    PROVE  ShelfInv'
<1>1. PICK s \in {"NONE", "DRAFT"} :
         /\ books.paper[d] \in {"NONE", "DRAFT"} /\ Commit(SetPaper(d, s), FALSE)
  BY DEF SaveDraft, DeleteDraft
<1> DEFINE new == SetPaper(d, s)
<1>2. books \in Books
  BY DEF ShelfInv
<1>3. /\ new \in Books /\ new.settled = books.settled /\ new.charge = books.charge
      /\ new.paid = books.paid /\ new.job = books.job
      /\ new.paper = [books.paper EXCEPT ![d] = s]
  BY <1>2 DEF SetPaper, Books
<1>4. books.paper \in [Papers -> {"NONE", "DRAFT", "POSTED", "REVERSED"}]
  BY <1>2 DEF Books
<1> HIDE DEF new
<1>5. ASSUME NEW e \in Papers
      PROVE  \/ new.paper[e] = books.paper[e]
             \/ {new.paper[e], books.paper[e]} \subseteq {"NONE", "DRAFT"}
  <2>1. CASE e = d
    <3>1. new.paper[e] = s
      BY <1>3, <1>4, <2>1
    <3> QED BY <1>1, <2>1, <3>1
  <2>2. CASE e # d
    <3>1. new.paper[e] = books.paper[e]
      BY <1>3, <1>4, <2>2
    <3> QED BY <3>1
  <2> QED BY <2>1, <2>2
<1>6. \A name : Shown(name, new) = Shown(name, books)
  BY <1>3, <1>5, DraftsAreNotShown
<1>7. Commit(new, FALSE)
  BY <1>1 DEF new
<1> QED BY <1>3, <1>6, <1>7, CommitKeepsShelf

LEMMA ShelfStep ==
    ASSUME ShelfInv, books' \in Books, [BalancesNext]_balanceVars
    PROVE  ShelfInv'
<1>1. ASSUME NEW new, Commit(new, TRUE) PROVE ShelfInv'
  <2>1. new \in Books
    BY <1>1 DEF Commit
  <2> QED BY <1>1, <2>1, CommitKeepsShelf
<1>2. ASSUME NEW o \in Boards,
             \/ \E r \in ReportNames : AskReport(o, r)
             \/ ReadPart(o) \/ StoreList(o) \/ Answer(o)
      PROVE  ShelfInv'
  BY <1>2, AskKeepsShelf, ReadKeepsShelf, StoreKeepsShelf, AnswerKeepsShelf
<1>3. ASSUME (\E d \in Papers : PostDraft(d)) \/ FinishReversal PROVE ShelfInv'
  BY <1>1, <1>3 DEF PostDraft, FinishReversal
<1>4. ASSUME NEW p, NEW d, NEW amount, AllocatePart(p, d, amount) PROVE ShelfInv'
  BY <1>1, <1>4 DEF AllocatePart
<1>5. ASSUME NEW c, DraftCharge(c) \/ CommitRequest(c) PROVE ShelfInv'
  BY <1>1, <1>5 DEF DraftCharge, CommitRequest
<1>6. ASSUME NEW j, NEW s, MoveJob(j, s) PROVE ShelfInv'
  BY <1>1, <1>6 DEF MoveJob
<1>7. ASSUME UNCHANGED <<shelf, board, books, unposted>> PROVE ShelfInv'
  BY <1>7, ShelfInvHoldsOn DEF ShelfInv
<1>12. ASSUME \/ \E d \in Papers : BeginReversal(d)
              \/ FailReversal \/ \E q \in begun : FailRequest(q)
              \/ \E c \in JobCharges : AskToDrop(c) \/ AskToIssue(c) \/ AskToBill(c)
              \/ \E j \in Jobs : AskToBillOrder(j)
       PROVE  ShelfInv'
  <2>1. ASSUME NEW by, NEW of, NEW makes, StartRequest(by, of, makes)
        PROVE  UNCHANGED <<shelf, board, books, unposted>>
    BY <2>1 DEF StartRequest
  <2>2. ASSUME NEW c, AskToDrop(c) \/ AskToIssue(c) \/ AskToBill(c)
        PROVE  UNCHANGED <<shelf, board, books, unposted>>
    BY <2>1, <2>2, Zenon DEF AskToDrop, AskToIssue, AskToBill
  <2>3. ASSUME NEW j, AskToBillOrder(j) PROVE UNCHANGED <<shelf, board, books, unposted>>
    BY <2>1, <2>3, Zenon DEF AskToBillOrder
  <2> QED BY <1>7, <1>12, <2>2, <2>3 DEF BeginReversal, FailReversal, FailRequest
<1>8. ASSUME NEW r \in ReportNames, ExpireReport(r) PROVE ShelfInv'
  BY <1>8, ExpiryKeepsShelf
<1>9. ASSUME NEW d \in Papers, SaveDraft(d) \/ DeleteDraft(d) PROVE ShelfInv'
  BY <1>9, DraftsKeepShelf
<1>10. ASSUME BumpShelf PROVE ShelfInv'
  BY <1>10, BumpKeepsShelf
<1>11. ASSUME BalancesNext PROVE ShelfInv'
  <2>1. CASE \E o \in Boards :
                \/ \E r \in ReportNames : AskReport(o, r)
                \/ ReadPart(o) \/ StoreList(o) \/ Answer(o)
    BY <1>2, <2>1
  <2>2. CASE (\E d \in Papers : SaveDraft(d) \/ DeleteDraft(d) \/ PostDraft(d) \/ BeginReversal(d))
             \/ FinishReversal \/ FailReversal
    BY <1>3, <1>9, <1>12, <2>2
  <2>3. CASE \E p \in Payments, d \in Targets : \E amount \in 1..PaperTotal(p) : AllocatePart(p, d, amount)
    BY <1>4, <2>3
  <2>4. CASE (\E c \in JobCharges : DraftCharge(c) \/ AskToDrop(c) \/ AskToIssue(c) \/ AskToBill(c))
             \/ (\E j \in Jobs : AskToBillOrder(j))
             \/ (\E q \in begun : CommitRequest(q) \/ FailRequest(q))
    BY <1>5, <1>12, <2>4
  <2>5. CASE \E j \in Jobs, s \in {"INACTIVE", "FINISHED"} : MoveJob(j, s)
    BY <1>6, <2>5
  <2> QED BY <1>8, <1>10, <1>11, <2>1, <2>2, <2>3, <2>4, <2>5 DEF BalancesNext
<1> QED BY <1>7, <1>11 DEF balanceVars

LEMMA ShelfIsKept == ASSUME ShelfInv PROVE ShelfIsCurrent
<1>1. SUFFICES ASSUME unposted = 0, NEW r \in ReportNames, NEW n \in DOMAIN shelf[r], ~shelf[r][n].late
               PROVE  Shown(PartsOf[r][n], shelf[r][n].saw) = Shown(PartsOf[r][n], books)
  BY DEF ShelfIsCurrent
<1>2. Holds(books, unposted, r, shelf[r])
  BY DEF ShelfInv
<1>3. n \in 1..Len(shelf[r])
  BY <1>2 DEF Holds
<1> QED BY <1>1, <1>2, <1>3 DEF Holds, Current, NameAt

-----------------------------------------------------------------------------
(* What is committed stays sound.                                           *)
LEMMA PapersAreFinite ==
    /\ IsFiniteSet(Papers) /\ IsFiniteSet(JobCharges)
    /\ \A types : OfType(types) \subseteq Papers /\ IsFiniteSet(OfType(types))
    /\ Payments \subseteq Papers /\ IsFiniteSet(Payments)
    /\ Targets \subseteq Papers /\ IsFiniteSet(Targets) /\ Payments \cap Targets = {}
    /\ \A d \in Papers : PaperTotal(d) \in Nat
<1>1. \A types : OfType(types) \subseteq Papers /\ IsFiniteSet(OfType(types))
  BY BalancesAssumption, FS_Subset DEF OfType
<1>2. \A d \in Papers : PaperTotal(d) \in Nat
  BY BalancesAssumption DEF PaperTotal
<1>3. Payments \cap Targets = {}
  BY DEF Payments, Targets, OfType
<1> QED BY <1>1, <1>2, <1>3, BalancesAssumption DEF Payments, Targets

SettledBy(b, d) == [p \in Payments |-> b.settled[<<p, d>>]]
LEMMA SettledIs ==
    ASSUME NEW b \in Books, NEW d \in Targets
    PROVE  /\ Settled(b, d) = SumIn(SettledBy(b, d), Payments)
           /\ Settled(b, d) \in Nat /\ Paid(b, d) \in Nat /\ Paid(b, d) = b.paid[d]
           /\ \A p \in Payments : /\ SettledBy(b, d)[p] = b.settled[<<p, d>>]
                                  /\ SettledBy(b, d)[p] \in Nat
<1>1. \A p \in Payments : SettledBy(b, d)[p] = b.settled[<<p, d>>] /\ SettledBy(b, d)[p] \in Nat
  BY DEF SettledBy, Books
<1>2. Settled(b, d) = SumFunction(SettledBy(b, d)) /\ DOMAIN SettledBy(b, d) = Payments
  BY DEF Settled, SettledBy
<1>3. Settled(b, d) = SumIn(SettledBy(b, d), Payments)
  BY <1>2, ColumnSum
<1>4. Paid(b, d) \in Nat /\ Paid(b, d) = b.paid[d]
  BY DEF Paid, Books
<1> QED BY <1>1, <1>3, <1>4, PapersAreFinite, SumIsNat

(* A payment that settles more or less of a target, and no other.           *)
LEMMA SettledMoves ==
    ASSUME NEW b \in Books, NEW new \in Books, NEW d \in Targets, NEW p \in Payments,
           \A q \in Payments \ {p} : new.settled[<<q, d>>] = b.settled[<<q, d>>]
    PROVE  /\ Settled(new, d) = Settled(b, d) + new.settled[<<p, d>>] - b.settled[<<p, d>>]
           /\ b.settled[<<p, d>>] \in Nat /\ new.settled[<<p, d>>] \in Nat
           /\ b.settled[<<p, d>>] <= Settled(b, d)
<1> DEFINE a == SettledBy(b, d)
           c == SettledBy(new, d)
           R == Payments \ {p}
<1>1. /\ Settled(b, d) = SumIn(a, Payments) /\ Settled(new, d) = SumIn(c, Payments)
      /\ \A q \in Payments : a[q] = b.settled[<<q, d>>] /\ a[q] \in Nat
      /\ \A q \in Payments : c[q] = new.settled[<<q, d>>] /\ c[q] \in Nat
  BY SettledIs
<1>2. IsFiniteSet(R) /\ R \subseteq Payments
  BY PapersAreFinite, FS_Subset
<1> HIDE DEF a, c
<1>9. (\A q \in Payments : a[q] \in Int) /\ (\A q \in Payments : c[q] \in Int)
  <2>1. ASSUME NEW q \in Payments PROVE a[q] \in Nat /\ c[q] \in Nat
    BY <1>1
  <2>2. \A n \in Nat : n \in Int
    OBVIOUS
  <2> QED BY <2>1, <2>2
<1>3. SumIn(a, Payments) = a[p] + SumIn(a, R)
  BY <1>9, PapersAreFinite, SumWithout
<1>4. SumIn(c, Payments) = c[p] + SumIn(c, R)
  BY <1>9, PapersAreFinite, SumWithout
<1>5. \A q \in R : a[q] = c[q] /\ a[q] \in Nat
  BY <1>1
<1>6. SumIn(a, R) = SumIn(c, R)
  BY <1>2, <1>5, SumOfSame
<1>7. SumIn(a, R) \in Nat
  BY <1>2, <1>5, SumIsNat
<1>8. a[p] \in Nat /\ c[p] \in Nat /\ a[p] = b.settled[<<p, d>>] /\ c[p] = new.settled[<<p, d>>]
  BY <1>1
<1> QED BY <1>1, <1>3, <1>4, <1>6, <1>7, <1>8
LEMMA SettledStays ==
    ASSUME NEW b \in Books, NEW new \in Books, NEW d \in Targets,
           \A q \in Payments : new.settled[<<q, d>>] = b.settled[<<q, d>>]
    PROVE  Settled(new, d) = Settled(b, d)
<1>1. \A q \in Payments : SettledBy(new, d)[q] = SettledBy(b, d)[q]
  BY SettledIs
<1>2. SumIn(SettledBy(new, d), Payments) = SumIn(SettledBy(b, d), Payments)
  BY <1>1, PapersAreFinite, SumOfSame
<1> QED BY <1>2, SettledIs

(* Books are sound if their rows are, and pay nothing above its total.      *)
Joined(b) == \A p \in Payments, d \in Targets :
    b.settled[<<p, d>>] # 0 => b.paper[p] = "POSTED" /\ b.paper[d] = "POSTED"
WithinTotals(b) == \A d \in Targets : Paid(b, d) <= PaperTotal(d)
LEMMA SoundIs == ASSUME NEW b PROVE
    BooksSound(b) <=> b \in Books /\ Joined(b) /\ WithinTotals(b)
BY DEF BooksSound, Joined, WithinTotals

(* What is under way beside them: a reversal of a posted document, whose    *)
(* reading was within the totals; requests whose papers are not yet there   *)
(* and are theirs alone.  A target that no stale amount was written to is   *)
(* paid what is allocated to it.                                            *)
UndoingInv ==
    \/ undoing = NotUndoing
    \/ /\ undoing.doc \in Papers /\ books.paper[undoing.doc] = "POSTED"
       /\ undoing.seen \in [Targets -> Nat]
       /\ \A t \in Targets : undoing.seen[t] <= PaperTotal(t)
MadeInv ==
    /\ \A q \in begun : \A d \in q.makes : d \in Generated /\ books.paper[d] = "NONE"
    /\ \A q, r \in begun : q # r => q.makes \cap r.makes = {}
PaidInv == \A t \in Targets \ drifted : PaidUp(books, t)
PapersInv == books \in Books /\ Joined(books) /\ WithinTotals(books)
                /\ UndoingInv /\ MadeInv /\ PaidInv

(* As long as what is posted stays posted, and no allocation and no amount  *)
(* moves, a commit touches the papers of requests only.                     *)
LEMMA PostedStay ==
    ASSUME PapersInv, UNCHANGED <<undoing, drifted>>, books' \in Books,
           books'.settled = books.settled, books'.paid = books.paid,
           \A e \in Papers : books.paper[e] = "POSTED" => books'.paper[e] = "POSTED"
    PROVE  Joined(books') /\ WithinTotals(books') /\ UndoingInv' /\ PaidInv'
<1>1. Joined(books')
  BY PapersAreFinite DEF PapersInv, Joined
<1>2. WithinTotals(books')
  BY DEF PapersInv, WithinTotals, Paid
<1>3. UndoingInv'
  BY DEF PapersInv, UndoingInv, NotUndoing
<1>4. ASSUME NEW t \in Targets, t \notin drifted PROVE books'.paid[t] = Settled(books', t)
  <2>1. books.paid[t] = Settled(books, t)
    BY <1>4 DEF PapersInv, PaidInv, PaidUp, Paid
  <2>2. Settled(books', t) = Settled(books, t)
    BY SettledStays DEF PapersInv
  <2> QED BY <2>1, <2>2
<1>5. PaidInv'
  BY <1>4 DEF PaidInv, PaidUp, Paid, Settled
<1> QED BY <1>1, <1>2, <1>3, <1>5

LEMMA MadeStays ==
    ASSUME MadeInv, begun' \subseteq begun,
           \A q \in begun' : \A d \in q.makes : books'.paper[d] = books.paper[d]
    PROVE  MadeInv'
BY DEF MadeInv

LEMMA PapersMove ==
    ASSUME PapersInv, NEW d \in Papers, SaveDraft(d) \/ DeleteDraft(d) \/ PostDraft(d)
    PROVE  PapersInv'
<1>1. PICK s \in {"NONE", "DRAFT", "POSTED"} :
         /\ books' = SetPaper(d, s) /\ books.paper[d] # "POSTED"
         /\ books.paper[d] = "DRAFT" \/ d \notin Generated
         /\ UNCHANGED <<undoing, drifted, begun>>
  BY DEF SaveDraft, DeleteDraft, PostDraft, Commit, requestVars
<1>2. books \in Books /\ books.paper \in [Papers -> {"NONE", "DRAFT", "POSTED", "REVERSED"}]
  BY DEF PapersInv, Books
<1>3. /\ books' \in Books /\ books'.settled = books.settled /\ books'.paid = books.paid
      /\ books'.paper = [books.paper EXCEPT ![d] = s]
  BY <1>1, <1>2 DEF SetPaper, Books
<1>4. \A e \in Papers : books.paper[e] = "POSTED" => books'.paper[e] = "POSTED"
  BY <1>1, <1>2, <1>3
<1>5. \A q \in begun : \A e \in q.makes : books'.paper[e] = books.paper[e]
  BY <1>1, <1>2, <1>3 DEF PapersInv, MadeInv
<1>6. MadeInv'
  BY <1>1, <1>5, MadeStays DEF PapersInv
<1> QED BY <1>1, <1>3, <1>4, <1>6, PostedStay DEF PapersInv

(* An amount that is written back is no more than what was read; where that *)
(* was what is allocated, what remains allocated remains paid.              *)
LEMMA LessOf == ASSUME NEW m \in Int PROVE Max({0, m}) = IF m > 0 THEN m ELSE 0
<1>1. \E x \in {0, m} : \A y \in {0, m} : x >= y
  OBVIOUS
<1>2. Max({0, m}) \in {0, m} /\ \A y \in {0, m} : Max({0, m}) >= y
  BY <1>1 DEF Max
<1> QED BY <1>2

LEMMA ReversalFinishes == ASSUME PapersInv, FinishReversal PROVE PapersInv'
<1> DEFINE d == undoing.doc
           left == [pd \in Payments \X Targets |->
                      IF d \in {pd[1], pd[2]} THEN 0 ELSE books.settled[pd]]
           after == [t \in Targets |-> PaidAfter(d, t)]
<1>1. /\ undoing # NotUndoing /\ undoing' = NotUndoing /\ begun' = begun
      /\ books' = [books EXCEPT !.paper[d] = "REVERSED", !.settled = left, !.paid = after]
  BY DEF FinishReversal, Commit
<1>15. ASSUME NEW t, t \notin drifted'
       PROVE  t \notin drifted /\ (t \in Unsettled(d) => books.paid[t] = undoing.seen[t])
  <2>1. drifted' = drifted \cup {u \in Unsettled(d) : books.paid[u] # undoing.seen[u]}
    BY DEF FinishReversal
  <2> QED BY <1>15, <2>1
<1>2. /\ d \in Papers /\ books.paper[d] = "POSTED" /\ undoing.seen \in [Targets -> Nat]
      /\ \A t \in Targets : undoing.seen[t] <= PaperTotal(t)
  BY <1>1 DEF PapersInv, UndoingInv
<1>3. /\ books \in Books /\ Joined(books) /\ WithinTotals(books) /\ MadeInv
      /\ books.paper \in [Papers -> {"NONE", "DRAFT", "POSTED", "REVERSED"}]
      /\ books.settled \in [Payments \X Targets -> Nat] /\ books.paid \in [Targets -> Nat]
  BY DEF PapersInv, Books
<1>4. ASSUME NEW t \in Targets
      PROVE  /\ PaidAfter(d, t) \in Nat /\ PaidAfter(d, t) <= PaperTotal(t)
             /\ t = d => PaidAfter(d, t) = 0
             /\ t # d /\ t \notin Unsettled(d) => PaidAfter(d, t) = books.paid[t]
             /\ t # d /\ t \in Unsettled(d) /\ books.paid[t] = undoing.seen[t]
                   /\ books.settled[<<d, t>>] <= books.paid[t] =>
                   PaidAfter(d, t) = books.paid[t] - books.settled[<<d, t>>]
  <2>1. undoing.seen[t] \in Nat /\ books.paid[t] \in Nat /\ PaperTotal(t) \in Nat
        /\ undoing.seen[t] <= PaperTotal(t) /\ books.paid[t] <= PaperTotal(t)
    BY <1>2, <1>3, PapersAreFinite DEF WithinTotals, Paid
  <2>2. t \in Unsettled(d) =>
           /\ books.settled[<<d, t>>] \in Nat
           /\ WrittenBack(d, t) = IF undoing.seen[t] - books.settled[<<d, t>>] > 0
                                  THEN undoing.seen[t] - books.settled[<<d, t>>] ELSE 0
    <3>1. t \in Unsettled(d) => d \in Payments
      BY DEF Unsettled
    <3>2. t \in Unsettled(d) => books.settled[<<d, t>>] \in Nat
      BY <1>3, <3>1
    <3> QED BY <2>1, <3>2, LessOf DEF WrittenBack
  <2>3. CASE t = d
    BY <2>1, <2>3 DEF PaidAfter
  <2>4. CASE t # d /\ t \notin Unsettled(d)
    BY <2>1, <2>4 DEF PaidAfter
  <2>5. CASE t # d /\ t \in Unsettled(d)
    <3>1. PaidAfter(d, t) = IF WrittenBack(d, t) # undoing.seen[t] THEN WrittenBack(d, t)
                            ELSE books.paid[t]
      BY <2>5 DEF PaidAfter
    <3> HIDE DEF d
    <3> QED BY <2>1, <2>2, <2>5, <3>1
  <2> QED BY <2>3, <2>4, <2>5
<1>5. left \in [Payments \X Targets -> Nat] /\ after \in [Targets -> Nat]
  BY <1>3, <1>4
<1>6. \A p \in Payments, t \in Targets :
         left[<<p, t>>] = IF d \in {p, t} THEN 0 ELSE books.settled[<<p, t>>]
  OBVIOUS
<1>7. \A t \in Targets : after[t] = PaidAfter(d, t)
  OBVIOUS
<1> HIDE DEF left, after, d
<1>8. /\ books' \in Books /\ books'.settled = left /\ books'.paid = after
      /\ books'.paper = [books.paper EXCEPT ![d] = "REVERSED"]
  BY <1>1, <1>3, <1>5 DEF Books
<1>9. Joined(books')
  BY <1>2, <1>3, <1>6, <1>8, PapersAreFinite DEF Joined
<1>10. WithinTotals(books')
  BY <1>4, <1>7, <1>8 DEF WithinTotals, Paid
<1>11. MadeInv'
  <2>1. \A q \in begun : \A e \in q.makes : books'.paper[e] = books.paper[e]
    BY <1>2, <1>3, <1>8 DEF MadeInv
  <2> QED BY <1>1, <1>3, <2>1, MadeStays
<1>12. ASSUME NEW t \in Targets, t \notin drifted' PROVE books'.paid[t] = Settled(books', t)
  <2>1. books.paid[t] = Settled(books, t) /\ (t \in Unsettled(d) => books.paid[t] = undoing.seen[t])
    <3>1. t \notin drifted /\ (t \in Unsettled(d) => books.paid[t] = undoing.seen[t])
      BY <1>12, <1>15
    <3> QED BY <3>1 DEF PapersInv, PaidInv, PaidUp, Paid
  <2>2. CASE t = d
    <3>1. \A p \in Payments : SettledBy(books', t)[p] = 0
      <4>1. \A p \in Payments : left[<<p, t>>] = 0
        BY <1>6, <2>2
      <4>2. \A p \in Payments : SettledBy(books', t)[p] = left[<<p, t>>]
        BY <1>8, SettledIs
      <4> QED BY <4>1, <4>2
    <3>2. Settled(books', t) = 0
      BY <1>8, <3>1, PapersAreFinite, SettledIs, SumOfZeros
    <3> QED BY <1>4, <1>7, <1>8, <2>2, <3>2
  <2>3. CASE t # d /\ t \notin Unsettled(d)
    <3>1. \A p \in Payments : books'.settled[<<p, t>>] = books.settled[<<p, t>>]
      BY <1>6, <1>8, <2>3 DEF Unsettled
    <3>2. Settled(books', t) = Settled(books, t)
      BY <1>3, <1>8, <3>1, SettledStays
    <3> QED BY <1>4, <1>7, <1>8, <2>1, <2>3, <3>2
  <2>4. CASE t # d /\ t \in Unsettled(d)
    <3>1. d \in Payments
      BY <2>4 DEF Unsettled
    <3>2. /\ books'.settled[<<d, t>>] = 0
          /\ \A p \in Payments \ {d} : books'.settled[<<p, t>>] = books.settled[<<p, t>>]
      BY <1>6, <1>8, <2>4, <3>1
    <3>3. /\ Settled(books', t) = Settled(books, t) + 0 - books.settled[<<d, t>>]
          /\ books.settled[<<d, t>>] \in Nat /\ books.settled[<<d, t>>] <= Settled(books, t)
      BY <1>3, <1>8, <3>1, <3>2, SettledMoves
    <3>4. PaidAfter(d, t) = books.paid[t] - books.settled[<<d, t>>]
      BY <1>4, <2>1, <2>4, <3>3
    <3>5. Settled(books, t) \in Nat
      BY <1>3, SettledIs
    <3> QED BY <1>7, <1>8, <2>1, <3>3, <3>4, <3>5
  <2> QED BY <2>2, <2>3, <2>4
<1>13. PaidInv'
  BY <1>12 DEF PaidInv, PaidUp, Paid, Settled
<1>14. UndoingInv'
  BY <1>1 DEF UndoingInv, NotUndoing
<1> QED BY <1>8, <1>9, <1>10, <1>11, <1>13, <1>14 DEF PapersInv, Joined, WithinTotals, Paid, Books

LEMMA AllocationSettles ==
    ASSUME PapersInv, NEW p \in Payments, NEW d \in Targets, NEW amount \in Nat,
           AllocatePart(p, d, amount)
    PROVE  PapersInv'
<1>1. /\ books.paper[p] = "POSTED" /\ books.paper[d] = "POSTED"
      /\ amount <= PaperTotal(d) - Paid(books, d)
      /\ books' = [books EXCEPT !.settled[<<p, d>>] = @ + amount, !.paid[d] = @ + amount]
      /\ UNCHANGED <<undoing, drifted, begun>>
  BY DEF AllocatePart, Commit, Outstanding, requestVars
<1> DEFINE new == [books.settled EXCEPT ![<<p, d>>] = books.settled[<<p, d>>] + amount]
           paid == [books.paid EXCEPT ![d] = books.paid[d] + amount]
<1>2. /\ books \in Books /\ Joined(books) /\ WithinTotals(books)
      /\ books.settled \in [Payments \X Targets -> Nat] /\ <<p, d>> \in Payments \X Targets
      /\ books.paid \in [Targets -> Nat]
  BY DEF PapersInv, Books
<1>3. new \in [Payments \X Targets -> Nat] /\ paid \in [Targets -> Nat]
  BY <1>2
<1>4. /\ \A q \in Payments, e \in Targets :
            new[<<q, e>>] = books.settled[<<q, e>>] + (IF q = p /\ e = d THEN amount ELSE 0)
      /\ \A e \in Targets : paid[e] = books.paid[e] + (IF e = d THEN amount ELSE 0)
  BY <1>2
<1>5. books' = [books EXCEPT !.settled = new, !.paid = paid]
  BY <1>1, <1>2 DEF Books
<1> HIDE DEF new, paid
<1>6. /\ books' \in Books /\ books'.settled = new /\ books'.paid = paid
      /\ books'.paper = books.paper
  BY <1>2, <1>3, <1>5 DEF Books
<1>7. Joined(books')
  BY <1>1, <1>2, <1>4, <1>6 DEF Joined
<1>8. WithinTotals(books')
  <2>1. ASSUME NEW e \in Targets PROVE paid[e] <= PaperTotal(e)
    <3>1. books.paid[e] \in Nat /\ books.paid[e] <= PaperTotal(e) /\ PaperTotal(e) \in Nat
      BY <1>2, PapersAreFinite DEF WithinTotals, Paid
    <3>2. amount <= PaperTotal(d) - books.paid[d]
      BY <1>1 DEF Paid
    <3> QED BY <1>4, <3>1, <3>2
  <2> QED BY <1>6, <2>1 DEF WithinTotals, Paid
<1>9. ASSUME NEW e \in Targets, e \notin drifted PROVE paid[e] = Settled(books', e)
  <2>1. books.paid[e] = Settled(books, e) /\ Settled(books, e) \in Nat
    BY <1>2, <1>9, SettledIs DEF PapersInv, PaidInv, PaidUp, Paid
  <2>2. \A q \in Payments \ {p} : new[<<q, e>>] = books.settled[<<q, e>>]
    BY <1>2, <1>4
  <2>3. /\ Settled(books', e) = Settled(books, e) + new[<<p, e>>] - books.settled[<<p, e>>]
        /\ books.settled[<<p, e>>] \in Nat
    BY <1>2, <1>6, <2>2, SettledMoves
  <2>4. new[<<p, e>>] = books.settled[<<p, e>>] + (IF e = d THEN amount ELSE 0)
    BY <1>4
  <2> QED BY <1>4, <2>1, <2>3, <2>4
<1>10. PaidInv'
  BY <1>1, <1>6, <1>9 DEF PaidInv, PaidUp, Paid, Settled
<1>11. UndoingInv'
  BY <1>1, <1>6 DEF PapersInv, UndoingInv, NotUndoing
<1>12. MadeInv'
  BY <1>1, <1>6, MadeStays DEF PapersInv
<1> QED BY <1>6, <1>7, <1>8, <1>10, <1>11, <1>12 DEF PapersInv, Joined, WithinTotals, Paid, Books

LEMMA RequestBegins ==
    ASSUME PapersInv, NEW by, NEW of, NEW makes, StartRequest(by, of, makes),
           \A d \in makes : d \in Generated /\ books.paper[d] = "NONE",
           \A q \in begun : q.makes \cap makes = {}
    PROVE  PapersInv'
<1> DEFINE r == [by |-> by, of |-> of, makes |-> makes]
<1>1. begun' = begun \cup {r} /\ r.makes = makes /\ UNCHANGED <<books, undoing, drifted>>
  BY DEF StartRequest
<1> HIDE DEF r
<1>2. MadeInv'
  BY <1>1 DEF PapersInv, MadeInv
<1>3. UndoingInv'
  BY <1>1 DEF PapersInv, UndoingInv, NotUndoing
<1>4. PaidInv'
  BY <1>1 DEF PapersInv, PaidInv, PaidUp, Paid, Settled
<1> QED BY <1>1, <1>2, <1>3, <1>4 DEF PapersInv, Joined, WithinTotals, Paid, Books

LEMMA ChargesAsk ==
    ASSUME PapersInv,
           \/ \E c \in JobCharges : AskToDrop(c) \/ AskToIssue(c) \/ AskToBill(c)
           \/ \E j \in Jobs : AskToBillOrder(j)
    PROVE  PapersInv'
<1>1. ASSUME NEW cs, NEW whole, NEW d \in Unmade(cs, whole)
      PROVE  /\ d \in Generated /\ books.paper[d] = "NONE"
             /\ \A q \in begun : q.makes \cap {d} = {}
  BY DEF Unmade
<1>2. ASSUME NEW by, NEW of, NEW cs, NEW whole, NEW d \in Unmade(cs, whole), StartRequest(by, of, {d})
      PROVE  PapersInv'
  <2>1. \A e \in {d} : e \in Generated /\ books.paper[e] = "NONE"
    BY <1>1
  <2>2. \A q \in begun : q.makes \cap {d} = {}
    BY <1>1
  <2> QED BY <1>2, <2>1, <2>2, RequestBegins
<1>3. ASSUME NEW by, NEW of, StartRequest(by, of, {}) PROVE PapersInv'
  BY <1>3, RequestBegins
<1>4. ASSUME NEW c, AskToDrop(c) \/ AskToIssue(c) \/ AskToBill(c) PROVE PapersInv'
  BY <1>2, <1>3, <1>4, Zenon DEF AskToDrop, AskToIssue, AskToBill
<1>5. ASSUME NEW j, AskToBillOrder(j) PROVE PapersInv'
  BY <1>2, <1>5, Zenon DEF AskToBillOrder
<1> QED BY <1>4, <1>5

LEMMA RequestCommits == ASSUME PapersInv, NEW q \in begun, CommitRequest(q) PROVE PapersInv'
<1> DEFINE made == [d \in Papers |-> IF d \in q.makes THEN "DRAFT" ELSE books.paper[d]]
           marked == [c \in JobCharges |->
                        IF c \notin q.of \/ q.by \in {"charge", "order"} THEN books.charge[c]
                        ELSE IF q.by = "issue" THEN "ISSUED" ELSE "GONE"]
<1>1. /\ books' = [books EXCEPT !.paper = made, !.charge = marked]
      /\ begun' = begun \ {q} /\ UNCHANGED <<undoing, drifted>>
  BY DEF CommitRequest, Commit
<1>2. /\ books \in Books
      /\ books.paper \in [Papers -> {"NONE", "DRAFT", "POSTED", "REVERSED"}]
      /\ books.charge \in [JobCharges -> {"NONE", "DRAFT", "ISSUED", "GONE"}]
  BY DEF PapersInv, Books
<1>3. /\ made \in [Papers -> {"NONE", "DRAFT", "POSTED", "REVERSED"}]
      /\ marked \in [JobCharges -> {"NONE", "DRAFT", "ISSUED", "GONE"}]
  BY <1>2
<1>4. \A d \in Papers : made[d] = IF d \in q.makes THEN "DRAFT" ELSE books.paper[d]
  OBVIOUS
<1> HIDE DEF made, marked
<1>5. /\ books' \in Books /\ books'.settled = books.settled /\ books'.paid = books.paid
      /\ books'.paper = made
  BY <1>1, <1>2, <1>3 DEF Books
<1>6. \A e \in Papers : books.paper[e] = "POSTED" => books'.paper[e] = "POSTED"
  BY <1>4, <1>5 DEF PapersInv, MadeInv
<1>7. \A r \in begun' : \A e \in r.makes : books'.paper[e] = books.paper[e]
  <2>1. ASSUME NEW r \in begun, r # q, NEW e \in r.makes PROVE made[e] = books.paper[e]
    <3>1. e \notin q.makes /\ e \in Papers
      BY <2>1 DEF PapersInv, MadeInv, Generated
    <3> QED BY <1>4, <3>1
  <2> QED BY <1>1, <1>5, <2>1
<1>8. MadeInv'
  BY <1>1, <1>7, MadeStays DEF PapersInv
<1> QED BY <1>1, <1>5, <1>6, <1>8, PostedStay DEF PapersInv

LEMMA OthersKeepPapers ==
    ASSUME PapersInv,
           \/ \E d \in Papers : BeginReversal(d)
           \/ FailReversal
           \/ \E q \in begun : FailRequest(q)
           \/ \E c \in JobCharges : DraftCharge(c)
           \/ \E j \in Jobs, s \in {"INACTIVE", "FINISHED"} : MoveJob(j, s)
    PROVE  PapersInv'
<1>1. books \in Books /\ WithinTotals(books)
  BY DEF PapersInv
<1>2. ASSUME UNCHANGED <<books, drifted>>, begun' \subseteq begun, UndoingInv' PROVE PapersInv'
  <2>1. MadeInv'
    BY <1>2, MadeStays DEF PapersInv
  <2>2. PaidInv'
    BY <1>2 DEF PapersInv, PaidInv, PaidUp, Paid, Settled
  <2> QED BY <1>2, <2>1, <2>2 DEF PapersInv, Joined, WithinTotals, Paid, Books
<1>3. ASSUME NEW d \in Papers, BeginReversal(d) PROVE PapersInv'
  <2>1. /\ books.paper[d] = "POSTED" /\ undoing' = [doc |-> d, seen |-> books.paid]
        /\ UNCHANGED <<books, drifted, begun>>
    BY <1>3 DEF BeginReversal
  <2>2. undoing'.doc = d /\ undoing'.seen = books.paid
    BY <2>1
  <2>3. books.paid \in [Targets -> Nat] /\ \A t \in Targets : books.paid[t] <= PaperTotal(t)
    BY <1>1 DEF Books, WithinTotals, Paid
  <2>4. UndoingInv'
    BY <2>1, <2>2, <2>3 DEF UndoingInv
  <2> QED BY <1>2, <2>1, <2>4
<1>4. ASSUME FailReversal \/ \E q \in begun : FailRequest(q) PROVE PapersInv'
  <2>1. /\ UNCHANGED <<books, drifted>> /\ begun' \subseteq begun
        /\ undoing' \in {undoing, NotUndoing}
    BY <1>4 DEF FailReversal, FailRequest
  <2>2. UndoingInv'
    BY <2>1 DEF PapersInv, UndoingInv, NotUndoing
  <2> QED BY <1>2, <2>1, <2>2
<1>5. ASSUME UNCHANGED <<undoing, drifted, begun>>, books' \in Books, books'.settled = books.settled,
             books'.paid = books.paid, books'.paper = books.paper
      PROVE  PapersInv'
  <2>1. MadeInv'
    BY <1>5, MadeStays DEF PapersInv
  <2> QED BY <1>5, <2>1, PostedStay DEF PapersInv
<1>6. ASSUME NEW c, DraftCharge(c) PROVE PapersInv'
  <2>1. books' = [books EXCEPT !.charge[c] = "DRAFT"] /\ UNCHANGED <<undoing, drifted, begun>>
    BY <1>6 DEF DraftCharge, Commit, requestVars
  <2> QED BY <1>1, <1>5, <2>1 DEF Books
<1>7. ASSUME NEW j, NEW s \in {"INACTIVE", "FINISHED"}, MoveJob(j, s) PROVE PapersInv'
  <2>1. books' = [books EXCEPT !.job[j] = s] /\ UNCHANGED <<undoing, drifted, begun>>
    BY <1>7 DEF MoveJob, Commit, requestVars
  <2> QED BY <1>1, <1>5, <2>1 DEF Books
<1> QED BY <1>3, <1>4, <1>6, <1>7

LEMMA PapersStep == ASSUME PapersInv, [BalancesNext]_balanceVars PROVE PapersInv'
<1>1. ASSUME UNCHANGED <<books, undoing, drifted, begun>> PROVE PapersInv'
  BY <1>1 DEF PapersInv, UndoingInv, MadeInv, PaidInv, PaidUp, Settled, Joined, WithinTotals,
              Paid, Books, NotUndoing
<1>2. CASE BalancesNext
  <2>1. CASE \E o \in Boards :
                \/ \E r \in ReportNames : AskReport(o, r)
                \/ ReadPart(o) \/ StoreList(o) \/ Answer(o)
    BY <1>1, <2>1 DEF AskReport, ReadPart, StoreList, Answer, requestVars
  <2>2. CASE (\E r \in ReportNames : ExpireReport(r)) \/ BumpShelf
    BY <1>1, <2>2 DEF ExpireReport, BumpShelf, requestVars
  <2>3. CASE \E d \in Papers : SaveDraft(d) \/ DeleteDraft(d) \/ PostDraft(d) \/ BeginReversal(d)
    BY <2>3, PapersMove, OthersKeepPapers
  <2>4. CASE \E p \in Payments, d \in Targets : \E amount \in 1..PaperTotal(p) : AllocatePart(p, d, amount)
    <3>1. PICK p \in Payments, d \in Targets : \E amount \in 1..PaperTotal(p) : AllocatePart(p, d, amount)
      BY <2>4
    <3>2. PICK amount \in 1..PaperTotal(p) : AllocatePart(p, d, amount)
      BY <3>1
    <3>3. amount \in Nat
      BY PapersAreFinite
    <3> QED BY <3>2, <3>3, AllocationSettles
  <2>5. CASE \/ \E c \in JobCharges : DraftCharge(c) \/ AskToDrop(c) \/ AskToIssue(c) \/ AskToBill(c)
             \/ \E j \in Jobs : AskToBillOrder(j)
    BY <2>5, ChargesAsk, OthersKeepPapers
  <2>6. CASE \E q \in begun : CommitRequest(q) \/ FailRequest(q)
    BY <2>6, RequestCommits, OthersKeepPapers
  <2>7. CASE FinishReversal \/ FailReversal
    BY <2>7, ReversalFinishes, OthersKeepPapers
  <2>8. CASE \E j \in Jobs, s \in {"INACTIVE", "FINISHED"} : MoveJob(j, s)
    BY <2>8, OthersKeepPapers
  <2> QED BY <1>2, <2>1, <2>2, <2>3, <2>4, <2>5, <2>6, <2>7, <2>8 DEF BalancesNext
<1>3. CASE UNCHANGED balanceVars
  BY <1>1, <1>3 DEF balanceVars
<1> QED BY <1>2, <1>3

-----------------------------------------------------------------------------
(* The lines of a document: at most one on each account, adding up to       *)
(* nothing.                                                                 *)
NetAt(d, a) ==
    LET n == PaperOf[d].net
        t == PaperOf[d].tax
        type == PaperOf[d].type
    IN CASE a = "AR" -> (CASE type = "CUSTOMER_INVOICE" -> n + t [] type = "CREDIT_NOTE" -> -(n + t)
                           [] type = "CUSTOMER_RECEIPT" -> -n [] OTHER -> 0)
         [] a = "AP" -> (CASE type = "SUPPLIER_BILL" -> -(n + t) [] type = "SUPPLIER_PAYMENT" -> n
                           [] OTHER -> 0)
         [] a = "CASH" -> (CASE type = "CUSTOMER_RECEIPT" -> n [] type = "SUPPLIER_PAYMENT" -> -n
                             [] OTHER -> 0)
         [] a = "TAX" -> (CASE type = "CUSTOMER_INVOICE" -> -t [] type = "CREDIT_NOTE" -> t
                            [] type = "SUPPLIER_BILL" -> t [] OTHER -> 0)
         [] a = "REVENUE" -> (CASE type = "CUSTOMER_INVOICE" -> -n [] type = "CREDIT_NOTE" -> n
                                [] OTHER -> 0)
         [] a = "EXPENSE" -> (CASE type = "SUPPLIER_BILL" -> n [] OTHER -> 0)
LineIs(d, l) ==
    /\ l = [paper |-> d, account |-> l.account, debit |-> l.debit, credit |-> l.credit]
    /\ l.paper = d /\ l.account \in AccountCodes /\ l.debit \in Nat /\ l.credit \in Nat
    /\ l.debit - l.credit = NetAt(d, l.account)

LEMMA LinesAre ==
    ASSUME NEW d \in Papers
    PROVE  /\ \A l \in LinesOf(d) : LineIs(d, l)
           /\ \A l, m \in LinesOf(d) : l.account = m.account => l = m
           /\ \A a \in AccountCodes :
                 NetAt(d, a) \in Int /\ (NetAt(d, a) # 0 => \E l \in LinesOf(d) : l.account = a)
<1> DEFINE n == PaperOf[d].net
           t == PaperOf[d].tax
           line(account, debit, credit) ==
              [paper |-> d, account |-> account, debit |-> debit, credit |-> credit]
<1>1. n \in Nat /\ t \in Nat /\ PaperOf[d].type \in Types
  BY BalancesAssumption
<1>2. CASE PaperOf[d].type = "CUSTOMER_INVOICE"
  <2>1. LinesOf(d) = {line("AR", n + t, 0), line("REVENUE", 0, n), line("TAX", 0, t)}
    BY <1>2 DEF LinesOf
  <2>2. NetAt(d, "AR") = n + t /\ NetAt(d, "AP") = 0 /\ NetAt(d, "CASH") = 0
        /\ NetAt(d, "TAX") = -t /\ NetAt(d, "REVENUE") = -n /\ NetAt(d, "EXPENSE") = 0
    BY <1>2 DEF NetAt
  <2> HIDE DEF n, t
  <2> QED BY <1>1, <2>1, <2>2 DEF LineIs, AccountCodes
<1>3. CASE PaperOf[d].type = "CREDIT_NOTE"
  <2>1. LinesOf(d) = {line("AR", 0, n + t), line("REVENUE", n, 0), line("TAX", t, 0)}
    BY <1>3 DEF LinesOf
  <2>2. NetAt(d, "AR") = -(n + t) /\ NetAt(d, "AP") = 0 /\ NetAt(d, "CASH") = 0
        /\ NetAt(d, "TAX") = t /\ NetAt(d, "REVENUE") = n /\ NetAt(d, "EXPENSE") = 0
    BY <1>3 DEF NetAt
  <2> HIDE DEF n, t
  <2> QED BY <1>1, <2>1, <2>2 DEF LineIs, AccountCodes
<1>4. CASE PaperOf[d].type = "SUPPLIER_BILL"
  <2>1. LinesOf(d) = {line("AP", 0, n + t), line("EXPENSE", n, 0), line("TAX", t, 0)}
    BY <1>4 DEF LinesOf
  <2>2. NetAt(d, "AR") = 0 /\ NetAt(d, "AP") = -(n + t) /\ NetAt(d, "CASH") = 0
        /\ NetAt(d, "TAX") = t /\ NetAt(d, "REVENUE") = 0 /\ NetAt(d, "EXPENSE") = n
    BY <1>4 DEF NetAt
  <2> HIDE DEF n, t
  <2> QED BY <1>1, <2>1, <2>2 DEF LineIs, AccountCodes
<1>5. CASE PaperOf[d].type = "CUSTOMER_RECEIPT"
  <2>1. LinesOf(d) = {line("CASH", n, 0), line("AR", 0, n)}
    BY <1>5 DEF LinesOf
  <2>2. NetAt(d, "AR") = -n /\ NetAt(d, "AP") = 0 /\ NetAt(d, "CASH") = n
        /\ NetAt(d, "TAX") = 0 /\ NetAt(d, "REVENUE") = 0 /\ NetAt(d, "EXPENSE") = 0
    BY <1>5 DEF NetAt
  <2> HIDE DEF n, t
  <2> QED BY <1>1, <2>1, <2>2 DEF LineIs, AccountCodes
<1>6. CASE PaperOf[d].type = "SUPPLIER_PAYMENT"
  <2>1. LinesOf(d) = {line("AP", n, 0), line("CASH", 0, n)}
    BY <1>6 DEF LinesOf
  <2>2. NetAt(d, "AR") = 0 /\ NetAt(d, "AP") = n /\ NetAt(d, "CASH") = -n
        /\ NetAt(d, "TAX") = 0 /\ NetAt(d, "REVENUE") = 0 /\ NetAt(d, "EXPENSE") = 0
    BY <1>6 DEF NetAt
  <2> HIDE DEF n, t
  <2> QED BY <1>1, <2>1, <2>2 DEF LineIs, AccountCodes
<1> QED BY <1>1, <1>2, <1>3, <1>4, <1>5, <1>6 DEF Types

LEMMA LinesBalance ==
    ASSUME NEW d \in Papers
    PROVE  NetAt(d, "AR") + NetAt(d, "AP") + NetAt(d, "CASH") + NetAt(d, "TAX")
             + NetAt(d, "REVENUE") + NetAt(d, "EXPENSE") = 0
<1> DEFINE n == PaperOf[d].net
           t == PaperOf[d].tax
           type == PaperOf[d].type
<1>1. n \in Nat /\ t \in Nat /\ type \in Types
  BY BalancesAssumption
<1>2. /\ NetAt(d, "AR") = IF type = "CUSTOMER_INVOICE" THEN n + t ELSE IF type = "CREDIT_NOTE" THEN -(n + t)
                           ELSE IF type = "CUSTOMER_RECEIPT" THEN -n ELSE 0
      /\ NetAt(d, "AP") = IF type = "SUPPLIER_BILL" THEN -(n + t)
                           ELSE IF type = "SUPPLIER_PAYMENT" THEN n ELSE 0
      /\ NetAt(d, "CASH") = IF type = "CUSTOMER_RECEIPT" THEN n
                             ELSE IF type = "SUPPLIER_PAYMENT" THEN -n ELSE 0
  BY DEF NetAt
<1>3. /\ NetAt(d, "TAX") = IF type = "CUSTOMER_INVOICE" THEN -t
                            ELSE IF type \in {"CREDIT_NOTE", "SUPPLIER_BILL"} THEN t ELSE 0
      /\ NetAt(d, "REVENUE") = IF type = "CUSTOMER_INVOICE" THEN -n
                                ELSE IF type = "CREDIT_NOTE" THEN n ELSE 0
      /\ NetAt(d, "EXPENSE") = IF type = "SUPPLIER_BILL" THEN n ELSE 0
  BY DEF NetAt
<1> HIDE DEF n, t, type
<1> QED BY <1>1, <1>2, <1>3 DEF Types

(* What customers, suppliers and documents of each type put on the books.   *)
LEMMA ControlNets ==
    ASSUME NEW d \in Papers
    PROVE  LET type == PaperOf[d].type
               total == PaperTotal(d)
           IN /\ type = "CUSTOMER_INVOICE" => NetAt(d, "AR") = total /\ NetAt(d, "AP") = 0
              /\ type = "CREDIT_NOTE" => NetAt(d, "AR") = -total /\ NetAt(d, "AP") = 0
              /\ type = "CUSTOMER_RECEIPT" => NetAt(d, "AR") = -total /\ NetAt(d, "AP") = 0
              /\ type = "SUPPLIER_BILL" => NetAt(d, "AP") = -total /\ NetAt(d, "AR") = 0
              /\ type = "SUPPLIER_PAYMENT" => NetAt(d, "AP") = total /\ NetAt(d, "AR") = 0
              /\ type \in Types
<1>1. PaperOf[d].net \in Nat /\ PaperOf[d].tax \in Nat /\ PaperOf[d].type \in Types
      /\ (PaperOf[d].type \in {"CUSTOMER_RECEIPT", "SUPPLIER_PAYMENT"} => PaperOf[d].tax = 0)
  BY BalancesAssumption
<1> QED BY <1>1 DEF NetAt, Types, PaperTotal

-----------------------------------------------------------------------------
(* The journal: what each posted document, and each reversed one twice, has *)
(* put in it.                                                               *)
Posting(l) == [of |-> "posting", line |-> l]
Reversal(l) == [of |-> "reversal", line |-> Mirrored(l)]
Journalled(b, d, l, x) ==
    \/ b.paper[d] \in {"POSTED", "REVERSED"} /\ x = Posting(l)
    \/ b.paper[d] = "REVERSED" /\ x = Reversal(l)
PutOn(b, d, a) == IF b.paper[d] = "POSTED" THEN NetAt(d, a) ELSE 0
LineNets(set) == [x \in set |-> x.line.debit - x.line.credit]
LinesAt(b, d, a) == {x \in PostedJournalLines(b) : x.line.paper = d /\ x.line.account = a}

LEMMA JournalIs ==
    ASSUME NEW b \in Books, NEW x
    PROVE  x \in PostedJournalLines(b)
              <=> \E d \in Papers : \E l \in LinesOf(d) : Journalled(b, d, l, x)
<1>1. \A s : \A d : d \in InState(b, Types, s) <=> d \in Papers /\ b.paper[d] = s
  BY BalancesAssumption DEF InState, OfType
<1> DEFINE kept(status) == UNION {LinesOf(d) : d \in InState(b, Types, status)}
<1>2. \A s, l : l \in kept(s) <=> \E d \in Papers : b.paper[d] = s /\ l \in LinesOf(d)
  BY <1>1
<1>3. PostedJournalLines(b) = {[of |-> "posting", line |-> l] : l \in kept("POSTED") \cup kept("REVERSED")}
         \cup {[of |-> "reversal", line |-> Mirrored(l)] : l \in kept("REVERSED")}
  BY DEF PostedJournalLines
<1> HIDE DEF kept
<1>4. x \in PostedJournalLines(b)
         <=> \/ \E l : (l \in kept("POSTED") \/ l \in kept("REVERSED")) /\ x = [of |-> "posting", line |-> l]
             \/ \E l : l \in kept("REVERSED") /\ x = [of |-> "reversal", line |-> Mirrored(l)]
  BY <1>3, Zenon
<1> QED BY <1>2, <1>4 DEF Journalled, Posting, Reversal

LEMMA MirroredIs ==
    ASSUME NEW d \in Papers, NEW l \in LinesOf(d)
    PROVE  /\ Mirrored(l).paper = d /\ Mirrored(l).account = l.account
           /\ Mirrored(l).debit = l.credit /\ Mirrored(l).credit = l.debit
<1>1. LineIs(d, l)
  BY LinesAre
<1> QED BY <1>1 DEF LineIs, Mirrored

(* Where a line of the journal comes from.                                  *)
LEMMA LineOfPaper ==
    ASSUME NEW b \in Books, NEW x \in PostedJournalLines(b)
    PROVE  /\ x.line.paper \in Papers /\ x.line.account \in AccountCodes
           /\ x.line.debit \in Nat /\ x.line.credit \in Nat
           /\ x.of \in {"posting", "reversal"}
           /\ \E l \in LinesOf(x.line.paper) :
                 l.account = x.line.account /\ Journalled(b, x.line.paper, l, x)
<1>1. PICK d \in Papers : \E l \in LinesOf(d) : Journalled(b, d, l, x)
  BY JournalIs
<1>2. PICK l \in LinesOf(d) : Journalled(b, d, l, x)
  BY <1>1
<1>3. LineIs(d, l)
  BY LinesAre
<1>4. CASE x = Posting(l)
  <2>1. x.line = l /\ x.of = "posting"
    BY <1>4 DEF Posting
  <2> QED BY <1>2, <1>3, <2>1 DEF LineIs
<1>5. CASE x = Reversal(l)
  <2>1. x.line = Mirrored(l) /\ x.of = "reversal"
    BY <1>5 DEF Reversal
  <2> QED BY <1>2, <1>3, <2>1, MirroredIs DEF LineIs
<1> QED BY <1>2, <1>4, <1>5 DEF Journalled

LEMMA AccountsAreFinite == IsFiniteSet(AccountCodes)
<1>1. AccountCodes = (((({"AR"} \cup {"AP"}) \cup {"CASH"}) \cup {"TAX"}) \cup {"REVENUE"}) \cup {"EXPENSE"}
  BY DEF AccountCodes
<1>2. IsFiniteSet({"AR"}) /\ IsFiniteSet({"AR"} \cup {"AP"})
  BY FS_Singleton, FS_AddElement
<1>3. IsFiniteSet(({"AR"} \cup {"AP"}) \cup {"CASH"})
  BY <1>2, FS_AddElement
<1>4. IsFiniteSet((({"AR"} \cup {"AP"}) \cup {"CASH"}) \cup {"TAX"})
  BY <1>3, FS_AddElement
<1>5. IsFiniteSet(((({"AR"} \cup {"AP"}) \cup {"CASH"}) \cup {"TAX"}) \cup {"REVENUE"})
  BY <1>4, FS_AddElement
<1>6. IsFiniteSet((((({"AR"} \cup {"AP"}) \cup {"CASH"}) \cup {"TAX"}) \cup {"REVENUE"}) \cup {"EXPENSE"})
  BY <1>5, FS_AddElement
<1> QED BY <1>1, <1>6, Zenon

LEMMA JournalIsFinite == ASSUME NEW b \in Books PROVE IsFiniteSet(PostedJournalLines(b))
<1> DEFINE P == PostedJournalLines(b)
           keys == {"posting", "reversal"} \X (Papers \X AccountCodes)
           key == [x \in P |-> <<x.of, <<x.line.paper, x.line.account>>>>]
<1>1. IsFiniteSet({"posting", "reversal"}) /\ IsFiniteSet(AccountCodes)
  <2>1. {"posting", "reversal"} = {"posting"} \cup {"reversal"}
    OBVIOUS
  <2>2. IsFiniteSet({"posting"} \cup {"reversal"})
    BY FS_Singleton, FS_AddElement
  <2> QED BY <2>1, <2>2, AccountsAreFinite, Zenon
<1>2. IsFiniteSet(keys)
  BY <1>1, PapersAreFinite, FS_Product
<1>3. key \in [P -> keys]
  BY LineOfPaper
<1>4. ASSUME NEW x \in P, NEW y \in P, key[x] = key[y] PROVE x = y
  <2>1. x.of = y.of /\ x.line.paper = y.line.paper /\ x.line.account = y.line.account
    BY <1>4
  <2>2. PICK l \in LinesOf(x.line.paper) :
           l.account = x.line.account /\ Journalled(b, x.line.paper, l, x)
    BY LineOfPaper
  <2>3. PICK m \in LinesOf(y.line.paper) :
           m.account = y.line.account /\ Journalled(b, y.line.paper, m, y)
    BY LineOfPaper
  <2>4. x.line.paper \in Papers
    BY LineOfPaper
  <2>5. l = m
    BY <2>1, <2>2, <2>3, <2>4, LinesAre
  <2>6. Posting(l).of = "posting" /\ Reversal(l).of = "reversal"
    BY DEF Posting, Reversal
  <2> QED BY <2>1, <2>2, <2>3, <2>5, <2>6 DEF Journalled
<1> HIDE DEF key, keys, P
<1>5. key \in Injection(P, keys)
  BY <1>3, <1>4 DEF Injection, IsInjective
<1>6. IsFiniteSet(P)
  BY <1>2, <1>5, FS_Injection
<1> QED BY <1>6 DEF P

(* Each paper's lines on an account come to what it is worth there while it *)
(* is posted, and to nothing once it is reversed.                           *)
LEMMA PaperNet ==
    ASSUME NEW b \in Books, NEW d \in Papers, NEW a \in AccountCodes
    PROVE  /\ SumIn(LineNets(PostedJournalLines(b)), LinesAt(b, d, a)) = PutOn(b, d, a)
           /\ PutOn(b, d, a) \in Int
<1> DEFINE P == PostedJournalLines(b)
           S == LinesAt(b, d, a)
           am == LineNets(P)
<1>1. NetAt(d, a) \in Int /\ PutOn(b, d, a) \in Int
  BY LinesAre DEF PutOn
<1>2. \A x \in P : am[x] = x.line.debit - x.line.credit
  BY DEF LineNets
<1>3. SumIn(am, {}) = 0
  BY FS_EmptySet, SumOfParts
<1>4. ASSUME NEW x \in S
      PROVE  \E l \in LinesOf(d) : l.account = a /\ Journalled(b, d, l, x)
  BY LineOfPaper DEF LinesAt
<1>5. CASE ~ \E l \in LinesOf(d) : l.account = a
  <2>1. S = {}
    BY <1>4, <1>5
  <2>2. NetAt(d, a) = 0
    BY <1>5, LinesAre
  <2> QED BY <1>1, <1>3, <2>1, <2>2 DEF PutOn
<1>6. CASE \E l \in LinesOf(d) : l.account = a
  <2>1. PICK l \in LinesOf(d) : l.account = a
    BY <1>6
  <2>2. LineIs(d, l)
    BY LinesAre
  <2>3. \A m \in LinesOf(d) : m.account = a => m = l
    BY <2>1, LinesAre
  <2>4. ASSUME NEW x PROVE x \in S <=> Journalled(b, d, l, x)
    <3>1. ASSUME Journalled(b, d, l, x) PROVE x \in S
      <4>1. x \in P
        BY <3>1, JournalIs
      <4>2. Posting(l).line = l /\ Reversal(l).line = Mirrored(l)
        BY DEF Posting, Reversal
      <4>3. x.line.paper = d /\ x.line.account = a
        BY <2>1, <2>2, <3>1, <4>2, MirroredIs DEF Journalled, LineIs
      <4> QED BY <4>1, <4>3 DEF LinesAt
    <3>2. ASSUME x \in S PROVE Journalled(b, d, l, x)
      BY <1>4, <2>3, <3>2
    <3> QED BY <3>1, <3>2
  <2>5. /\ l.debit - l.credit = NetAt(d, a) /\ l.debit \in Nat /\ l.credit \in Nat
    BY <2>1, <2>2 DEF LineIs
  <2>6. Posting(l) \in P => am[Posting(l)] = NetAt(d, a)
    BY <1>2, <2>5 DEF Posting
  <2>7. Reversal(l) \in P => am[Reversal(l)] = -NetAt(d, a)
    <3>1. Reversal(l).line.debit = l.credit /\ Reversal(l).line.credit = l.debit
      BY MirroredIs DEF Reversal
    <3> QED BY <1>2, <2>5, <3>1
  <2>8. S \subseteq P
    BY DEF LinesAt
  <2> HIDE DEF S, P, am
  <2>9. CASE b.paper[d] = "POSTED"
    <3>1. S = {Posting(l)}
      BY <2>4, <2>9 DEF Journalled
    <3>2. am[Posting(l)] = NetAt(d, a)
      BY <2>6, <2>8, <3>1
    <3>3. SumIn(am, {Posting(l)}) = am[Posting(l)]
      BY <1>1, <3>2, SumOfOne
    <3>4. SumIn(am, S) = NetAt(d, a)
      BY <3>1, <3>2, <3>3, Zenon
    <3> QED BY <1>1, <2>9, <3>4 DEF PutOn, S, P, am
  <2>10. CASE b.paper[d] = "REVERSED"
    <3>1. S = {Posting(l), Reversal(l)}
      BY <2>4, <2>10 DEF Journalled
    <3>2. am[Posting(l)] = NetAt(d, a) /\ am[Reversal(l)] = -NetAt(d, a)
      BY <2>6, <2>7, <2>8, <3>1
    <3>3. Posting(l) \notin {Reversal(l)} /\ S = {Reversal(l)} \cup {Posting(l)}
      <4>1. Posting(l).of = "posting" /\ Reversal(l).of = "reversal"
        BY DEF Posting, Reversal
      <4> QED BY <3>1, <4>1
    <3>4. SumIn(am, {Reversal(l)}) = am[Reversal(l)]
      BY <1>1, <3>2, SumOfOne
    <3>5. SumIn(am, {Reversal(l)} \cup {Posting(l)}) = am[Posting(l)] + SumIn(am, {Reversal(l)})
      <4>1. IsFiniteSet({Reversal(l)})
        BY FS_Singleton, Zenon
      <4>2. am[Posting(l)] \in Int /\ am[Reversal(l)] \in Int
        BY <1>1, <3>2
      <4>3. \A x \in {Reversal(l)} \cup {Posting(l)} : am[x] \in Int
        BY <4>2
      <4> QED BY <3>3, <4>1, <4>3, SumWith
    <3>6. SumIn(am, S) = am[Posting(l)] + am[Reversal(l)]
      BY <3>3, <3>4, <3>5, Zenon
    <3>7. SumIn(am, S) = 0
      BY <1>1, <3>2, <3>6
    <3> QED BY <1>1, <2>10, <3>7 DEF PutOn, S, P, am
  <2>11. CASE b.paper[d] \notin {"POSTED", "REVERSED"}
    <3>1. S = {}
      BY <2>4, <2>11 DEF Journalled
    <3>2. SumIn(am, S) = 0
      BY <1>3, <3>1, Zenon
    <3> QED BY <1>1, <2>11, <3>2 DEF PutOn, S, P, am
  <2> QED BY <2>9, <2>10, <2>11
<1> QED BY <1>5, <1>6

-----------------------------------------------------------------------------
(* What is debited less what is credited.                                   *)
LEMMA NetOfLines ==
    ASSUME NEW b \in Books, NEW S \in SUBSET PostedJournalLines(b)
    PROVE  /\ Debited(S) \in Int /\ Credited(S) \in Int
           /\ Debited(S) - Credited(S) = SumIn(LineNets(PostedJournalLines(b)), S)
<1> DEFINE P == PostedJournalLines(b)
           in == [l \in S |-> l.line.debit]
           out == [l \in S |-> l.line.credit]
           am == LineNets(P)
<1>1. IsFiniteSet(S)
  BY JournalIsFinite, FS_Subset
<1>2. \A x \in S : x.line.debit \in Nat /\ x.line.credit \in Nat /\ x \in P
  BY LineOfPaper
<1>3. \A x \in S : am[x] = x.line.debit - x.line.credit
  BY <1>2 DEF LineNets
<1>4. DOMAIN in = S /\ DOMAIN out = S /\ \A x \in S : in[x] = x.line.debit /\ out[x] = x.line.credit
  OBVIOUS
<1>5. Debited(S) = SumFunction(in) /\ Credited(S) = SumFunction(out)
  BY DEF Debited, Credited
<1> HIDE DEF in, out, am, P
<1>6. Debited(S) = SumIn(in, S) /\ Credited(S) = SumIn(out, S)
  BY <1>4, <1>5, ColumnSum
<1>7. \A x \in S : in[x] \in Int /\ out[x] \in Int /\ am[x] = in[x] - out[x]
  BY <1>2, <1>3, <1>4
<1>8. SumIn(am, S) = SumIn(in, S) - SumIn(out, S)
  BY <1>1, <1>7, SumOfDifference
<1>9. SumIn(in, S) \in Int /\ SumIn(out, S) \in Int
  BY <1>1, <1>7, SumIsInt
<1> QED BY <1>6, <1>8, <1>9 DEF am, P

LEMMA AmountsAreInt ==
    ASSUME NEW b \in Books, NEW x \in PostedJournalLines(b)
    PROVE  LineNets(PostedJournalLines(b))[x] \in Int
<1>1. x.line.debit \in Nat /\ x.line.credit \in Nat
  BY LineOfPaper
<1> QED BY <1>1 DEF LineNets

(* The balance of an account is what the posted papers put on it.           *)
Nets(b, a) == [d \in Papers |-> PutOn(b, d, a)]
LEMMA BalanceIs ==
    ASSUME NEW b \in Books, NEW a \in AccountCodes
    PROVE  BalanceOf(b, a) = SumIn(Nets(b, a), Papers)
<1> DEFINE P == PostedJournalLines(b)
           S == {l \in P : l.line.account = a}
           am == LineNets(P)
           f == [x \in P |-> x.line.paper]
           g == Nets(b, a)
<1>1. BalanceOf(b, a) = SumIn(am, S)
  <2>1. S \in SUBSET P
    OBVIOUS
  <2>2. BalanceOf(b, a) = Debited(S) - Credited(S)
    BY DEF BalanceOf
  <2> HIDE DEF S
  <2> QED BY <2>1, <2>2, NetOfLines
<1>2. \A x \in S : f[x] \in Papers
  BY LineOfPaper
<1>3. \A x \in S : am[x] \in Int
  BY AmountsAreInt
<1>4. IsFiniteSet(S)
  BY JournalIsFinite, FS_Subset
<1>5. ASSUME NEW d \in Papers PROVE g[d] = SumIn(am, {x \in S : f[x] = d})
  <2>1. {x \in S : f[x] = d} = LinesAt(b, d, a)
    BY DEF LinesAt
  <2>2. g[d] = PutOn(b, d, a)
    BY DEF Nets
  <2>3. SumIn(am, LinesAt(b, d, a)) = PutOn(b, d, a)
    BY PaperNet
  <2> QED BY <2>1, <2>2, <2>3, Zenon
<1> HIDE DEF P, S, am, f, g
<1>6. ByParts(g, am, f, S, Papers)
  BY <1>5 DEF ByParts
<1>7. SumIn(am, S) = SumIn(g, Papers)
  BY <1>2, <1>3, <1>4, <1>6, PapersAreFinite, SumByParts
<1> QED BY <1>1, <1>7 DEF g

-----------------------------------------------------------------------------
(* What every paper puts on the books adds up to nothing, and so does the   *)
(* journal.                                                                 *)
LEMMA SixAccounts ==
    ASSUME NEW g, \A a \in AccountCodes : g[a] \in Int
    PROVE  SumIn(g, AccountCodes) =
              g["AR"] + g["AP"] + g["CASH"] + g["TAX"] + g["REVENUE"] + g["EXPENSE"]
<1> DEFINE A1 == {"EXPENSE"}
           A2 == A1 \cup {"REVENUE"}
           A3 == A2 \cup {"TAX"}
           A4 == A3 \cup {"CASH"}
           A5 == A4 \cup {"AP"}
           A6 == A5 \cup {"AR"}
<1>1. /\ "REVENUE" \notin A1 /\ "TAX" \notin A2 /\ "CASH" \notin A3 /\ "AP" \notin A4
      /\ "AR" \notin A5 /\ A6 = AccountCodes
  BY DEF AccountCodes
<1>2. /\ \A x \in A1 : g[x] \in Int
      /\ \A x \in A2 : g[x] \in Int
      /\ \A x \in A3 : g[x] \in Int
      /\ \A x \in A4 : g[x] \in Int
      /\ \A x \in A5 : g[x] \in Int
      /\ \A x \in A6 : g[x] \in Int
  BY DEF AccountCodes
<1>3. IsFiniteSet(A1)
  BY FS_Singleton, Zenon
<1>4. g["EXPENSE"] \in Int
  BY <1>2
<1>5. SumIn(g, A1) = g["EXPENSE"]
  BY <1>4, SumOfOne
<1> HIDE DEF A1
<1>6. IsFiniteSet(A2)
  BY <1>3, FS_AddElement
<1>7. SumIn(g, A2) = g["REVENUE"] + SumIn(g, A1)
  BY <1>1, <1>2, <1>3, SumWith
<1> HIDE DEF A2
<1>8. IsFiniteSet(A3)
  BY <1>6, FS_AddElement
<1>9. SumIn(g, A3) = g["TAX"] + SumIn(g, A2)
  BY <1>1, <1>2, <1>6, SumWith
<1> HIDE DEF A3
<1>10. IsFiniteSet(A4)
  BY <1>8, FS_AddElement
<1>11. SumIn(g, A4) = g["CASH"] + SumIn(g, A3)
  BY <1>1, <1>2, <1>8, SumWith
<1> HIDE DEF A4
<1>12. IsFiniteSet(A5)
  BY <1>10, FS_AddElement
<1>13. SumIn(g, A5) = g["AP"] + SumIn(g, A4)
  BY <1>1, <1>2, <1>10, SumWith
<1> HIDE DEF A5
<1>14. SumIn(g, A6) = g["AR"] + SumIn(g, A5)
  BY <1>1, <1>2, <1>12, SumWith
<1>15. SumIn(g, AccountCodes) = SumIn(g, A6)
  BY <1>1, Zenon
<1>16. /\ g["AR"] \in Int /\ g["AP"] \in Int /\ g["CASH"] \in Int /\ g["TAX"] \in Int
       /\ g["REVENUE"] \in Int
  BY DEF AccountCodes
<1> QED BY <1>4, <1>5, <1>7, <1>9, <1>11, <1>13, <1>14, <1>15, <1>16

Nothing == [d \in Papers |-> 0]
LEMMA JournalBalances == ASSUME NEW b \in Books PROVE TrialBalanced(b)
<1> DEFINE P == PostedJournalLines(b)
           am == LineNets(P)
           f == [x \in P |-> x.line.paper]
           h == [x \in P |-> x.line.account]
<1>1. IsFiniteSet(P) /\ \A x \in P : /\ am[x] \in Int /\ f[x] \in Papers
                                     /\ h[x] \in AccountCodes
  BY JournalIsFinite, AmountsAreInt, LineOfPaper
<1>2. ASSUME NEW d \in Papers PROVE Nothing[d] = SumIn(am, {x \in P : f[x] = d})
  <2> DEFINE S == {x \in P : f[x] = d}
             g == [a \in AccountCodes |-> PutOn(b, d, a)]
  <2>1. S \subseteq P /\ IsFiniteSet(S)
    BY <1>1, FS_Subset
  <2>2. ASSUME NEW a \in AccountCodes PROVE g[a] = SumIn(am, {x \in S : h[x] = a})
    <3>1. {x \in S : h[x] = a} = LinesAt(b, d, a)
      BY DEF LinesAt
    <3>2. SumIn(am, LinesAt(b, d, a)) = PutOn(b, d, a) /\ g[a] = PutOn(b, d, a)
      BY PaperNet
    <3> QED BY <3>1, <3>2, Zenon
  <2>3. \A a \in AccountCodes : g[a] \in Int /\ g[a] = PutOn(b, d, a)
    BY PaperNet
  <2>4. IsFiniteSet(AccountCodes)
    BY AccountsAreFinite
  <2> HIDE DEF P, S, am, f, h, g
  <2>5. ByParts(g, am, h, S, AccountCodes)
    BY <2>2 DEF ByParts
  <2>6. SumIn(am, S) = SumIn(g, AccountCodes)
    BY <1>1, <2>1, <2>4, <2>5, SumByParts
  <2>7. g["AR"] + g["AP"] + g["CASH"] + g["TAX"] + g["REVENUE"] + g["EXPENSE"] = 0
    <3>1. /\ g["AR"] = PutOn(b, d, "AR") /\ g["AP"] = PutOn(b, d, "AP")
          /\ g["CASH"] = PutOn(b, d, "CASH") /\ g["TAX"] = PutOn(b, d, "TAX")
          /\ g["REVENUE"] = PutOn(b, d, "REVENUE") /\ g["EXPENSE"] = PutOn(b, d, "EXPENSE")
      BY <2>3 DEF AccountCodes
    <3> QED BY <3>1, LinesBalance DEF PutOn
  <2>8. SumIn(am, S) = 0
    BY <2>3, <2>6, <2>7, SixAccounts
  <2> QED BY <2>8 DEF S, Nothing
<1>3. SumIn(Nothing, Papers) = 0
  BY PapersAreFinite, SumOfZeros DEF Nothing
<1> HIDE DEF am, f, h, P
<1>4. ByParts(Nothing, am, f, P, Papers)
  BY <1>2 DEF ByParts
<1>5. SumIn(am, P) = SumIn(Nothing, Papers)
  BY <1>1, <1>4, PapersAreFinite, SumByParts
<1>6. /\ Debited(P) \in Int /\ Credited(P) \in Int
      /\ Debited(P) - Credited(P) = SumIn(am, P)
  BY NetOfLines DEF P, am
<1>7. Debited(P) = Credited(P)
  BY <1>3, <1>5, <1>6
<1> QED BY <1>7 DEF TrialBalanced, P

-----------------------------------------------------------------------------
(* The cards, as sums over all papers.                                      *)
PostedOf(b, type, d) == PaperOf[d].type = type /\ b.paper[d] = "POSTED"
Balances(b, type) ==
    [d \in Papers |-> IF PostedOf(b, type, d) THEN PaperTotal(d) - Paid(b, d) ELSE 0]
Worths(b, type) == [d \in Papers |-> IF PostedOf(b, type, d) THEN PaperTotal(d) ELSE 0]
Applied(b, type) == [d \in Papers |-> IF PaperOf[d].type = type THEN Settled(b, d) ELSE 0]
Amiss(b, late, type) ==
    [d \in Papers |-> IF PostedOf(b, type, d) /\ d \in late THEN Settled(b, d) - Paid(b, d) ELSE 0]

LEMMA NothingSettlesOthers ==
    ASSUME NEW b, BooksSound(b), NEW d \in Targets, b.paper[d] # "POSTED"
    PROVE  Settled(b, d) = 0
<1>1. b \in Books /\ Joined(b)
  BY SoundIs
<1>2. /\ Settled(b, d) = SumIn(SettledBy(b, d), Payments)
      /\ \A p \in Payments : SettledBy(b, d)[p] = b.settled[<<p, d>>]
  BY <1>1, SettledIs
<1>3. \A p \in Payments : SettledBy(b, d)[p] = 0
  BY <1>1, <1>2 DEF Joined
<1> QED BY <1>2, <1>3, PapersAreFinite, SumOfZeros

LEMMA PostedAre ==
    ASSUME NEW b, NEW type, NEW d
    PROVE  d \in InState(b, {type}, "POSTED") <=> d \in Papers /\ PostedOf(b, type, d)
BY DEF InState, OfType, PostedOf

LEMMA CardIs ==
    ASSUME NEW b, BooksSound(b), NEW type \in {"CUSTOMER_INVOICE", "SUPPLIER_BILL"}
    PROVE  /\ CardTotal(Owed(b, type)) = SumIn(Balances(b, type), Papers)
           /\ \A d \in Papers : Balances(b, type)[d] \in Nat
<1> DEFINE list == Owed(b, type)
           S == InState(b, {type}, "POSTED")
           u == [d \in DOMAIN list |-> list[d].balance]
           a == Balances(b, type)
<1>1. DOMAIN list = S /\ \A d \in S : list[d].balance = PaperTotal(d) - Paid(b, d)
  BY DEF Owed, Outstanding
<1>2. CardTotal(list) = SumFunction(u) /\ DOMAIN u = S /\ \A d \in S : u[d] = list[d].balance
  BY <1>1 DEF CardTotal
<1>3. \A d : d \in S <=> d \in Papers /\ PostedOf(b, type, d)
  BY PostedAre
<1>4. \A d \in Papers : a[d] = IF PostedOf(b, type, d) THEN PaperTotal(d) - Paid(b, d) ELSE 0
  BY DEF Balances
<1> HIDE DEF list, S, u, a
<1>5. b \in Books /\ WithinTotals(b)
  BY SoundIs
<1>6. ASSUME NEW d \in Papers PROVE a[d] \in Nat
  <2>1. CASE PostedOf(b, type, d)
    <3>1. d \in Targets
      BY <2>1 DEF PostedOf, Targets, OfType
    <3>2. Paid(b, d) \in Nat /\ PaperTotal(d) \in Nat /\ Paid(b, d) <= PaperTotal(d)
      BY <1>5, <3>1, SettledIs, PapersAreFinite DEF WithinTotals
    <3> QED BY <1>4, <2>1, <3>2
  <2> QED BY <1>4, <2>1
<1>7. CardTotal(list) = SumIn(u, S)
  BY <1>2, ColumnSum
<1>8. S \in SUBSET Papers /\ \A d \in S : u[d] = a[d]
  BY <1>1, <1>2, <1>3, <1>4
<1>9. \A d \in Papers \ S : a[d] = 0
  BY <1>3, <1>4
<1>10. SumIn(u, S) = SumIn(a, Papers)
  <2>1. \A d \in Papers : a[d] \in Int
    BY <1>6
  <2> QED BY <1>8, <1>9, <2>1, PapersAreFinite, SumWithin
<1> QED BY <1>6, <1>7, <1>10 DEF a, list

LEMMA WorthIs ==
    ASSUME NEW b, NEW type
    PROVE  /\ Worth(InState(b, {type}, "POSTED")) = SumIn(Worths(b, type), Papers)
           /\ \A d \in Papers : Worths(b, type)[d] \in Nat
<1> DEFINE S == InState(b, {type}, "POSTED")
           u == [d \in S |-> PaperTotal(d)]
           a == Worths(b, type)
<1>1. Worth(S) = SumFunction(u) /\ DOMAIN u = S /\ \A d \in S : u[d] = PaperTotal(d)
  BY DEF Worth
<1>2. \A d : d \in S <=> d \in Papers /\ PostedOf(b, type, d)
  BY PostedAre
<1>3. \A d \in Papers : a[d] = IF PostedOf(b, type, d) THEN PaperTotal(d) ELSE 0
  BY DEF Worths
<1> HIDE DEF S, u, a
<1>4. \A d \in Papers : a[d] \in Nat
  BY <1>3, PapersAreFinite
<1>5. Worth(S) = SumIn(u, S)
  BY <1>1, ColumnSum
<1>6. S \in SUBSET Papers /\ (\A d \in S : u[d] = a[d]) /\ (\A d \in Papers \ S : a[d] = 0)
  BY <1>1, <1>2, <1>3
<1>7. SumIn(u, S) = SumIn(a, Papers)
  <2>1. \A d \in Papers : a[d] \in Int
    BY <1>4
  <2> QED BY <1>6, <2>1, PapersAreFinite, SumWithin
<1> QED BY <1>4, <1>5, <1>7 DEF a, S

LEMMA AppliedIs ==
    ASSUME NEW b, BooksSound(b), NEW type \in {"CUSTOMER_INVOICE", "SUPPLIER_BILL"}
    PROVE  /\ SumFunction([d \in OfType({type}) |-> Settled(b, d)]) = SumIn(Applied(b, type), Papers)
           /\ \A d \in Papers : Applied(b, type)[d] \in Nat
<1> DEFINE S == OfType({type})
           u == [d \in S |-> Settled(b, d)]
           a == Applied(b, type)
<1>1. DOMAIN u = S /\ \A d \in S : u[d] = Settled(b, d)
  OBVIOUS
<1>2. \A d : d \in S <=> d \in Papers /\ PaperOf[d].type = type
  BY DEF OfType
<1>3. \A d \in Papers : a[d] = IF PaperOf[d].type = type THEN Settled(b, d) ELSE 0
  BY DEF Applied
<1>4. \A d \in S : Settled(b, d) \in Nat
  <2>1. \A d \in S : d \in Targets
    BY DEF Targets, OfType
  <2> QED BY <2>1, SettledIs, SoundIs
<1> HIDE DEF S, u, a
<1>5. \A d \in Papers : a[d] \in Nat
  BY <1>2, <1>3, <1>4
<1>6. SumFunction(u) = SumIn(u, S)
  BY <1>1, ColumnSum
<1>7. S \in SUBSET Papers /\ (\A d \in S : u[d] = a[d]) /\ (\A d \in Papers \ S : a[d] = 0)
  BY <1>1, <1>2, <1>3
<1>8. SumIn(u, S) = SumIn(a, Papers)
  <2>1. \A d \in Papers : a[d] \in Int
    BY <1>5
  <2> QED BY <1>7, <2>1, PapersAreFinite, SumWithin
<1> QED BY <1>5, <1>6, <1>8 DEF a, S, u

(* What stale amounts lost or forgot.                                       *)
LEMMA AmissIs ==
    ASSUME NEW b, BooksSound(b), NEW late, NEW type \in {"CUSTOMER_INVOICE", "SUPPLIER_BILL"}
    PROVE  /\ SumFunction([d \in InState(b, {type}, "POSTED") \cap late |-> Settled(b, d) - Paid(b, d)])
                 = SumIn(Amiss(b, late, type), Papers)
           /\ \A d \in Papers : Amiss(b, late, type)[d] \in Int
<1> DEFINE S == InState(b, {type}, "POSTED") \cap late
           u == [d \in S |-> Settled(b, d) - Paid(b, d)]
           a == Amiss(b, late, type)
<1>1. DOMAIN u = S /\ \A d \in S : u[d] = Settled(b, d) - Paid(b, d)
  OBVIOUS
<1>2. \A d : d \in S <=> d \in Papers /\ PostedOf(b, type, d) /\ d \in late
  BY PostedAre
<1>3. \A d \in Papers : a[d] = IF PostedOf(b, type, d) /\ d \in late
                              THEN Settled(b, d) - Paid(b, d) ELSE 0
  BY DEF Amiss
<1>4. \A d \in S : Settled(b, d) - Paid(b, d) \in Int
  <2>1. ASSUME NEW d \in S PROVE Settled(b, d) \in Nat /\ Paid(b, d) \in Nat
    <3>1. d \in Targets
      BY <1>2 DEF PostedOf, Targets, OfType
    <3> QED BY <3>1, SettledIs, SoundIs
  <2> HIDE DEF S
  <2> QED BY <2>1
<1> HIDE DEF S, u, a
<1>5. \A d \in Papers : a[d] \in Int
  BY <1>2, <1>3, <1>4
<1>6. SumFunction(u) = SumIn(u, S)
  BY <1>1, ColumnSum
<1>7. S \in SUBSET Papers /\ (\A d \in S : u[d] = a[d]) /\ (\A d \in Papers \ S : a[d] = 0)
  BY <1>1, <1>2, <1>3
<1>8. SumIn(u, S) = SumIn(a, Papers)
  BY <1>5, <1>7, PapersAreFinite, SumWithin
<1> QED BY <1>5, <1>6, <1>8 DEF a, S, u

LEMMA NetsAre ==
    ASSUME NEW b \in Books, NEW a \in AccountCodes
    PROVE  /\ BalanceOf(b, a) = SumIn(Nets(b, a), Papers)
           /\ \A d \in Papers : Nets(b, a)[d] = PutOn(b, d, a) /\ Nets(b, a)[d] \in Int
BY BalanceIs, PaperNet DEF Nets

-----------------------------------------------------------------------------
(* The receivables card is what the ledger says customers owe, but for what *)
(* no invoice has taken and for what went amiss; payables likewise.         *)
LEMMA ReceivablesMeet ==
    ASSUME NEW b, BooksSound(b), NEW late, \A d \in Targets \ late : PaidUp(b, d)
    PROVE  CardTotal(Owed(b, "CUSTOMER_INVOICE")) =
              BalanceOf(b, "AR") + Worth(InState(b, {"CREDIT_NOTE"}, "POSTED"))
                + Worth(InState(b, {"CUSTOMER_RECEIPT"}, "POSTED"))
                - SumFunction([d \in OfType({"CUSTOMER_INVOICE"}) |-> Settled(b, d)])
                + SumFunction([d \in InState(b, {"CUSTOMER_INVOICE"}, "POSTED") \cap late |->
                                  Settled(b, d) - Paid(b, d)])
<1> DEFINE card == Balances(b, "CUSTOMER_INVOICE")
           ar == Nets(b, "AR")
           cn == Worths(b, "CREDIT_NOTE")
           cr == Worths(b, "CUSTOMER_RECEIPT")
           ap == Applied(b, "CUSTOMER_INVOICE")
           am == Amiss(b, late, "CUSTOMER_INVOICE")
           x == [d \in Papers |-> ar[d] + cn[d]]
           y == [d \in Papers |-> cr[d] - ap[d]]
           z == [d \in Papers |-> x[d] + y[d]]
<1>1. b \in Books /\ "AR" \in AccountCodes
  BY SoundIs DEF AccountCodes
<1>2. \A d \in Papers : /\ ar[d] = PutOn(b, d, "AR") /\ ar[d] \in Int
                        /\ cn[d] \in Int /\ cr[d] \in Int /\ ap[d] \in Int /\ am[d] \in Int
                        /\ card[d] \in Int
  <2>1. \A d \in Papers : ar[d] = PutOn(b, d, "AR") /\ ar[d] \in Int
    BY <1>1, NetsAre
  <2>2. \A d \in Papers : cn[d] \in Nat /\ cr[d] \in Nat
    BY WorthIs
  <2>3. /\ \A d \in Papers : ap[d] \in Nat
        /\ \A d \in Papers : card[d] \in Nat
        /\ \A d \in Papers : am[d] \in Int
    BY AppliedIs, CardIs, AmissIs
  <2> HIDE DEF ar, cn, cr, ap, am, card
  <2> QED BY <2>1, <2>2, <2>3
<1>3. ASSUME NEW d \in Papers PROVE card[d] = ((ar[d] + cn[d]) + (cr[d] - ap[d])) + am[d]
  <2>1. /\ cn[d] = IF PostedOf(b, "CREDIT_NOTE", d) THEN PaperTotal(d) ELSE 0
        /\ cr[d] = IF PostedOf(b, "CUSTOMER_RECEIPT", d) THEN PaperTotal(d) ELSE 0
        /\ ap[d] = IF PaperOf[d].type = "CUSTOMER_INVOICE" THEN Settled(b, d) ELSE 0
        /\ am[d] = IF PostedOf(b, "CUSTOMER_INVOICE", d) /\ d \in late THEN Settled(b, d) - Paid(b, d) ELSE 0
        /\ card[d] = IF PostedOf(b, "CUSTOMER_INVOICE", d) THEN PaperTotal(d) - Paid(b, d) ELSE 0
    BY DEF Worths, Applied, Amiss, Balances
  <2>2. PaperOf[d].type = "CUSTOMER_INVOICE" =>
           /\ Paid(b, d) \in Nat /\ Settled(b, d) \in Nat
           /\ b.paper[d] # "POSTED" => Settled(b, d) = 0
           /\ d \notin late => Paid(b, d) = Settled(b, d)
    <3>1. PaperOf[d].type = "CUSTOMER_INVOICE" => d \in Targets
      BY DEF Targets, OfType
    <3> QED BY <1>1, <3>1, NothingSettlesOthers, SettledIs DEF PaidUp
  <2>3. /\ (PaperOf[d].type = "CUSTOMER_INVOICE") => NetAt(d, "AR") = PaperTotal(d)
        /\ (PaperOf[d].type = "CREDIT_NOTE") => NetAt(d, "AR") = -PaperTotal(d)
        /\ (PaperOf[d].type = "CUSTOMER_RECEIPT") => NetAt(d, "AR") = -PaperTotal(d)
        /\ (PaperOf[d].type \in {"SUPPLIER_BILL", "SUPPLIER_PAYMENT"}) => NetAt(d, "AR") = 0
        /\ PaperOf[d].type \in Types /\ PaperTotal(d) \in Nat
    BY ControlNets, PapersAreFinite
  <2>4. ar[d] = IF b.paper[d] = "POSTED" THEN NetAt(d, "AR") ELSE 0
    BY <1>2 DEF PutOn
  <2> HIDE DEF card, ar, cn, cr, ap, am
  <2>5. CASE b.paper[d] = "POSTED"
    BY <2>1, <2>2, <2>3, <2>4, <2>5 DEF PostedOf, Types
  <2>6. CASE b.paper[d] # "POSTED"
    BY <2>1, <2>2, <2>3, <2>4, <2>6 DEF PostedOf, Types
  <2> QED BY <2>5, <2>6
<1>4. /\ CardTotal(Owed(b, "CUSTOMER_INVOICE")) = SumIn(card, Papers)
      /\ BalanceOf(b, "AR") = SumIn(ar, Papers)
      /\ Worth(InState(b, {"CREDIT_NOTE"}, "POSTED")) = SumIn(cn, Papers)
      /\ Worth(InState(b, {"CUSTOMER_RECEIPT"}, "POSTED")) = SumIn(cr, Papers)
      /\ SumFunction([d \in OfType({"CUSTOMER_INVOICE"}) |-> Settled(b, d)]) = SumIn(ap, Papers)
      /\ SumFunction([d \in InState(b, {"CUSTOMER_INVOICE"}, "POSTED") \cap late |-> Settled(b, d) - Paid(b, d)])
            = SumIn(am, Papers)
  BY <1>1, CardIs, NetsAre, WorthIs, AppliedIs, AmissIs
<1> HIDE DEF card, ar, cn, cr, ap, am
<1>5. \A d \in Papers : /\ x[d] = ar[d] + cn[d] /\ x[d] \in Int
                        /\ y[d] = cr[d] - ap[d] /\ y[d] \in Int
                        /\ z[d] = x[d] + y[d] /\ z[d] \in Int
  BY <1>2
<1> HIDE DEF x, y, z
<1>6. SumIn(x, Papers) = SumIn(ar, Papers) + SumIn(cn, Papers)
  BY <1>2, <1>5, PapersAreFinite, SumOfTwo
<1>7. SumIn(y, Papers) = SumIn(cr, Papers) - SumIn(ap, Papers)
  BY <1>2, <1>5, PapersAreFinite, SumOfDifference
<1>8. \A d \in Papers : card[d] = z[d] + am[d]
  BY <1>3, <1>5
<1>9. SumIn(z, Papers) = SumIn(x, Papers) + SumIn(y, Papers)
  BY <1>5, PapersAreFinite, SumOfTwo
<1>11. SumIn(card, Papers) = SumIn(z, Papers) + SumIn(am, Papers)
  BY <1>2, <1>5, <1>8, PapersAreFinite, SumOfTwo
<1>10. /\ SumIn(ar, Papers) \in Int /\ SumIn(cn, Papers) \in Int /\ SumIn(cr, Papers) \in Int
       /\ SumIn(ap, Papers) \in Int /\ SumIn(am, Papers) \in Int
  BY <1>2, PapersAreFinite, SumIsInt
<1> QED BY <1>4, <1>6, <1>7, <1>9, <1>10, <1>11

LEMMA PayablesMeet ==
    ASSUME NEW b, BooksSound(b), NEW late, \A d \in Targets \ late : PaidUp(b, d)
    PROVE  CardTotal(Owed(b, "SUPPLIER_BILL")) =
              -BalanceOf(b, "AP") + Worth(InState(b, {"SUPPLIER_PAYMENT"}, "POSTED"))
                - SumFunction([d \in OfType({"SUPPLIER_BILL"}) |-> Settled(b, d)])
                + SumFunction([d \in InState(b, {"SUPPLIER_BILL"}, "POSTED") \cap late |->
                                  Settled(b, d) - Paid(b, d)])
<1> DEFINE card == Balances(b, "SUPPLIER_BILL")
           ar == Nets(b, "AP")
           sp == Worths(b, "SUPPLIER_PAYMENT")
           ap == Applied(b, "SUPPLIER_BILL")
           am == Amiss(b, late, "SUPPLIER_BILL")
           x == [d \in Papers |-> sp[d] - ar[d]]
           y == [d \in Papers |-> x[d] - ap[d]]
<1>1. b \in Books /\ "AP" \in AccountCodes
  BY SoundIs DEF AccountCodes
<1>2. \A d \in Papers : /\ ar[d] = PutOn(b, d, "AP") /\ ar[d] \in Int
                        /\ sp[d] \in Int /\ ap[d] \in Int /\ am[d] \in Int
                        /\ card[d] \in Int
  <2>1. \A d \in Papers : ar[d] = PutOn(b, d, "AP") /\ ar[d] \in Int
    BY <1>1, NetsAre
  <2>2. \A d \in Papers : sp[d] \in Nat
    BY WorthIs
  <2>3. /\ \A d \in Papers : ap[d] \in Nat
        /\ \A d \in Papers : card[d] \in Nat
        /\ \A d \in Papers : am[d] \in Int
    BY AppliedIs, CardIs, AmissIs
  <2> HIDE DEF ar, sp, ap, am, card
  <2> QED BY <2>1, <2>2, <2>3
<1>3. ASSUME NEW d \in Papers PROVE card[d] = ((sp[d] - ar[d]) - ap[d]) + am[d]
  <2>1. /\ sp[d] = IF PostedOf(b, "SUPPLIER_PAYMENT", d) THEN PaperTotal(d) ELSE 0
        /\ ap[d] = IF PaperOf[d].type = "SUPPLIER_BILL" THEN Settled(b, d) ELSE 0
        /\ am[d] = IF PostedOf(b, "SUPPLIER_BILL", d) /\ d \in late THEN Settled(b, d) - Paid(b, d) ELSE 0
        /\ card[d] = IF PostedOf(b, "SUPPLIER_BILL", d) THEN PaperTotal(d) - Paid(b, d) ELSE 0
    BY DEF Worths, Applied, Amiss, Balances
  <2>2. PaperOf[d].type = "SUPPLIER_BILL" =>
           /\ Paid(b, d) \in Nat /\ Settled(b, d) \in Nat
           /\ b.paper[d] # "POSTED" => Settled(b, d) = 0
           /\ d \notin late => Paid(b, d) = Settled(b, d)
    <3>1. PaperOf[d].type = "SUPPLIER_BILL" => d \in Targets
      BY DEF Targets, OfType
    <3> QED BY <1>1, <3>1, NothingSettlesOthers, SettledIs DEF PaidUp
  <2>3. /\ (PaperOf[d].type = "SUPPLIER_BILL") => NetAt(d, "AP") = -PaperTotal(d)
        /\ (PaperOf[d].type = "SUPPLIER_PAYMENT") => NetAt(d, "AP") = PaperTotal(d)
        /\ (PaperOf[d].type \in {"CUSTOMER_INVOICE", "CREDIT_NOTE", "CUSTOMER_RECEIPT"})
              => NetAt(d, "AP") = 0
        /\ PaperOf[d].type \in Types /\ PaperTotal(d) \in Nat
    BY ControlNets, PapersAreFinite
  <2>4. ar[d] = IF b.paper[d] = "POSTED" THEN NetAt(d, "AP") ELSE 0
    BY <1>2 DEF PutOn
  <2> HIDE DEF card, ar, sp, ap, am
  <2>5. CASE b.paper[d] = "POSTED"
    BY <2>1, <2>2, <2>3, <2>4, <2>5 DEF PostedOf, Types
  <2>6. CASE b.paper[d] # "POSTED"
    BY <2>1, <2>2, <2>3, <2>4, <2>6 DEF PostedOf, Types
  <2> QED BY <2>5, <2>6
<1>4. /\ CardTotal(Owed(b, "SUPPLIER_BILL")) = SumIn(card, Papers)
      /\ BalanceOf(b, "AP") = SumIn(ar, Papers)
      /\ Worth(InState(b, {"SUPPLIER_PAYMENT"}, "POSTED")) = SumIn(sp, Papers)
      /\ SumFunction([d \in OfType({"SUPPLIER_BILL"}) |-> Settled(b, d)]) = SumIn(ap, Papers)
      /\ SumFunction([d \in InState(b, {"SUPPLIER_BILL"}, "POSTED") \cap late |-> Settled(b, d) - Paid(b, d)])
            = SumIn(am, Papers)
  BY <1>1, CardIs, NetsAre, WorthIs, AppliedIs, AmissIs
<1> HIDE DEF card, ar, sp, ap, am
<1>5. \A d \in Papers : /\ x[d] = sp[d] - ar[d] /\ x[d] \in Int
                        /\ y[d] = x[d] - ap[d] /\ y[d] \in Int
  BY <1>2
<1> HIDE DEF x, y
<1>6. SumIn(x, Papers) = SumIn(sp, Papers) - SumIn(ar, Papers)
  BY <1>2, <1>5, PapersAreFinite, SumOfDifference
<1>7. \A d \in Papers : card[d] = y[d] + am[d]
  BY <1>3, <1>5
<1>8. SumIn(y, Papers) = SumIn(x, Papers) - SumIn(ap, Papers)
  BY <1>2, <1>5, PapersAreFinite, SumOfDifference
<1>10. SumIn(card, Papers) = SumIn(y, Papers) + SumIn(am, Papers)
  BY <1>2, <1>5, <1>7, PapersAreFinite, SumOfTwo
<1>9. SumIn(ar, Papers) \in Int /\ SumIn(sp, Papers) \in Int /\ SumIn(ap, Papers) \in Int
      /\ SumIn(am, Papers) \in Int
  BY <1>2, PapersAreFinite, SumIsInt
<1> QED BY <1>4, <1>6, <1>8, <1>9, <1>10

-----------------------------------------------------------------------------
(* The aging of receivables adds up to their card.                          *)
LEMMA BucketsAreFinite == IsFiniteSet(Buckets)
<1>1. Buckets = ((({"not_due"} \cup {"d1_30"}) \cup {"d31_60"}) \cup {"d61_90"}) \cup {"d90_plus"}
  BY DEF Buckets
<1>2. IsFiniteSet({"not_due"}) /\ IsFiniteSet({"not_due"} \cup {"d1_30"})
  BY FS_Singleton, FS_AddElement
<1>3. IsFiniteSet(({"not_due"} \cup {"d1_30"}) \cup {"d31_60"})
  BY <1>2, FS_AddElement
<1>4. IsFiniteSet((({"not_due"} \cup {"d1_30"}) \cup {"d31_60"}) \cup {"d61_90"})
  BY <1>3, FS_AddElement
<1>5. IsFiniteSet(((({"not_due"} \cup {"d1_30"}) \cup {"d31_60"}) \cup {"d61_90"}) \cup {"d90_plus"})
  BY <1>4, FS_AddElement
<1> QED BY <1>1, <1>5, Zenon

LEMMA AgingMeetsTheCard ==
    ASSUME NEW b, BooksSound(b)
    PROVE  CardTotal(Owed(b, "CUSTOMER_INVOICE")) = SumFunction(Aging(Owed(b, "CUSTOMER_INVOICE")))
<1> DEFINE list == Owed(b, "CUSTOMER_INVOICE")
           a == Balances(b, "CUSTOMER_INVOICE")
           S == {d \in DOMAIN list : list[d].balance > 0}
           f == [d \in Papers |-> BucketOf(d)]
           g == Aging(list)
           InBucket(k) == {d \in DOMAIN list : list[d].balance > 0 /\ BucketOf(d) = k}
<1>1. /\ CardTotal(list) = SumIn(a, Papers)
      /\ \A d \in Papers : a[d] \in Nat
  BY CardIs
<1>2. /\ DOMAIN list \subseteq Papers
      /\ \A d \in DOMAIN list : list[d].balance = a[d]
      /\ \A d \in Papers \ DOMAIN list : a[d] = 0
  <2>1. DOMAIN list = InState(b, {"CUSTOMER_INVOICE"}, "POSTED")
    BY DEF Owed
  <2>2. \A d \in DOMAIN list : list[d].balance = PaperTotal(d) - Paid(b, d)
    BY DEF Owed, Outstanding
  <2> HIDE DEF list
  <2> QED BY <2>1, <2>2, PostedAre DEF Balances
<1>3. \A d \in Papers : f[d] \in Buckets
  BY DEF BucketOf, Buckets
<1>4. ASSUME NEW k \in Buckets
      PROVE  g[k] = SumIn([d \in InBucket(k) |-> list[d].balance], InBucket(k))
  <2> DEFINE u == [d \in InBucket(k) |-> list[d].balance]
  <2>1. g[k] = SumFunction(u)
    BY DEF Aging
  <2>2. DOMAIN u = InBucket(k)
    OBVIOUS
  <2> HIDE DEF u
  <2>3. g[k] = SumIn(u, InBucket(k))
    BY <2>1, <2>2, ColumnSum
  <2> QED BY <2>3 DEF u
<1>5. DOMAIN g = Buckets
  BY DEF Aging
<1> HIDE DEF list, a, g
<1>6. S \subseteq Papers /\ IsFiniteSet(S) /\ \A d \in S : a[d] \in Int /\ f[d] \in Buckets
  <2>1. S \subseteq Papers
    BY <1>2
  <2> QED BY <1>1, <1>3, <2>1, PapersAreFinite, FS_Subset
<1>7. ASSUME NEW k \in Buckets PROVE g[k] = SumIn(a, {d \in S : f[d] = k})
  <2> DEFINE u == [d \in InBucket(k) |-> list[d].balance]
  <2>1. InBucket(k) = {d \in S : f[d] = k}
    BY <1>2
  <2>2. IsFiniteSet(InBucket(k)) /\ \A d \in InBucket(k) : u[d] = a[d]
    <3>1. InBucket(k) \subseteq S
      OBVIOUS
    <3>2. IsFiniteSet(InBucket(k))
      BY <1>6, <3>1, FS_Subset
    <3> QED BY <1>2, <3>2
  <2>3. g[k] = SumIn(u, InBucket(k))
    BY <1>4
  <2> HIDE DEF u, InBucket, S, f
  <2>4. g[k] = SumIn(a, InBucket(k))
    BY <2>2, <2>3, SumOfSame
  <2> QED BY <2>1, <2>4, Zenon
<1>8. \A d \in Papers \ S : a[d] = 0
  BY <1>1, <1>2
<1> HIDE DEF S, f, InBucket
<1>9. ByParts(g, a, f, S, Buckets)
  BY <1>7 DEF ByParts
<1>10. SumIn(a, S) = SumIn(g, Buckets)
  BY <1>6, <1>9, BucketsAreFinite, SumByParts
<1>11. SumIn(a, S) = SumIn(a, Papers)
  <2>1. \A d \in Papers : a[d] \in Int
    BY <1>1
  <2>2. S \in SUBSET Papers /\ \A d \in S : a[d] = a[d]
    BY <1>6
  <2> QED BY <1>8, <2>1, <2>2, PapersAreFinite, SumWithin
<1>12. SumFunction(g) = SumIn(g, Buckets)
  BY <1>5, ColumnSum
<1> QED BY <1>1, <1>10, <1>11, <1>12 DEF list, g

LEMMA CardsMeet == ASSUME PapersInv PROVE CardsMeetTheLedger
<1>1. BooksSound(books) /\ TrialBalanced(books) /\ \A d \in Targets \ drifted : PaidUp(books, d)
  BY JournalBalances, SoundIs DEF PapersInv, PaidInv
<1> QED BY <1>1, ReceivablesMeet, PayablesMeet, AgingMeetsTheCard DEF CardsMeetTheLedger

-----------------------------------------------------------------------------
(* What is uninvoiced.                                                      *)
Totals == [d \in Papers |-> PaperTotal(d)]
Charges == [c \in JobCharges |-> ChargeOf[c].amount]
LEMMA WorthOf ==
    ASSUME NEW S \in SUBSET Papers
    PROVE  IsFiniteSet(S) /\ Worth(S) = SumIn(Totals, S) /\ Worth(S) \in Int
<1> DEFINE u == [d \in S |-> PaperTotal(d)]
<1>1. IsFiniteSet(S) /\ \A d \in S : Totals[d] \in Int
  BY PapersAreFinite, FS_Subset DEF Totals
<1>2. DOMAIN u = S /\ \A d \in S : u[d] = Totals[d]
  BY DEF Totals
<1>3. Worth(S) = SumFunction(u)
  BY DEF Worth
<1> HIDE DEF u
<1>4. Worth(S) = SumIn(u, S)
  BY <1>2, <1>3, ColumnSum
<1>5. SumIn(u, S) = SumIn(Totals, S)
  BY <1>1, <1>2, SumOfSame
<1> QED BY <1>1, <1>4, <1>5, SumIsInt

LEMMA ChargedOf ==
    ASSUME NEW S \in SUBSET JobCharges
    PROVE  /\ IsFiniteSet(S) /\ Charged(S) = SumIn(Charges, S) /\ Charged(S) \in Int
           /\ \A c \in S : Charges[c] = ChargeOf[c].amount /\ Charges[c] \in Int
<1> DEFINE u == [c \in S |-> ChargeOf[c].amount]
<1>1. /\ IsFiniteSet(S)
      /\ \A c \in S : Charges[c] = ChargeOf[c].amount /\ Charges[c] \in Int
  BY BalancesAssumption, PapersAreFinite, FS_Subset DEF Charges
<1>2. DOMAIN u = S /\ \A c \in S : u[c] = Charges[c]
  BY DEF Charges
<1>3. Charged(S) = SumFunction(u)
  BY DEF Charged
<1> HIDE DEF u
<1>4. Charged(S) = SumIn(u, S)
  BY <1>2, <1>3, ColumnSum
<1>5. SumIn(u, S) = SumIn(Charges, S)
  BY <1>1, <1>2, SumOfSame
<1> QED BY <1>1, <1>4, <1>5, SumIsInt

(* Generated invoices are worth what they bill: each charge, as often as it *)
(* is billed.                                                               *)
BilledIn(S, c) == Cardinality({d \in S : c \in Bills(d)})
BilledAs(S) == [c \in JobCharges |-> BilledIn(S, c) * ChargeOf[c].amount]
LEMMA WorthOfGenerated ==
    ASSUME NEW S \in SUBSET Generated
    PROVE  Worth(S) = SumIn(BilledAs(S), JobCharges)
<1> DEFINE m == [x \in S \X JobCharges |-> IF x[2] \in Bills(x[1]) THEN Charges[x[2]] ELSE 0]
<1>1. /\ IsFiniteSet(S) /\ Worth(S) = SumIn(Totals, S) /\ IsFiniteSet(JobCharges)
      /\ \A d \in S : d \in Papers /\ d \in Generated
  <2>1. S \in SUBSET Papers
    BY DEF Generated
  <2> QED BY <2>1, WorthOf, PapersAreFinite
<1>2. \A c \in JobCharges : Charges[c] = ChargeOf[c].amount /\ Charges[c] \in Int
  BY BalancesAssumption DEF Charges
<1>3. \A d \in S, c \in JobCharges :
         /\ m[<<d, c>>] = IF c \in Bills(d) THEN Charges[c] ELSE 0
         /\ m[<<d, c>>] \in Int
  BY <1>2
<1> HIDE DEF m
<1>4. ASSUME NEW d \in S PROVE RowSums(m, S, JobCharges)[d] = Totals[d]
  <2> DEFINE r == RowOf(m, JobCharges, d)
  <2>1. Bills(d) \in SUBSET JobCharges /\ PaperTotal(d) = Charged(Bills(d))
    BY <1>1, BalancesAssumption
  <2>2. \A c \in JobCharges : r[c] = m[<<d, c>>]
    BY DEF RowOf
  <2>3. RowSums(m, S, JobCharges)[d] = SumIn(r, JobCharges)
    BY DEF RowSums
  <2> HIDE DEF r
  <2>4. /\ \A c \in JobCharges : r[c] \in Int
        /\ \A c \in Bills(d) : Charges[c] = r[c]
        /\ \A c \in JobCharges \ Bills(d) : r[c] = 0
    BY <1>3, <2>1, <2>2
  <2>5. SumIn(Charges, Bills(d)) = SumIn(r, JobCharges)
    BY <1>1, <2>1, <2>4, SumWithin
  <2>6. Charged(Bills(d)) = SumIn(Charges, Bills(d))
    BY <2>1, ChargedOf
  <2>7. Totals[d] = PaperTotal(d)
    BY <1>1 DEF Totals
  <2> QED BY <2>1, <2>3, <2>5, <2>6, <2>7
<1>5. ASSUME NEW c \in JobCharges PROVE ColumnSums(m, S, JobCharges)[c] = BilledAs(S)[c]
  <2> DEFINE l == ColumnOf(m, S, c)
             T == {d \in S : c \in Bills(d)}
  <2>1. \A d \in S : l[d] = m[<<d, c>>]
    BY DEF ColumnOf
  <2>2. ColumnSums(m, S, JobCharges)[c] = SumIn(l, S)
    BY DEF ColumnSums
  <2>3. BilledAs(S)[c] = Cardinality(T) * Charges[c]
    BY <1>2 DEF BilledAs, BilledIn
  <2>4. T \in SUBSET S /\ IsFiniteSet(T)
    BY <1>1, FS_Subset
  <2> HIDE DEF l
  <2>5. /\ \A d \in S : l[d] \in Int
        /\ \A d \in T : l[d] = Charges[c]
        /\ \A d \in S \ T : l[d] = 0
    BY <1>2, <1>3, <2>1
  <2> HIDE DEF T
  <2>6. SumIn(l, T) = SumIn(l, S)
    BY <1>1, <2>4, <2>5, SumWithin
  <2>7. SumIn(l, T) = Cardinality(T) * Charges[c]
    BY <1>2, <2>4, <2>5, SumOfEqual
  <2> QED BY <2>2, <2>3, <2>6, <2>7
<1>6. SumIn(RowSums(m, S, JobCharges), S) = SumIn(ColumnSums(m, S, JobCharges), JobCharges)
  BY <1>1, <1>3, SumOfTable
<1>7. SumIn(RowSums(m, S, JobCharges), S) = SumIn(Totals, S)
  BY <1>1, <1>4, SumOfSame
<1>8. SumIn(ColumnSums(m, S, JobCharges), JobCharges) = SumIn(BilledAs(S), JobCharges)
  BY <1>1, <1>5, SumOfSame
<1> QED BY <1>1, <1>6, <1>7, <1>8

LEMMA WorthOfBoth ==
    ASSUME NEW S \in SUBSET Papers, NEW T \in SUBSET Papers, S \cap T = {}
    PROVE  Worth(S \cup T) = Worth(S) + Worth(T)
<1>1. \A d \in S \cup T : Totals[d] \in Int
  BY PapersAreFinite DEF Totals
<1>2. /\ IsFiniteSet(S) /\ Worth(S) = SumIn(Totals, S)
      /\ IsFiniteSet(T) /\ Worth(T) = SumIn(Totals, T)
      /\ Worth(S \cup T) = SumIn(Totals, S \cup T)
  <2>1. S \cup T \in SUBSET Papers
    OBVIOUS
  <2> QED BY <2>1, WorthOf
<1>3. SumIn(Totals, S \cup T) = SumIn(Totals, S) + SumIn(Totals, T)
  BY <1>1, <1>2, SumOfUnion
<1> QED BY <1>2, <1>3

LEMMA ChargedOfBoth ==
    ASSUME NEW S \in SUBSET JobCharges, NEW T \in SUBSET JobCharges, S \cap T = {}
    PROVE  Charged(S \cup T) = Charged(S) + Charged(T)
<1>1. \A d \in S \cup T : Charges[d] \in Int
  BY BalancesAssumption DEF Charges
<1>2. /\ IsFiniteSet(S) /\ Charged(S) = SumIn(Charges, S)
      /\ IsFiniteSet(T) /\ Charged(T) = SumIn(Charges, T)
      /\ Charged(S \cup T) = SumIn(Charges, S \cup T)
  <2>1. S \cup T \in SUBSET JobCharges
    OBVIOUS
  <2> QED BY <2>1, ChargedOf
<1>3. SumIn(Charges, S \cup T) = SumIn(Charges, S) + SumIn(Charges, T)
  BY <1>1, <1>2, SumOfUnion
<1> QED BY <1>2, <1>3

(* How often a charge is billed is a number, and follows from the invoices  *)
(* that bill it.                                                            *)
LEMMA BilledOften ==
    ASSUME NEW S \in SUBSET Papers, NEW c
    PROVE  BilledIn(S, c) \in Nat
<1> DEFINE T == {d \in S : c \in Bills(d)}
<1>1. T \subseteq Papers /\ BilledIn(S, c) = Cardinality(T)
  BY DEF BilledIn
<1> HIDE DEF T
<1> QED BY <1>1, PapersAreFinite, FS_Subset, FS_CardinalityType

LEMMA SameBilled ==
    ASSUME NEW S, NEW R, NEW c,
           \A d : (d \in S /\ c \in Bills(d)) <=> (d \in R /\ c \in Bills(d))
    PROVE  BilledIn(S, c) = BilledIn(R, c)
<1>1. {d \in S : c \in Bills(d)} = {d \in R : c \in Bills(d)}
  OBVIOUS
<1> QED BY <1>1 DEF BilledIn

IssuedFor(b, j) == {c \in JobCharges : ChargeOf[c].job = j /\ b.charge[c] = "ISSUED"}
InvoicesOf(b, j, status) == {d \in InState(b, {"CUSTOMER_INVOICE"}, status) : PaperOf[d].job = j}
LiveFor(b, j) == {d \in OfType({"CUSTOMER_INVOICE"}) :
                    PaperOf[d].job = j /\ b.paper[d] \in {"DRAFT", "POSTED"}}
LostFor(b, j) == {c \in IssuedFor(b, j) : BilledIn(LiveFor(b, j), c) = 0}
Surplus(b, j, c) == IF c \in IssuedFor(b, j) \ LostFor(b, j) THEN BilledIn(LiveFor(b, j), c) - 1
                    ELSE BilledIn(LiveFor(b, j), c)
Overbilled(b, j) == [c \in JobCharges |-> Surplus(b, j, c) * ChargeOf[c].amount]

LEMMA UninvoicedIs ==
    ASSUME NEW b \in Books, NEW j \in Jobs
    PROVE  Charged(IssuedFor(b, j)) - Worth(InvoicesOf(b, j, "POSTED")) - Worth(InvoicesOf(b, j, "DRAFT"))
              = Charged(LostFor(b, j)) - Worth(LiveFor(b, j) \ Generated) - SumFunction(Overbilled(b, j))
<1> DEFINE A == InvoicesOf(b, j, "POSTED")
           B == InvoicesOf(b, j, "DRAFT")
           L == LiveFor(b, j)
           H == L \ Generated
           G == L \cap Generated
           lost == LostFor(b, j)
           found == IssuedFor(b, j) \ lost
           sur == Overbilled(b, j)
           as == BilledAs(G)
           once == [c \in JobCharges |-> IF c \in found THEN ChargeOf[c].amount ELSE 0]
<1>1. /\ A \in SUBSET Papers /\ B \in SUBSET Papers /\ L \in SUBSET Papers
      /\ A \cap B = {} /\ A \cup B = L
      /\ H \in SUBSET Papers /\ G \in SUBSET Papers /\ H \cap G = {} /\ H \cup G = L
      /\ G \in SUBSET Generated
  BY DEF InvoicesOf, InState, OfType, LiveFor
<1>2. /\ lost \in SUBSET JobCharges /\ found \in SUBSET JobCharges /\ lost \cap found = {}
      /\ IssuedFor(b, j) = lost \cup found
  BY DEF LostFor, IssuedFor
<1>3. \A c \in JobCharges : ChargeOf[c].amount \in Int /\ BilledIn(L, c) \in Int
                           /\ BilledIn(L, c) = BilledIn(G, c)
  <2>1. ASSUME NEW c \in JobCharges PROVE BilledIn(L, c) \in Int /\ BilledIn(L, c) = BilledIn(G, c)
    <3>1. \A d : (d \in L /\ c \in Bills(d)) <=> (d \in G /\ c \in Bills(d))
      BY <1>1 DEF Generated
    <3> HIDE DEF L, G
    <3>2. L \in SUBSET Papers
      BY <1>1
    <3>3. BilledIn(L, c) = BilledIn(G, c)
      BY <3>1, SameBilled
    <3>4. BilledIn(L, c) \in Nat
      BY <3>2, BilledOften
    <3> QED BY <3>3, <3>4
  <2>2. \A c \in JobCharges : ChargeOf[c].amount \in Int
    BY BalancesAssumption
  <2> HIDE DEF L, G
  <2> QED BY <2>1, <2>2
<1>4. ASSUME NEW c \in JobCharges
      PROVE  /\ as[c] = sur[c] + once[c] /\ sur[c] \in Int /\ once[c] \in Int
             /\ once[c] = IF c \in found THEN ChargeOf[c].amount ELSE 0
  <2>1. /\ as[c] = BilledIn(L, c) * ChargeOf[c].amount
        /\ sur[c] = (IF c \in found THEN BilledIn(L, c) - 1 ELSE BilledIn(L, c)) * ChargeOf[c].amount
        /\ once[c] = IF c \in found THEN ChargeOf[c].amount ELSE 0
    BY <1>3 DEF BilledAs, Overbilled, Surplus
  <2>2. \A n, k \in Int : n * k = (n - 1) * k + k /\ n * k = n * k + 0 /\ (n - 1) * k \in Int
                        /\ n * k \in Int
    OBVIOUS
  <2> HIDE DEF as, sur, once, L, found
  <2>3. CASE c \in found
    <3>1. sur[c] = (BilledIn(L, c) - 1) * ChargeOf[c].amount /\ once[c] = ChargeOf[c].amount
      BY <2>1, <2>3
    <3> QED BY <1>3, <2>1, <2>2, <2>3, <3>1
  <2>4. CASE c \notin found
    <3>1. sur[c] = BilledIn(L, c) * ChargeOf[c].amount /\ once[c] = 0
      BY <2>1, <2>4
    <3> QED BY <1>3, <2>1, <2>2, <2>4, <3>1
  <2> QED BY <2>3, <2>4
<1>5. Charged(IssuedFor(b, j)) = Charged(lost) + Charged(found)
  <2> HIDE DEF lost, found
  <2>1. Charged(lost \cup found) = Charged(lost) + Charged(found)
    BY <1>2, ChargedOfBoth
  <2> QED BY <1>2, <2>1, Zenon
<1>6. SumFunction(sur) = SumIn(sur, JobCharges)
  <2>1. DOMAIN sur = JobCharges
    BY DEF Overbilled
  <2> HIDE DEF sur
  <2> QED BY <2>1, ColumnSum
<1> HIDE DEF A, B, L, H, G, lost, found, sur, as, once
<1>7. Worth(A \cup B) = Worth(A) + Worth(B) /\ Worth(H \cup G) = Worth(H) + Worth(G)
  BY <1>1, WorthOfBoth
<1>8. Worth(A) + Worth(B) = Worth(H) + Worth(G)
  BY <1>1, <1>7, Zenon
<1>9. Worth(G) = SumIn(as, JobCharges)
  BY <1>1, WorthOfGenerated DEF as
<1>10. SumIn(as, JobCharges) = SumIn(sur, JobCharges) + SumIn(once, JobCharges)
  BY <1>4, PapersAreFinite, SumOfTwo
<1>11. Charged(found) = SumIn(once, JobCharges)
  <2>1. Charged(found) = SumIn(Charges, found) /\ \A c \in found : Charges[c] = ChargeOf[c].amount
    BY <1>2, ChargedOf
  <2>2. (\A c \in found : Charges[c] = once[c]) /\ (\A c \in JobCharges \ found : once[c] = 0)
    BY <1>2, <1>4, <2>1
  <2>3. SumIn(Charges, found) = SumIn(once, JobCharges)
    BY <1>2, <1>4, <2>2, PapersAreFinite, SumWithin
  <2> QED BY <2>1, <2>3
<1>12. /\ Worth(A) \in Int /\ Worth(B) \in Int /\ Worth(H) \in Int /\ Worth(G) \in Int
       /\ Charged(lost) \in Int /\ Charged(found) \in Int /\ SumIn(sur, JobCharges) \in Int
  BY <1>1, <1>2, <1>4, WorthOf, ChargedOf, PapersAreFinite, SumIsInt
<1>13. Charged(IssuedFor(b, j)) - Worth(A) - Worth(B) = Charged(lost) - Worth(H) - SumFunction(sur)
  BY <1>5, <1>6, <1>8, <1>9, <1>10, <1>11, <1>12
<1> QED BY <1>13 DEF A, B, L, H, lost, sur

LEMMA UninvoicedMeet == ASSUME PapersInv PROVE UninvoicedAreFound
<1>1. ASSUME NEW j \in Jobs
      PROVE  ProfitRow(books, j).uninvoiced
                = Max({0, Charged(LostFor(books, j)) - Worth(LiveFor(books, j) \ Generated)
                            - SumFunction(Overbilled(books, j))})
  <2>1. ProfitRow(books, j).uninvoiced =
           Max({0, Charged(IssuedFor(books, j)) - Worth(InvoicesOf(books, j, "POSTED"))
                     - Worth(InvoicesOf(books, j, "DRAFT"))})
    BY DEF ProfitRow, IssuedFor, InvoicesOf
  <2>2. books \in Books
    BY DEF PapersInv
  <2> QED BY <2>1, <2>2, UninvoicedIs, Zenon
<1> QED BY <1>1, Zenon
       DEF UninvoicedAreFound, LostFor, LiveFor, IssuedFor, Overbilled, Surplus, BilledIn

-----------------------------------------------------------------------------
ListsInv == PapersInv /\ ShelfInv
LEMMA ListsInitially == ASSUME BalancesInit PROVE ListsInv
<1>1. BooksSound(books) /\ \A d \in Targets : PaidUp(books, d)
  BY InitialBooksAssumption DEF BalancesInit
<1>2. books \in Books /\ Joined(books) /\ WithinTotals(books)
  BY <1>1, SoundIs
<1>3. UndoingInv /\ MadeInv /\ PaidInv
  BY <1>1 DEF BalancesInit, UndoingInv, MadeInv, PaidInv
<1>4. ShelfInv
  BY <1>2, NamesOfParts DEF BalancesInit, ShelfInv, NoBoard, Absent, Holds
<1> QED BY <1>2, <1>3, <1>4 DEF ListsInv, PapersInv

LEMMA ListsStep == ASSUME ListsInv, [BalancesNext]_balanceVars PROVE ListsInv'
<1>1. PapersInv'
  BY PapersStep DEF ListsInv
<1>2. books' \in Books
  BY <1>1 DEF PapersInv, Books
<1>3. ShelfInv'
  BY <1>2, ShelfStep DEF ListsInv
<1> QED BY <1>1, <1>3 DEF ListsInv

LEMMA ListsAre == ASSUME ListsInv PROVE BalancesReconcile
BY CardsMeet, UninvoicedMeet, ShelfIsKept DEF ListsInv, BalancesReconcile

(* In a behaviour of all the parts, the lists take steps of their own or    *)
(* none.                                                                    *)
LEMMA BooksStepsAreListsSteps ==
    ASSUME [BooksNext]_<<part, draftVars, journalVars, reportVars, balanceVars, statusVars,
                         rateVars, routeVars>>
    PROVE  [BalancesNext]_balanceVars
<1>1. CASE BooksNext
  <2>1. BalancesNext \/ UNCHANGED balanceVars
    BY <1>1, Zenon DEF BooksNext, Others
  <2> QED BY <2>1
<1>2. CASE UNCHANGED <<part, draftVars, journalVars, reportVars, balanceVars, statusVars,
                       rateVars, routeVars>>
  BY <1>2
<1> QED BY <1>1, <1>2

(* The lists of balances and the dashboard, whichever of the books are      *)
(* kept beside them: every paid_amount is what the allocations say but      *)
(* where a reversal wrote a stale one; the receivables and payables cards   *)
(* meet the ledger but for those, and the aging its card; the uninvoiced    *)
(* charges of an order are found but for what invoices by hand and surplus  *)
(* ones hide; and the cache is current once every bump has come, but for    *)
(* what a bump overtook between reading and storing.                        *)
THEOREM ListsReconciled == BooksSpec => []ListsReconcile
<1>1. BooksInit => ListsInv
  BY ListsInitially DEF BooksInit
<1>2. ListsInv /\ [BooksNext]_<<part, draftVars, journalVars, reportVars, balanceVars, statusVars,
                                 rateVars, routeVars>> => ListsInv'
  BY BooksStepsAreListsSteps, ListsStep
<1>3. ListsInv => ListsReconcile
  BY ListsAre DEF ListsReconcile
<1> QED BY <1>1, <1>2, <1>3, PTL DEF BooksSpec
=============================================================================
