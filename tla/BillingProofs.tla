--------------------------- MODULE BillingProofs ---------------------------
(***************************************************************************)
(* Proofs about Billing, for any charges, totals, requests and number of   *)
(* invoices.  What issuing guarantees on its own is proved beside every    *)
(* other command; what FR-108 asks for is proved when the other two        *)
(* commands that generate invoices are not used, and for commands that run *)
(* one after the other.                                                    *)
(***************************************************************************)
EXTENDS MCBilling, TLAPS

(* Issuing needs its lock protocol to know that no other issue billed the  *)
(* charge between its look-up and its COMMIT.                              *)
IInv == IssueProtocol /\ IssuingBillsOnce

(* The lines copied from the charges have the type of lines.               *)
LEMMA LinesTyped ==
    ASSUME TypeOK, NEW cs \in SUBSET Charges
    PROVE  Lines(cs) \in [Charges -> Nat]
  BY DEF TypeOK, Lines, Charge

(* The end of a transaction keeps the types of the four local variables.   *)
LEMMA ReleaseTyped ==
    ASSUME TypeOK, NEW r \in Requests, Release(r)
    PROVE  /\ pc' \in [Requests -> Steps]
           /\ local' \in [Requests -> Transaction]
           /\ chargeLock' \in [Charges -> Requests \cup {Free}]
           /\ numberLock' \in Requests \cup {Free}
<1>1. NoTransaction \in Transaction
  BY DEF NoTransaction, Transaction, Nothing
<1> QED BY <1>1 DEF TypeOK, Release, Steps

(* A request that reads and goes on keeps the types of what it wrote.      *)
LEMMA ReadingTyped ==
    ASSUME TypeOK, NEW r \in Requests, NEW t \in Transaction, NEW step \in Steps,
           local' = [local EXCEPT ![r] = t], GoTo(r, step)
    PROVE  /\ local' \in [Requests -> Transaction]
           /\ pc' \in [Requests -> Steps]
  BY DEF TypeOK, GoTo

(* Every step keeps the types, action by action.                           *)
LEMMA TypePreserved == ASSUME BillingAssumption, IInv, [Next]_vars PROVE TypeOK'
<1> USE DEF IInv, IssueProtocol
<1>t. \A r \in Requests : local[r] \in Transaction
  BY DEF TypeOK
<1>n. lastNo \in Nat
  BY DEF TypeOK
<1>1. ASSUME NEW c \in Charges, NEW total \in Totals, CreateCharge(c, total) PROVE TypeOK'
  BY <1>1 DEF TypeOK, BillingAssumption, CreateCharge, Charge
<1>2. ASSUME NEW r \in Requests, NEW c \in Charges, ChargeStep(r, c) PROVE TypeOK'
  <2>1. ASSUME NEW total \in Totals, SaveRead(r, c, total) PROVE TypeOK'
    <3> DEFINE read == [local[r] EXCEPT !.bills = {c}, !.priced[c] = total]
    <3>1. read \in Transaction
      BY <1>t DEF Transaction, BillingAssumption
    <3>2. local' = [local EXCEPT ![r] = read] /\ GoTo(r, "save_write")
      BY <2>1 DEF SaveRead
    <3> HIDE DEF read
    <3> QED BY <2>1, <3>1, <3>2, ReadingTyped DEF SaveRead, TypeOK, store, Steps
  <2>2. CASE SaveWrite(r, c)
    <3>1. local[r].priced[c] \in Nat
      BY <1>t DEF Transaction
    <3>2. charges' \in [Charges -> Charge]
      BY <2>2, <3>1 DEF SaveWrite, TypeOK, Charge
    <3> QED BY <2>2, <3>2, ReleaseTyped DEF SaveWrite, TypeOK
  <2>3. CASE DeleteRead(r, c)
    <3> DEFINE read == [local[r] EXCEPT !.bills = {c}]
    <3>1. read \in Transaction
      BY <1>t DEF Transaction
    <3>2. local' = [local EXCEPT ![r] = read] /\ GoTo(r, "delete_write")
      BY <2>3 DEF DeleteRead
    <3> HIDE DEF read
    <3> QED BY <2>3, <3>1, <3>2, ReadingTyped DEF DeleteRead, TypeOK, store, Steps
  <2>4. CASE DeleteWrite(r, c)
    <3>1. charges' \in [Charges -> Charge]
      BY <2>4 DEF DeleteWrite, TypeOK, Charge
    <3> QED BY <2>4, <3>1, ReleaseTyped DEF DeleteWrite, TypeOK
  <2>5. CASE Refuse(r, c)
    BY <2>5, ReleaseTyped DEF Refuse, TypeOK, store
  <2>6. CASE IssueBegin(r, c)
    <3> DEFINE read == [from |-> "issue", bills |-> {c}, priced |-> Totalled({c}), no |-> 0]
    <3> DEFINE step == IF HasSource(c) THEN "issue_commit" ELSE "take_number"
    <3>1. read \in Transaction
      BY LinesTyped DEF Transaction, Totalled
    <3>2. local' = [local EXCEPT ![r] = read] /\ GoTo(r, step)
      BY <2>6 DEF IssueBegin, StartIssue
    <3>3. step \in Steps
      BY DEF Steps
    <3> HIDE DEF read, step
    <3> QED BY <2>6, <3>1, <3>2, <3>3, ReadingTyped DEF IssueBegin, TypeOK, store
  <2>7. CASE BillCharge(r, c)
    <3> DEFINE read == [from |-> "charge", bills |-> {c}, priced |-> Totalled({c}), no |-> 0]
    <3>1. read \in Transaction
      BY LinesTyped DEF Transaction, Totalled
    <3>2. local' = [local EXCEPT ![r] = read] /\ GoTo(r, "take_number")
      BY <2>7 DEF BillCharge
    <3> HIDE DEF read
    <3> QED BY <2>7, <3>1, <3>2, ReadingTyped DEF BillCharge, TypeOK, store, Steps
  <2> QED BY <1>2, <2>1, <2>2, <2>3, <2>4, <2>5, <2>6, <2>7 DEF ChargeStep
<1>3. ASSUME NEW r \in Requests, OrderLookup(r) PROVE TypeOK'
  BY <1>3 DEF OrderLookup, GoTo, TypeOK, store, Steps
<1>4. ASSUME NEW r \in Requests, OrderRead(r) PROVE TypeOK'
  <2> DEFINE pending == {c \in Charges : Exists(c) /\ ~HasSource(c)}
  <2> DEFINE read == [from |-> "order", bills |-> pending, priced |-> Totalled(pending), no |-> 0]
  <2>1. CASE pending = {}
    BY <1>4, <2>1, ReleaseTyped DEF OrderRead, TypeOK, store
  <2>2. CASE pending # {}
    <3>1. read \in Transaction
      BY LinesTyped DEF Transaction, Totalled
    <3>2. local' = [local EXCEPT ![r] = read] /\ GoTo(r, "take_number")
      BY <1>4, <2>2 DEF OrderRead
    <3>3. UNCHANGED <<charges, invoices, lastNo, chargeLock, numberLock>>
      BY <1>4, <2>2 DEF OrderRead, store
    <3> HIDE DEF read
    <3> QED BY <3>1, <3>2, <3>3, ReadingTyped DEF TypeOK, Steps
  <2> QED BY <2>1, <2>2
<1>5. ASSUME NEW r \in Requests, TakeNumber(r) PROVE TypeOK'
  <2> DEFINE read == [local[r] EXCEPT !.no = lastNo + 1]
  <2>1. read \in Transaction
    BY <1>t, <1>n DEF Transaction
  <2>2. local' = [local EXCEPT ![r] = read] /\ GoTo(r, "bill_commit")
    BY <1>5 DEF TakeNumber
  <2> HIDE DEF read
  <2> QED BY <1>5, <2>1, <2>2, ReadingTyped DEF TakeNumber, TypeOK, store, Steps
<1>6. ASSUME NEW r \in Requests, BillCommit(r) PROVE TypeOK'
  <2> DEFINE new == [no |-> local[r].no, status |-> "DRAFT", from |-> local[r].from,
                     bills |-> local[r].bills, priced |-> local[r].priced,
                     lines |-> Lines(local[r].bills)]
  <2>0. local[r].from # "none"
    BY <1>6 DEF BillCommit, Relies
  <2>1. new \in Invoice
    BY <1>6, <2>0, <1>t, LinesTyped DEF Transaction, Invoice
  <2>2. invoices' = invoices \cup {new} /\ lastNo' = local[r].no
    BY <1>6 DEF BillCommit
  <2>3. charges' \in [Charges -> Charge]
    BY <1>6 DEF BillCommit, TypeOK, Charge
  <2>4. local[r].no \in Nat
    BY <1>t DEF Transaction
  <2> HIDE DEF new
  <2> QED BY <1>6, <2>1, <2>2, <2>3, <2>4, ReleaseTyped DEF BillCommit, TypeOK
<1>7. ASSUME NEW r \in Requests, IssueCommit(r) PROVE TypeOK'
  <2>1. charges' \in [Charges -> Charge]
    BY <1>7 DEF IssueCommit, TypeOK, Charge
  <2> QED BY <1>7, <2>1, ReleaseTyped DEF IssueCommit, TypeOK
<1>8. ASSUME NEW r \in Requests, Rollback(r) PROVE TypeOK'
  BY <1>8, ReleaseTyped DEF Rollback, TypeOK, store
<1>9. ASSUME NEW i \in invoices, PostInvoice(i) \/ ReverseInvoice(i) \/ EraseInvoice(i)
      PROVE  TypeOK'
  <2>1. i \in Invoice
    BY DEF TypeOK
  <2>2. \A s \in {"DRAFT", "POSTED", "REVERSED"} : [i EXCEPT !.status = s] \in Invoice
    BY <2>1 DEF Invoice
  <2> QED BY <1>9, <2>1, <2>2 DEF PostInvoice, ReverseInvoice, EraseInvoice, Become, TypeOK
<1>10. CASE UNCHANGED vars
  BY <1>10 DEF vars, TypeOK
<1> QED BY <1>1, <1>2, <1>3, <1>4, <1>5, <1>6, <1>7, <1>8, <1>9, <1>10 DEF Next

(* A request keeps what it relies on through a step of another one that    *)
(* leaves alone the charges it has locked, and issues none of them.        *)
LEMMA Undisturbed ==
    ASSUME IInv, NEW q \in Requests,
           pc'[q] = pc[q], local'[q] = local[q],
           \A c \in Charges : chargeLock[c] = q /\ Issuable(c) =>
              /\ chargeLock'[c] = q /\ charges'[c] = charges[c]
              /\ \A i \in invoices' : FromIssue(i) /\ c \in i.bills =>
                    \E j \in invoices : FromIssue(j) /\ c \in j.bills
    PROVE  Relies(q)'
<1>1. Relies(q)
  BY DEF IInv, IssueProtocol
<1>2. CASE Issuing(q)
  <2>1. PICK c \in Charges :
          /\ local[q].bills = {c}
          /\ chargeLock[c] = q
          /\ Issuable(c) /\ local[q].priced = Lines({c})
          /\ pc[q] # "issue_commit" =>
               \A i \in invoices : FromIssue(i) => c \notin i.bills
    BY <1>1, <1>2 DEF Relies
  <2>2. /\ chargeLock'[c] = q /\ charges'[c] = charges[c]
        /\ pc'[q] # "issue_commit" =>
             \A i \in invoices' : FromIssue(i) => c \notin i.bills
    BY <2>1
  <2>3. Issuable(c)' /\ Lines({c})' = Lines({c})
    BY <2>1, <2>2 DEF Issuable, Lines
  <2> QED BY <1>1, <1>2, <2>1, <2>2, <2>3 DEF Relies, Issuing, FromIssue
<1>3. CASE ~Issuing(q)
  BY <1>1, <1>3 DEF Relies, Issuing
<1> QED BY <1>2, <1>3

(* A request whose transaction has ended relies on nothing.                *)
LEMMA Ended ==
    ASSUME IInv, NEW r \in Requests, Release(r)
    PROVE  /\ Relies(r)'
           /\ \A q \in Requests \ {r} :
                 /\ pc'[q] = pc[q] /\ local'[q] = local[q]
                 /\ \A c \in Charges : chargeLock[c] = q => chargeLock'[c] = q
<1>1. pc'[r] = "idle" /\ local'[r] = NoTransaction
  BY DEF Release, IInv, IssueProtocol, TypeOK
<1>2. Relies(r)'
  BY <1>1 DEF Relies, Issuing, NoTransaction
<1>3. \A q \in Requests \ {r} :
                 /\ pc'[q] = pc[q] /\ local'[q] = local[q]
                 /\ \A c \in Charges : chargeLock[c] = q => chargeLock'[c] = q
  BY DEF Release, IInv, IssueProtocol, TypeOK
<1> QED BY <1>2, <1>3

(* An issuing request holds the row of the one charge it issues, and until *)
(* it bills it no other issue has.                                         *)
LEMMA IssuerHolds ==
    ASSUME IInv, NEW r \in Requests, Issuing(r)
    PROVE  /\ \A c \in local[r].bills : chargeLock[c] = r
           /\ pc[r] # "issue_commit" =>
                \A i \in invoices : FromIssue(i) => i.bills \cap local[r].bills = {}
<1>1. Relies(r)
  BY DEF IInv, IssueProtocol
<1>2. PICK c \in Charges :
        /\ local[r].bills = {c} /\ chargeLock[c] = r
        /\ pc[r] # "issue_commit" =>
             \A i \in invoices : FromIssue(i) => c \notin i.bills
  BY <1>1 DEF Relies
<1> QED BY <1>2

(* Every step keeps the lock protocol of issuing.                          *)
LEMMA ProtocolPreserved ==
    ASSUME BillingAssumption, IInv, [Next]_vars, NEW q \in Requests
    PROVE  Relies(q)'
<1> USE DEF IInv, IssueProtocol
<1>q. Relies(q)
  OBVIOUS
<1>f. ASSUME NEW c \in Charges, chargeLock[c] = Free PROVE chargeLock[c] # q
  BY <1>f DEF BillingAssumption
<1>1. ASSUME NEW c \in Charges, NEW total \in Totals, CreateCharge(c, total)
      PROVE  Relies(q)'
  <2>1. \A d \in Charges : Issuable(d) => charges'[d] = charges[d]
    BY <1>1 DEF CreateCharge, Issuable, TypeOK
  <2> QED BY <1>1, <2>1, Undisturbed DEF CreateCharge
<1>2. ASSUME NEW r \in Requests, NEW c \in Charges, ChargeStep(r, c) PROVE Relies(q)'
  <2>1. ASSUME NEW total \in Totals, SaveRead(r, c, total) PROVE Relies(q)'
    <3>1. CASE q = r
      <4>1. pc[r] = "idle" /\ pc'[r] = "save_write" /\ local'[r].from = local[r].from
        BY <2>1, <3>1 DEF SaveRead, GoTo, TypeOK, Transaction
      <4> QED BY <1>q, <3>1, <4>1 DEF Relies, Issuing
    <3>2. CASE q # r
      BY <2>1, <3>2, Undisturbed DEF SaveRead, GoTo, TypeOK, store
    <3> QED BY <3>1, <3>2
  <2>2. CASE SaveWrite(r, c)
    <3>1. \A d \in Charges : chargeLock[d] = q => charges'[d] = charges[d]
      BY <2>2, <1>f DEF SaveWrite, TypeOK
    <3> QED BY <2>2, <3>1, Ended, Undisturbed DEF SaveWrite
  <2>3. CASE DeleteRead(r, c)
    <3>1. CASE q = r
      <4>1. pc[r] = "idle" /\ pc'[r] = "delete_write" /\ local'[r].from = local[r].from
        BY <2>3, <3>1 DEF DeleteRead, GoTo, TypeOK, Transaction
      <4> QED BY <1>q, <3>1, <4>1 DEF Relies, Issuing
    <3>2. CASE q # r
      BY <2>3, <3>2, Undisturbed DEF DeleteRead, GoTo, TypeOK, store
    <3> QED BY <3>1, <3>2
  <2>4. CASE DeleteWrite(r, c)
    <3>1. \A d \in Charges : chargeLock[d] = q => charges'[d] = charges[d]
      BY <2>4, <1>f DEF DeleteWrite, TypeOK
    <3> QED BY <2>4, <3>1, Ended, Undisturbed DEF DeleteWrite
  <2>5. CASE Refuse(r, c)
    BY <2>5, Ended, Undisturbed DEF Refuse, store
  <2>6. CASE IssueBegin(r, c)
    <3>1. CASE q = r
      <4>1. /\ local'[r].from = "issue" /\ local'[r].bills = {c}
            /\ local'[r].priced = Lines({c})
            /\ pc'[r] = IF HasSource(c) THEN "issue_commit" ELSE "take_number"
            /\ chargeLock'[c] = r /\ Issuable(c)
        BY <2>6, <3>1 DEF IssueBegin, StartIssue, GoTo, TypeOK, Transaction, Totalled
      <4>2. Lines({c})' = Lines({c}) /\ Issuable(c)' /\ invoices' = invoices
        BY <2>6, <4>1 DEF IssueBegin, store, Lines, Issuable
      <4>3. ~HasSource(c) => \A i \in invoices : c \notin i.bills
        BY DEF HasSource
      <4> QED BY <3>1, <4>1, <4>2, <4>3 DEF Relies, Issuing
    <3>2. CASE q # r
      <4>1. \A d \in Charges : chargeLock[d] = q => chargeLock'[d] = q
        BY <2>6, <1>f DEF IssueBegin, TypeOK
      <4> QED BY <2>6, <3>2, <4>1, Undisturbed DEF IssueBegin, StartIssue, GoTo, TypeOK, store
    <3> QED BY <3>1, <3>2
  <2>7. CASE BillCharge(r, c)
    <3>1. CASE q = r
      <4>1. pc'[r] = "take_number" /\ local'[r].from = "charge"
        BY <2>7, <3>1 DEF BillCharge, GoTo, TypeOK
      <4> QED BY <3>1, <4>1 DEF Relies, Issuing
    <3>2. CASE q # r
      BY <2>7, <3>2, Undisturbed DEF BillCharge, GoTo, TypeOK, store
    <3> QED BY <3>1, <3>2
  <2> QED BY <1>2, <2>1, <2>2, <2>3, <2>4, <2>5, <2>6, <2>7 DEF ChargeStep
<1>3. ASSUME NEW r \in Requests, OrderLookup(r) PROVE Relies(q)'
  <2>1. CASE q = r
    <3>1. pc[r] = "idle" /\ pc'[r] = "order_read" /\ local' = local
      BY <1>3 DEF OrderLookup, GoTo, TypeOK
    <3> QED BY <1>q, <2>1, <3>1 DEF Relies, Issuing
  <2>2. CASE q # r
    BY <1>3, <2>2, Undisturbed DEF OrderLookup, GoTo, TypeOK, store
  <2> QED BY <2>1, <2>2
<1>4. ASSUME NEW r \in Requests, OrderRead(r) PROVE Relies(q)'
  <2>1. CASE Release(r)
    BY <1>4, <2>1, Ended, Undisturbed DEF OrderRead, store
  <2>2. CASE ~Release(r)
    <3>1. CASE q = r
      <4>1. pc'[r] = "take_number" /\ local'[r].from = "order"
        BY <1>4, <2>2 DEF OrderRead, GoTo, TypeOK
      <4> QED BY <3>1, <4>1 DEF Relies, Issuing
    <3>2. CASE q # r
      BY <1>4, <2>2, <3>2, Undisturbed DEF OrderRead, GoTo, TypeOK, store
    <3> QED BY <3>1, <3>2
  <2> QED BY <2>1, <2>2
<1>5. ASSUME NEW r \in Requests, TakeNumber(r) PROVE Relies(q)'
  <2>1. CASE q = r
    <3>1. /\ pc[q] = "take_number" /\ pc'[q] = "bill_commit"
          /\ local'[q].from = local[q].from /\ local'[q].bills = local[q].bills
          /\ local'[q].priced = local[q].priced
          /\ UNCHANGED <<charges, invoices, chargeLock>>
      BY <1>5, <2>1 DEF TakeNumber, GoTo, TypeOK, Transaction, store
    <3>2. \A c \in Charges : Lines({c})' = Lines({c}) /\ Issuable(c)' = Issuable(c)
      BY <3>1 DEF Lines, Issuable
    <3>3. CASE Issuing(q)
      <4>1. PICK c \in Charges :
              /\ local[q].bills = {c}
              /\ chargeLock[c] = q
              /\ Issuable(c) /\ local[q].priced = Lines({c})
              /\ \A i \in invoices : FromIssue(i) => c \notin i.bills
        BY <1>q, <3>1, <3>3 DEF Relies
      <4>2. /\ Issuable(c)' /\ local'[q].priced = Lines({c})'
            /\ local'[q].bills = {c} /\ chargeLock'[c] = q
            /\ \A i \in invoices' : FromIssue(i) => c \notin i.bills
        BY <3>1, <3>2, <4>1
      <4>3. local'[q].from = "issue"
        BY <3>1, <3>3 DEF Issuing
      <4> QED BY <3>1, <4>2, <4>3 DEF Relies, Issuing
    <3>4. CASE ~Issuing(q)
      BY <1>q, <3>1, <3>4 DEF Relies, Issuing
    <3> QED BY <3>3, <3>4
  <2>2. CASE q # r
    BY <1>5, <2>2, Undisturbed DEF TakeNumber, GoTo, TypeOK, store
  <2> QED BY <2>1, <2>2
<1>6. ASSUME NEW r \in Requests, BillCommit(r) PROVE Relies(q)'
  <2>1. Release(r)
    BY <1>6 DEF BillCommit
  <2>2. ASSUME q # r, NEW c \in Charges, chargeLock[c] = q
        PROVE  /\ charges'[c] = charges[c]
               /\ \A i \in invoices' : FromIssue(i) /\ c \in i.bills => i \in invoices
    <3>1. Issuing(r) => c \notin local[r].bills
      BY <2>2, IssuerHolds
    <3>2. charges'[c] = charges[c]
      BY <1>6, <3>1 DEF BillCommit, Issuing, TypeOK
    <3>3. \A i \in invoices' : FromIssue(i) /\ c \in i.bills => i \in invoices
      BY <1>6, <3>1 DEF BillCommit, Issuing, FromIssue
    <3> QED BY <3>2, <3>3
  <2> QED BY <2>1, <2>2, Ended, Undisturbed
<1>7. ASSUME NEW r \in Requests, IssueCommit(r) PROVE Relies(q)'
  <2>1. Release(r)
    BY <1>7 DEF IssueCommit
  <2>2. ASSUME q # r, NEW c \in Charges, chargeLock[c] = q
        PROVE  charges'[c] = charges[c]
    <3>1. c \notin local[r].bills
      <4>1. Issuing(r)
        BY <1>7 DEF Relies, IssueCommit
      <4> QED BY <2>2, <4>1, IssuerHolds
    <3> QED BY <1>7, <3>1 DEF IssueCommit, TypeOK
  <2> QED BY <1>7, <2>1, <2>2, Ended, Undisturbed DEF IssueCommit
<1>8. ASSUME NEW r \in Requests, Rollback(r) PROVE Relies(q)'
  BY <1>8, Ended, Undisturbed DEF Rollback, store
<1>9. ASSUME NEW i \in invoices, PostInvoice(i) \/ ReverseInvoice(i) \/ EraseInvoice(i)
      PROVE  Relies(q)'
  <2>1. i \in Invoice
    BY DEF TypeOK
  <2>2. \A k \in invoices' : k \in invoices \/ (k.from = i.from /\ k.bills = i.bills)
    BY <1>9, <2>1 DEF PostInvoice, ReverseInvoice, EraseInvoice, Become, Invoice
  <2>3. UNCHANGED <<charges, chargeLock, pc, local>>
    BY <1>9 DEF PostInvoice, ReverseInvoice, EraseInvoice, Become
  <2> QED BY <2>2, <2>3, Undisturbed DEF FromIssue
<1>10. CASE UNCHANGED vars
  BY <1>10, Undisturbed DEF vars
<1> QED BY <1>1, <1>2, <1>3, <1>4, <1>5, <1>6, <1>7, <1>8, <1>9, <1>10 DEF Next

(* Every step keeps issuing from billing a charge twice: the only step     *)
(* that adds an invoice adds one for a charge without any.                 *)
LEMMA IssuingPreserved ==
    ASSUME BillingAssumption, IInv, [Next]_vars PROVE IssuingBillsOnce'
<1> USE DEF IInv, IssueProtocol
<1>1. ASSUME NEW r \in Requests, BillCommit(r) PROVE IssuingBillsOnce'
  <2> DEFINE new == [no |-> local[r].no, status |-> "DRAFT", from |-> local[r].from,
                     bills |-> local[r].bills, priced |-> local[r].priced,
                     lines |-> Lines(local[r].bills)]
  <2>1. invoices' = invoices \cup {new}
    BY <1>1 DEF BillCommit
  <2>2. Issuing(r) => \A i \in invoices : FromIssue(i) => ~BothBill(i, new) /\ ~BothBill(new, i)
    <3>1. pc[r] = "bill_commit"
      BY <1>1 DEF BillCommit
    <3> QED BY <3>1, IssuerHolds DEF BothBill
  <2>3. FromIssue(new) => Issuing(r)
    BY DEF FromIssue, Issuing
  <2> HIDE DEF new
  <2> QED BY <2>1, <2>2, <2>3 DEF IssuingBillsOnce
<1>2. ASSUME NEW i \in invoices, PostInvoice(i) \/ ReverseInvoice(i) \/ EraseInvoice(i)
      PROVE  IssuingBillsOnce'
  <2>1. i \in Invoice
    BY DEF TypeOK
  <2>2. PICK k : /\ invoices' \subseteq (invoices \ {i}) \cup {k}
                 /\ k.from = i.from /\ k.bills = i.bills
    BY <1>2, <2>1 DEF PostInvoice, ReverseInvoice, EraseInvoice, Become, Invoice
  <2> QED BY <2>2 DEF IssuingBillsOnce, FromIssue, BothBill
<1>3. CASE UNCHANGED invoices
  BY <1>3 DEF IssuingBillsOnce
<1>4. ASSUME NEW r \in Requests, NEW c \in Charges, ChargeStep(r, c)
      PROVE UNCHANGED invoices
  BY <1>4 DEF ChargeStep, SaveRead, SaveWrite, DeleteRead, DeleteWrite, Refuse,
              IssueBegin, BillCharge, store
<1> QED BY <1>1, <1>2, <1>3, <1>4 DEF Next, vars, CreateCharge, OrderLookup, OrderRead,
              TakeNumber, IssueCommit, Rollback, store

(* The invariant holds at first.                                           *)
LEMMA Initially == ASSUME BillingAssumption, Init PROVE IInv
<1>1. NoTransaction \in Transaction
  BY DEF NoTransaction, Transaction, Nothing
<1>2. TypeOK
  BY <1>1 DEF Init, TypeOK, Charge, Steps
<1>3. \A r \in Requests : Relies(r)
  BY DEF Init, Relies, Issuing, NoTransaction
<1>4. IssuingBillsOnce
  BY DEF Init, IssuingBillsOnce
<1> QED BY <1>2, <1>3, <1>4 DEF IInv, IssueProtocol

-----------------------------------------------------------------------------
(* The three non-temporal facts together make IInv an invariant.           *)
THEOREM Invariance == Spec => []IInv
<1>1. Init => IInv
  BY BillingAssumption, Initially
<1>2. IInv /\ [Next]_vars => IInv'
  BY BillingAssumption, TypePreserved, ProtocolPreserved, IssuingPreserved
     DEF IInv, IssueProtocol
<1> QED BY <1>1, <1>2, PTL DEF Spec

(* issue_charge's lock protocol: a request that issues a charge holds its  *)
(* row to COMMIT, the row is as it was read, and no other issue billed it. *)
THEOREM ProtocolHeld == Spec => []IssueProtocol
<1>1. IInv => IssueProtocol
  BY DEF IInv
<1> QED BY <1>1, Invariance, PTL

(* Issuing alone never bills a charge twice, whatever runs beside it.      *)
THEOREM IssuesOnce == Spec => []IssuingBillsOnce
<1>1. IInv => IssuingBillsOnce
  BY DEF IInv
<1> QED BY <1>1, Invariance, PTL

-----------------------------------------------------------------------------
(* When only issuing generates invoices.                                   *)
IssuingOnly == MayDo \subseteq {"save", "delete", "issue"}

(* Every invoice then comes from an issue, adds up, and bills charges that *)
(* can no longer be issued for the first time.                             *)
Spent(c) == charges[c].status \in {"ISSUED", "ERASED"}
OnlyIssues ==
    /\ \A r \in Requests :
         /\ pc[r] # "order_read" /\ local[r].from \in {"none", "issue"}
         /\ pc[r] = "issue_commit" => \A c \in local[r].bills : Spent(c)
    /\ \A i \in invoices :
         /\ FromIssue(i) /\ i.priced = i.lines
         /\ \A c \in i.bills : Spent(c)

(* A charge that was issued or deleted is never a draft again.             *)
LEMMA SpentStays ==
    ASSUME IInv, [Next]_vars, NEW c \in Charges, Spent(c) PROVE Spent(c)'
<1> USE DEF IInv, IssueProtocol, Spent
<1>1. ASSUME NEW d \in Charges, NEW total \in Totals, CreateCharge(d, total) PROVE Spent(c)'
  BY <1>1 DEF CreateCharge, TypeOK
<1>2. ASSUME NEW r \in Requests, NEW d \in Charges, ChargeStep(r, d) PROVE Spent(c)'
  BY <1>2 DEF ChargeStep, SaveRead, SaveWrite, DeleteRead, DeleteWrite, Refuse,
              IssueBegin, BillCharge, TypeOK, Charge, store
<1>3. ASSUME NEW r \in Requests, BillCommit(r) \/ IssueCommit(r) PROVE Spent(c)'
  BY <1>3 DEF BillCommit, IssueCommit, TypeOK, Charge
<1>4. CASE UNCHANGED charges
  BY <1>4
<1> QED BY <1>1, <1>2, <1>3, <1>4 DEF Next, vars, OrderLookup, OrderRead, TakeNumber,
           Rollback, PostInvoice, ReverseInvoice, EraseInvoice, Become, store

(* Every step of an order whose invoices all come from issuing keeps it so.*)
LEMMA OnlyIssuesPreserved ==
    ASSUME BillingAssumption, IssuingOnly, IInv, OnlyIssues, [Next]_vars
    PROVE  OnlyIssues'
<1> USE DEF IInv, IssueProtocol
<1>1. \A c \in Charges : Spent(c) => Spent(c)'
  BY SpentStays
<1>2. ASSUME NEW r \in Requests
      PROVE  /\ pc'[r] # "order_read" /\ local'[r].from \in {"none", "issue"}
             /\ pc'[r] = "issue_commit" => \A c \in local'[r].bills : Spent(c)'
  <2> DEFINE Good == /\ pc'[r] # "order_read" /\ local'[r].from \in {"none", "issue"}
                     /\ pc'[r] = "issue_commit" => \A c \in local'[r].bills : Spent(c)'
  <2>1. /\ pc[r] # "order_read" /\ local[r].from \in {"none", "issue"}
        /\ pc[r] = "issue_commit" => \A c \in local[r].bills : Spent(c)
        /\ local[r].bills \subseteq Charges
    BY DEF OnlyIssues, TypeOK, Transaction
  <2>2. ASSUME pc'[r] = pc[r], local'[r] = local[r] PROVE Good
    BY <2>1, <2>2, <1>1
  <2>3. ASSUME NEW q \in Requests, Release(q) PROVE Good
    <3>1. CASE q = r
      BY <2>3, <3>1 DEF Release, TypeOK, NoTransaction
    <3>2. CASE q # r
      BY <2>2, <2>3, <3>2, Ended
    <3> QED BY <3>1, <3>2
  <2>4. ASSUME NEW q \in Requests, NEW c \in Charges, ChargeStep(q, c) PROVE Good
    <3>1. ASSUME NEW total \in Totals, SaveRead(q, c, total) PROVE Good
      BY <3>1, <2>1, <2>2 DEF SaveRead, GoTo, TypeOK, Transaction
    <3>2. CASE DeleteRead(q, c)
      BY <3>2, <2>1, <2>2 DEF DeleteRead, GoTo, TypeOK, Transaction
    <3>3. CASE IssueBegin(q, c)
      <4>1. CASE q = r
        <5>1. /\ local'[r].from = "issue" /\ local'[r].bills = {c}
              /\ pc'[r] = IF HasSource(c) THEN "issue_commit" ELSE "take_number"
          BY <3>3, <4>1 DEF IssueBegin, StartIssue, GoTo, TypeOK
        <5>2. HasSource(c) => Spent(c)
          BY DEF OnlyIssues, HasSource
        <5> QED BY <5>1, <5>2, <1>1
      <4>2. CASE q # r
        BY <3>3, <4>2, <2>2 DEF IssueBegin, StartIssue, GoTo, TypeOK
      <4> QED BY <4>1, <4>2
    <3>4. ~BillCharge(q, c)
      BY DEF BillCharge, IssuingOnly
    <3>5. CASE SaveWrite(q, c) \/ DeleteWrite(q, c) \/ Refuse(q, c)
      BY <3>5, <2>3 DEF SaveWrite, DeleteWrite, Refuse
    <3> HIDE DEF Good
    <3> QED BY <2>4, <3>1, <3>2, <3>3, <3>4, <3>5 DEF ChargeStep
  <2>5. ASSUME NEW q \in Requests, OrderLookup(q) \/ OrderRead(q) PROVE Good
    BY <2>5 DEF OrderLookup, OrderRead, OnlyIssues, IssuingOnly
  <2>6. ASSUME NEW q \in Requests, TakeNumber(q) PROVE Good
    BY <2>6, <2>1, <2>2 DEF TakeNumber, GoTo, TypeOK, Transaction
  <2>7. ASSUME NEW q \in Requests, BillCommit(q) \/ IssueCommit(q) \/ Rollback(q) PROVE Good
    BY <2>7, <2>3 DEF BillCommit, IssueCommit, Rollback
  <2>8. ASSUME UNCHANGED <<pc, local>> PROVE Good
    BY <2>2, <2>8
  <2>9. ASSUME NEW c \in Charges, NEW total \in Totals, CreateCharge(c, total)
        PROVE  UNCHANGED <<pc, local>>
    BY <2>9 DEF CreateCharge
  <2>10. ASSUME NEW i \in invoices, PostInvoice(i) \/ ReverseInvoice(i) \/ EraseInvoice(i)
         PROVE  UNCHANGED <<pc, local>>
    BY <2>10 DEF PostInvoice, ReverseInvoice, EraseInvoice, Become
  <2>11. UNCHANGED vars => UNCHANGED <<pc, local>>
    BY DEF vars
  <2> HIDE DEF Good
  <2>12. Good
    BY <2>4, <2>5, <2>6, <2>7, <2>8, <2>9, <2>10, <2>11 DEF Next
  <2> QED BY <2>12 DEF Good
<1>3. ASSUME NEW i \in invoices'
      PROVE  /\ FromIssue(i) /\ i.priced = i.lines
             /\ \A c \in i.bills : Spent(c)'
  <2> DEFINE Good == /\ FromIssue(i) /\ i.priced = i.lines
                     /\ \A c \in i.bills : Spent(c)'
  <2>1. CASE i \in invoices
    <3>1. i.bills \subseteq Charges
      BY <2>1 DEF TypeOK, Invoice
    <3> QED BY <2>1, <3>1, <1>1 DEF OnlyIssues
  <2>2. ASSUME NEW k \in invoices, i \notin invoices,
               PostInvoice(k) \/ ReverseInvoice(k) \/ EraseInvoice(k)
        PROVE  Good
    <3>1. k \in Invoice
      BY DEF TypeOK
    <3>2. i.from = k.from /\ i.bills = k.bills /\ i.priced = k.priced /\ i.lines = k.lines
      BY <2>2, <3>1 DEF PostInvoice, ReverseInvoice, EraseInvoice, Become, Invoice
    <3>3. k.bills \subseteq Charges
      BY <3>1 DEF Invoice
    <3> QED BY <3>2, <3>3, <1>1 DEF OnlyIssues, FromIssue
  <2>3. ASSUME NEW q \in Requests, i \notin invoices, BillCommit(q) PROVE Good
    <3>1. /\ i.from = local[q].from /\ i.bills = local[q].bills
          /\ i.priced = local[q].priced /\ i.lines = Lines(local[q].bills)
      BY <2>3 DEF BillCommit
    <3>2. Issuing(q)
      BY <2>3 DEF BillCommit, Relies, OnlyIssues, Issuing
    <3>r. \E c \in Charges : local[q].bills = {c} /\ local[q].priced = Lines({c})
      <4>1. Relies(q)
        OBVIOUS
      <4> QED BY <3>2, <4>1 DEF Relies
    <3>3. PICK c \in Charges : local[q].bills = {c} /\ local[q].priced = Lines({c})
      BY <3>r
    <3>4. Spent(c)'
      BY <2>3, <3>2, <3>3 DEF BillCommit, Issuing, Spent, TypeOK, Charge
    <3> QED BY <3>1, <3>2, <3>3, <3>4 DEF FromIssue, Issuing
  <2> HIDE DEF Good
  <2>4. CASE UNCHANGED invoices
    BY <2>1, <2>4 DEF Good
  <2>5. ASSUME NEW q \in Requests, NEW c \in Charges, ChargeStep(q, c) PROVE UNCHANGED invoices
    BY <2>5 DEF ChargeStep, SaveRead, SaveWrite, DeleteRead, DeleteWrite, Refuse,
                IssueBegin, BillCharge, store
  <2>6. Good
    BY <2>1, <2>2, <2>3, <2>4, <2>5 DEF Good, Next, vars, CreateCharge, OrderLookup,
       OrderRead, TakeNumber, IssueCommit, Rollback, store
  <2> QED BY <2>6 DEF Good
<1> QED BY <1>2, <1>3 DEF OnlyIssues

(* While only issuing generates invoices, every invoice is an issue's.     *)
THEOREM IssuingOnlyInvariance ==
    ASSUME IssuingOnly PROVE Spec => [](IInv /\ OnlyIssues)
<1>1. Init => OnlyIssues
  BY DEF Init, OnlyIssues, NoTransaction
<1>2. IInv /\ OnlyIssues /\ [Next]_vars => OnlyIssues'
  BY BillingAssumption, IssuingOnly, OnlyIssuesPreserved
<1> QED BY <1>1, <1>2, Invariance, PTL DEF Spec

(* FR-108: while only issuing generates invoices, no charge is ever billed *)
(* by two standing invoices, however the issues, saves, deletions, postings*)
(* and reversals overlap.                                                  *)
THEOREM ChargesBilledOnce == ASSUME IssuingOnly PROVE Spec => []BilledOnce
<1>1. IInv /\ OnlyIssues => BilledOnce
  BY DEF IInv, OnlyIssues, IssuingBillsOnce, BilledOnce
<1> QED BY <1>1, IssuingOnlyInvariance, PTL

(* Such an invoice is the sum of its lines, although saves wait for the    *)
(* charge between the reading of its total and the copying of its lines.   *)
THEOREM IssuedInvoicesAddUp == ASSUME IssuingOnly PROVE Spec => []InvoiceAddsUp
<1>1. OnlyIssues => InvoiceAddsUp
  BY DEF OnlyIssues, InvoiceAddsUp
<1> QED BY <1>1, IssuingOnlyInvariance, PTL

(* Issuing bills a charge in the step that makes it ISSUED, at exactly the *)
(* total it then has, whatever other commands overlap.                     *)
THEOREM IssuedAsBilled == Spec => IssuedTermsAreBilled
<1> DEFINE AsIssued(i) == \E c \in Charges : /\ i.bills = {c}
                                            /\ charges'[c].status = "ISSUED"
                                            /\ i.priced = i.lines
                                            /\ i.lines[c] = charges'[c].total
           Billed == \A i \in invoices' \ invoices :
             FromIssue(i) /\ i.status = "DRAFT" =>
                \E c \in Charges : /\ i.bills = {c}
                                   /\ charges'[c].status = "ISSUED"
                                   /\ i.priced = i.lines
                                   /\ i.lines[c] = charges'[c].total
<1>1. IInv /\ [Next]_vars => [Billed]_vars
  <2> SUFFICES ASSUME IInv, [Next]_vars, NEW i \in invoices', i \notin invoices,
                      FromIssue(i), i.status = "DRAFT"
               PROVE  AsIssued(i)
    OBVIOUS
  <2> USE DEF IInv, IssueProtocol
  <2>1. ASSUME NEW r \in Requests, BillCommit(r) PROVE AsIssued(i)
    <3>1. /\ i.from = local[r].from /\ i.bills = local[r].bills
          /\ i.priced = local[r].priced /\ i.lines = Lines(local[r].bills)
      BY <2>1 DEF BillCommit
    <3>2. Issuing(r)
      BY <3>1 DEF FromIssue, Issuing
    <3>r. \E c \in Charges : local[r].bills = {c} /\ local[r].priced = Lines({c})
      <4>1. Relies(r)
        OBVIOUS
      <4> QED BY <3>2, <4>1 DEF Relies
    <3>3. PICK c \in Charges : local[r].bills = {c} /\ local[r].priced = Lines({c})
      BY <3>r
    <3>4. charges'[c].status = "ISSUED" /\ charges'[c].total = charges[c].total
      BY <2>1, <3>2, <3>3 DEF BillCommit, Issuing, TypeOK, Charge
    <3>5. Lines({c})[c] = charges[c].total
      BY DEF Lines
    <3> QED BY <3>1, <3>3, <3>4, <3>5
  <2>2. ASSUME NEW k \in invoices, PostInvoice(k) \/ ReverseInvoice(k) PROVE FALSE
    <3>1. k \in Invoice
      BY DEF TypeOK
    <3>2. i = [k EXCEPT !.status = "POSTED"] \/ i = [k EXCEPT !.status = "REVERSED"]
      BY <2>2 DEF PostInvoice, ReverseInvoice, Become
    <3> QED BY <3>1, <3>2 DEF Invoice
  <2>3. ASSUME NEW k \in invoices, EraseInvoice(k) PROVE FALSE
    BY <2>3 DEF EraseInvoice
  <2>4. ASSUME NEW r \in Requests, NEW d \in Charges, ChargeStep(r, d) PROVE FALSE
    BY <2>4 DEF ChargeStep, SaveRead, SaveWrite, DeleteRead, DeleteWrite, Refuse,
                IssueBegin, BillCharge, store
  <2>5. ~UNCHANGED invoices
    OBVIOUS
  <2> HIDE DEF AsIssued
  <2> QED BY <2>1, <2>2, <2>3, <2>4, <2>5 DEF Next, vars, CreateCharge, OrderLookup,
       OrderRead, TakeNumber, IssueCommit, Rollback, store
<1> HIDE DEF Billed
<1>2. IssuedTermsAreBilled <=> [][Billed]_vars
  BY DEF IssuedTermsAreBilled, Billed
<1> QED BY <1>1, <1>2, Invariance, PTL DEF Spec

-----------------------------------------------------------------------------
(* While one request acts, what it is about to bill has no source: it       *)
(* looked, and only its own COMMIT makes one.                               *)
Unbilled(a) ==
    /\ \A r \in Requests \ {a} : pc[r] = "idle"
    /\ pc[a] \in {"take_number", "bill_commit"} =>
          \A i \in invoices : i.bills \cap local[a].bills = {}
LoneInv == \A a \in Requests : actors = {a} => BilledOnce /\ Unbilled(a)

(* Posting, reversing or erasing an invoice bills nothing anew.             *)
LEMMA BecomingBillsNothing ==
    ASSUME IInv, BilledOnce, NEW i \in invoices,
           PostInvoice(i) \/ ReverseInvoice(i) \/ EraseInvoice(i)
    PROVE  /\ BilledOnce'
           /\ \A j \in invoices' : \E k \in invoices : j.bills = k.bills
           /\ UNCHANGED <<pc, local>>
<1>1. i \in Invoice
  BY DEF IInv, IssueProtocol, TypeOK
<1>2. CASE EraseInvoice(i)
  BY <1>2 DEF EraseInvoice, BilledOnce, Live, BothBill
<1>3. ASSUME NEW status, Live(i), Become(i, status)
      PROVE  BilledOnce' /\ \A j \in invoices' : \E k \in invoices : j.bills = k.bills
  <2> DEFINE k == [i EXCEPT !.status = status]
  <2>1. k.bills = i.bills /\ invoices' = (invoices \ {i}) \cup {k}
    BY <1>1, <1>3 DEF Become, Invoice
  <2> HIDE DEF k
  <2>2. \A j \in invoices \ {i} : Live(j) => ~BothBill(i, j) /\ ~BothBill(j, i)
    BY <1>3 DEF BilledOnce
  <2>3. \A j \in invoices \ {i} : Live(j) => ~BothBill(k, j) /\ ~BothBill(j, k)
    BY <2>1, <2>2 DEF BothBill
  <2>4. ASSUME NEW x \in invoices', NEW y \in invoices', Live(x), Live(y), BothBill(x, y)
        PROVE  x = y
    BY <2>1, <2>3, <2>4 DEF BilledOnce
  <2> QED BY <2>1, <2>4 DEF BilledOnce, Live, BothBill
<1>4. CASE PostInvoice(i) \/ ReverseInvoice(i)
  BY <1>3, <1>4 DEF PostInvoice, ReverseInvoice, Live, Become
<1> QED BY <1>2, <1>4 DEF EraseInvoice

(* Every step of a behaviour in which one request acts.                     *)
LEMMA LonePreserved ==
    ASSUME BillingAssumption, IInv, LoneInv, [BillingNext]_<<vars, actors>>
    PROVE  LoneInv'
<1> SUFFICES ASSUME NEW a \in Requests, actors' = {a} PROVE BilledOnce' /\ Unbilled(a)'
  BY DEF LoneInv
<1>0. /\ actors = {a} /\ BilledOnce /\ Unbilled(a) /\ TypeOK
      /\ \A r \in Requests \ {a} : pc'[r] = "idle"
  BY DEF BillingNext, LoneInv, Unbilled, IInv, IssueProtocol, vars
<1> DEFINE Goal == BilledOnce' /\ Unbilled(a)'
<1>1. ASSUME UNCHANGED <<invoices, pc, local>> PROVE Goal
  BY <1>0, <1>1 DEF BilledOnce, Unbilled, Live, BothBill
<1>2. ASSUME NEW r \in Requests, Release(r), UNCHANGED invoices PROVE Goal
  BY <1>0, <1>2 DEF BilledOnce, Unbilled, Live, BothBill, Release, TypeOK
<1>3. ASSUME NEW r \in Requests, UNCHANGED invoices, NEW t, NEW step,
             local' = [local EXCEPT ![r] = t], GoTo(r, step),
             step \in {"take_number", "bill_commit"}
                => \A i \in invoices : i.bills \cap t.bills = {}
      PROVE  Goal
  <2>1. pc'[r] = step /\ local'[r] = t
    BY <1>0, <1>3 DEF GoTo, TypeOK
  <2>2. r # a => pc'[a] = pc[a] /\ local'[a] = local[a]
    BY <1>0, <1>3 DEF GoTo, TypeOK
  <2>3. Unbilled(a)'
    BY <1>0, <1>3, <2>1, <2>2 DEF Unbilled
  <2> QED BY <1>0, <1>3, <2>3 DEF BilledOnce, Live, BothBill
<1>4. ASSUME NEW r \in Requests, NEW c \in Charges, ChargeStep(r, c) PROVE Goal
  <2> HIDE DEF Goal
  <2>1. ASSUME NEW total \in Totals, SaveRead(r, c, total) PROVE Goal
    <3> DEFINE t == [local[r] EXCEPT !.bills = {c}, !.priced[c] = total]
    <3>1. local' = [local EXCEPT ![r] = t] /\ GoTo(r, "save_write") /\ UNCHANGED invoices
      BY <2>1 DEF SaveRead, store
    <3> HIDE DEF t
    <3> QED BY <1>3, <3>1
  <2>2. CASE DeleteRead(r, c)
    <3> DEFINE t == [local[r] EXCEPT !.bills = {c}]
    <3>1. local' = [local EXCEPT ![r] = t] /\ GoTo(r, "delete_write") /\ UNCHANGED invoices
      BY <2>2 DEF DeleteRead, store
    <3> HIDE DEF t
    <3> QED BY <1>3, <3>1
  <2>3. CASE SaveWrite(r, c) \/ DeleteWrite(r, c) \/ Refuse(r, c)
    BY <1>2, <2>3 DEF SaveWrite, DeleteWrite, Refuse, store
  <2>4. CASE IssueBegin(r, c)
    <3> DEFINE t == [from |-> "issue", bills |-> {c}, priced |-> Totalled({c}), no |-> 0]
               step == IF HasSource(c) THEN "issue_commit" ELSE "take_number"
    <3>1. /\ local' = [local EXCEPT ![r] = t] /\ GoTo(r, step) /\ UNCHANGED invoices
      BY <2>4 DEF IssueBegin, StartIssue, store
    <3>2. step \in {"take_number", "bill_commit"} => \A i \in invoices : i.bills \cap t.bills = {}
      BY DEF HasSource
    <3> HIDE DEF t, step
    <3> QED BY <1>3, <3>1, <3>2
  <2>5. CASE BillCharge(r, c)
    <3> DEFINE t == [from |-> "charge", bills |-> {c}, priced |-> Totalled({c}), no |-> 0]
    <3>1. /\ local' = [local EXCEPT ![r] = t] /\ GoTo(r, "take_number") /\ UNCHANGED invoices
      BY <2>5 DEF BillCharge, store
    <3>2. \A i \in invoices : i.bills \cap t.bills = {}
      BY <2>5 DEF HasSource, BillCharge
    <3> HIDE DEF t
    <3> QED BY <1>3, <3>1, <3>2
  <2> QED BY <1>4, <2>1, <2>2, <2>3, <2>4, <2>5 DEF ChargeStep
<1>5. ASSUME NEW r \in Requests, OrderLookup(r) PROVE Goal
  <2>1. local' = [local EXCEPT ![r] = local[r]]
    BY <1>0, <1>5 DEF OrderLookup, TypeOK
  <2> QED BY <1>3, <1>5, <2>1 DEF OrderLookup, store
<1>6. ASSUME NEW r \in Requests, OrderRead(r) PROVE Goal
  <2> DEFINE pending == {c \in Charges : Exists(c) /\ ~HasSource(c)}
             t == [from |-> "order", bills |-> pending, priced |-> Totalled(pending), no |-> 0]
  <2>1. /\ UNCHANGED invoices
        /\ \/ Release(r)
           \/ local' = [local EXCEPT ![r] = t] /\ GoTo(r, "take_number")
    <3>1. CASE pending = {}
      BY <1>6, <3>1 DEF OrderRead, store
    <3>2. CASE pending # {}
      BY <1>6, <3>2 DEF OrderRead, store
    <3> QED BY <3>1, <3>2
  <2>2. \A i \in invoices : i.bills \cap t.bills = {}
    BY DEF HasSource
  <2> HIDE DEF t, Goal
  <2> QED BY <1>2, <1>3, <2>1, <2>2
<1>7. ASSUME NEW r \in Requests, TakeNumber(r) PROVE Goal
  <2> DEFINE t == [local[r] EXCEPT !.no = lastNo + 1]
  <2>1. local' = [local EXCEPT ![r] = t] /\ GoTo(r, "bill_commit") /\ UNCHANGED invoices
    BY <1>7 DEF TakeNumber, store
  <2>2. r = a
    BY <1>0, <1>7 DEF TakeNumber, Unbilled
  <2>3. local[r] \in Transaction
    BY <1>0 DEF TypeOK
  <2>4. t.bills = local[r].bills
    BY <2>3 DEF Transaction
  <2>5. \A i \in invoices : i.bills \cap t.bills = {}
    BY <1>0, <1>7, <2>2, <2>4 DEF TakeNumber, Unbilled
  <2> HIDE DEF t, Goal
  <2> QED BY <1>3, <2>1, <2>5
<1>8. ASSUME NEW r \in Requests, BillCommit(r) PROVE Goal
  <2>1. r = a /\ Release(a)
    BY <1>0, <1>8 DEF BillCommit, Unbilled
  <2>2. PICK n : n.bills = local[a].bills /\ invoices' = invoices \cup {n}
    BY <1>8, <2>1 DEF BillCommit
  <2>3. \A i \in invoices : i.bills \cap n.bills = {}
    BY <1>0, <1>8, <2>1, <2>2 DEF BillCommit, Unbilled
  <2>4. ASSUME NEW x \in invoices', NEW y \in invoices', Live(x), Live(y), BothBill(x, y)
        PROVE  x = y
    <3>1. CASE x \in invoices /\ y \in invoices
      BY <1>0, <2>4, <3>1 DEF BilledOnce
    <3> QED BY <2>2, <2>3, <2>4, <3>1 DEF BothBill
  <2>5. BilledOnce'
    BY <2>4 DEF BilledOnce, Live, BothBill
  <2>6. pc'[a] = "idle"
    BY <1>0, <2>1 DEF Release, TypeOK
  <2> QED BY <1>0, <2>5, <2>6 DEF Unbilled
<1>9. ASSUME NEW r \in Requests, IssueCommit(r) \/ Rollback(r) PROVE Goal
  BY <1>2, <1>9 DEF IssueCommit, Rollback, store
<1>10. ASSUME NEW i \in invoices, PostInvoice(i) \/ ReverseInvoice(i) \/ EraseInvoice(i) PROVE Goal
  <2>1. /\ BilledOnce' /\ UNCHANGED <<pc, local>>
        /\ \A j \in invoices' : \E k \in invoices : j.bills = k.bills
    BY <1>0, <1>10, BecomingBillsNothing
  <2> QED BY <1>0, <2>1 DEF Unbilled
<1>11. ASSUME NEW c \in Charges, NEW total \in Totals, CreateCharge(c, total) PROVE Goal
  BY <1>1, <1>11 DEF CreateCharge
<1> HIDE DEF Goal
<1>12. Next \/ UNCHANGED <<invoices, pc, local>>
  BY DEF BillingNext, vars
<1>13. ASSUME Next PROVE Goal
  BY <1>4, <1>5, <1>6, <1>7, <1>8, <1>9, <1>10, <1>11, <1>13 DEF Next
<1>14. Goal
  BY <1>1, <1>12, <1>13
<1> QED BY <1>14 DEF Goal

(* FR-108 where one request acts at a time: no charge is billed by two      *)
(* standing invoices, whatever it runs in whatever order, for any number    *)
(* of charges; invoices are posted, reversed and deleted in between.        *)
THEOREM LoneRequestsBillOnce == BillingSpec => []LoneCommandsBillOnce
<1>1. BillingSpec => Spec
  <2>1. [BillingNext]_<<vars, actors>> => [Next]_vars
    BY DEF BillingNext, vars
  <2> QED BY <2>1, PTL DEF BillingSpec, BillingInit, Spec
<1>2. BillingInit => LoneInv
  BY DEF BillingInit, Init, LoneInv, BilledOnce, Unbilled
<1>3. LoneInv => LoneCommandsBillOnce
  BY DEF LoneInv, LoneCommandsBillOnce
<1> QED BY <1>1, <1>2, <1>3, Invariance, LonePreserved, BillingAssumption, PTL DEF BillingSpec
=============================================================================
