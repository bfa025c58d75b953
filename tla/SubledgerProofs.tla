-------------------------- MODULE SubledgerProofs --------------------------
(***************************************************************************)
(* Proofs about Subledger, for any documents, requests, keys and periods.  *)
(***************************************************************************)
EXTENDS Subledger, Sums, TLAPS

(* The inductive invariant.  The ledger's part needs the lock protocol, to *)
(* know that what a posting or a reversal read under its lock still holds  *)
(* at COMMIT, and the numbering, to know that a new entry is nobody        *)
(* else's; the allocations need the lock protocol, to know that both       *)
(* documents are still posted when the row is inserted.                    *)
IInv == /\ TypeOK
        /\ LockProtocol
        /\ LedgerMatchesLifecycle
        /\ NumbersUniqueAndGapless
        /\ AllocationsJoinPosted

(* Numbers are unique, so EntryNo finds the entry that bears its number.   *)
LEMMA EntryFound ==
    ASSUME TypeOK, NumbersUniqueAndGapless, NEW j \in journals
    PROVE  EntryNo(j.no) = j
<1>1. \E i \in journals : i.no = j.no
  OBVIOUS
<1>2. EntryNo(j.no) \in journals /\ EntryNo(j.no).no = j.no
  BY <1>1 DEF EntryNo
<1> QED BY <1>2 DEF NumbersUniqueAndGapless

(* A reversal never writes a negative paid_amount.                         *)
LEMMA PaidAfterNat ==
    ASSUME TypeOK, NEW r \in Requests, NEW o \in Doc
    PROVE  PaidAfter(r, o) \in Nat
<1>1. local[r].seen[o] \in Nat
  BY DEF TypeOK, Transaction
<1> DEFINE left == {n \in 0..local[r].seen[o] : n + Given(r, o) = local[r].seen[o]}
<1>2. CASE left = {}
  BY <1>2 DEF PaidAfter
<1>3. CASE left # {}
  <2>1. (CHOOSE n \in left : TRUE) \in left
    BY <1>3
  <2>2. left \subseteq Nat
    BY <1>1
  <2> QED BY <1>3, <2>1, <2>2 DEF PaidAfter
<1> QED BY <1>2, <1>3

(* The end of a transaction keeps the types of the four local variables.   *)
LEMMA ReleaseTyped ==
    ASSUME TypeOK, LedgerAssumption, NEW r \in Requests, Release(r)
    PROVE  /\ pc' \in [Requests -> Steps]
           /\ local' \in [Requests -> Transaction]
           /\ docLock' \in [Doc -> Requests \cup {Free}]
           /\ numberLock' \in Requests \cup {Free}
<1>1. NoTransaction \in Transaction
  BY DEF NoTransaction, Transaction
<1> QED BY <1>1 DEF TypeOK, Release, Steps

(* Every write of a request's own reading keeps its type.                  *)
LEMMA ReadingTyped ==
    ASSUME TypeOK, NEW r \in Requests, NEW t \in Transaction, NEW step \in Steps,
           local' = [local EXCEPT ![r] = t], GoTo(r, step)
    PROVE  /\ local' \in [Requests -> Transaction]
           /\ pc' \in [Requests -> Steps]
  BY DEF TypeOK, GoTo

(* Every step keeps the types, action by action.                           *)
LEMMA TypePreserved == ASSUME LedgerAssumption, IInv, [Next]_vars PROVE TypeOK'
<1> USE DEF IInv
<1>t. \A r \in Requests : local[r] \in Transaction
  BY DEF TypeOK
<1>d. \A d \in Doc : docs[d].total \in Nat /\ docs[d].paid \in Nat
  BY DEF TypeOK, Document
<1>n. lastNo \in Nat
  BY DEF TypeOK
<1>1. ASSUME NEW d \in Doc, NEW t \in Totals, CreateDocument(d, t) PROVE TypeOK'
  BY <1>1 DEF TypeOK, LedgerAssumption, CreateDocument, Document, Status
<1>2. ASSUME NEW p \in Periods, ClosePeriod(p) \/ ReopenPeriod(p) PROVE TypeOK'
  BY <1>2 DEF TypeOK, ClosePeriod, ReopenPeriod
<1>3. ASSUME NEW r \in Requests, Edit(r) PROVE TypeOK'
  <2>1. ASSUME NEW d \in Doc, NEW t \in Totals, EditRead(r, d, t) PROVE TypeOK'
    <3> DEFINE read == [local[r] EXCEPT !.doc = d, !.total = t]
    <3>1. read \in Transaction
      BY <1>t, <1>n DEF Transaction, LedgerAssumption
    <3>2. local' = [local EXCEPT ![r] = read] /\ GoTo(r, "edit_write")
      BY <2>1 DEF EditRead
    <3> HIDE DEF read
    <3>r. /\ local' \in [Requests -> Transaction]
          /\ pc' \in [Requests -> Steps]
      BY <3>1, <3>2, ReadingTyped DEF Steps
    <3> QED BY <2>1, <3>1, <3>2, <3>r DEF EditRead, TypeOK, store, Steps
  <2>2. CASE EditWrite(r)
    <3>1. local[r].doc \in Doc /\ local[r].total \in Nat
      BY <2>2 DEF EditWrite, LockProtocol, Relies, Reversing, TypeOK, Transaction
    <3>2. docs' \in [Doc -> Document]
      <4> DEFINE d == local[r].doc
                 x == [docs[d] EXCEPT !.total = local[r].total]
      <4>1. docs \in [Doc -> Document]
        BY DEF TypeOK
      <4>2. x \in Document
        BY <3>1, <4>1 DEF Document
      <4>3. docs' = [docs EXCEPT ![d] = x]
        BY <2>2 DEF EditWrite
      <4> HIDE DEF x
      <4> QED BY <4>1, <4>2, <4>3
    <3> QED BY <2>2, <3>2, ReleaseTyped DEF EditWrite, TypeOK
  <2> QED BY <1>3, <2>1, <2>2 DEF Edit
<1>4. ASSUME NEW r \in Requests, Erase(r) PROVE TypeOK'
  <2>1. ASSUME NEW d \in Doc, EraseRead(r, d) PROVE TypeOK'
    <3> DEFINE read == [local[r] EXCEPT !.doc = d]
    <3>1. read \in Transaction
      BY <1>t, <1>n DEF Transaction
    <3>2. local' = [local EXCEPT ![r] = read] /\ GoTo(r, "erase_write")
      BY <2>1 DEF EraseRead
    <3> HIDE DEF read
    <3>r. /\ local' \in [Requests -> Transaction]
          /\ pc' \in [Requests -> Steps]
      BY <3>1, <3>2, ReadingTyped DEF Steps
    <3> QED BY <2>1, <3>1, <3>2, <3>r DEF EraseRead, TypeOK, store, Steps
  <2>2. CASE EraseWrite(r)
    <3>1. docs' \in [Doc -> Document]
      BY <2>2 DEF EraseWrite, TypeOK, Document, Status
    <3> QED BY <2>2, <3>1, ReleaseTyped DEF EraseWrite, TypeOK
  <2> QED BY <1>4, <2>1, <2>2 DEF Erase
<1>5. ASSUME NEW r \in Requests, Post(r) PROVE TypeOK'
  <2>1. ASSUME NEW d \in Doc, PostBegin(r, d) PROVE TypeOK'
    <3> DEFINE read == [local[r] EXCEPT !.doc = d, !.total = docs[d].total]
    <3>1. read \in Transaction
      BY <1>t, <1>d DEF Transaction
    <3>2. local' = [local EXCEPT ![r] = read] /\ GoTo(r, "post_number")
      BY <2>1 DEF PostBegin
    <3>3. docLock' \in [Doc -> Requests \cup {Free}]
      BY <2>1 DEF PostBegin, LockDoc, TypeOK
    <3> HIDE DEF read
    <3>r. /\ local' \in [Requests -> Transaction]
          /\ pc' \in [Requests -> Steps]
      BY <3>1, <3>2, <3>3, ReadingTyped DEF Steps
    <3> QED BY <2>1, <3>1, <3>2, <3>3, <3>r DEF PostBegin, TypeOK, store, Steps
  <2>2. CASE PostNumber(r)
    <3> DEFINE read == [local[r] EXCEPT !.no = lastNo + 1]
    <3>1. read \in Transaction
      BY <1>t, <1>n DEF Transaction
    <3>2. local' = [local EXCEPT ![r] = read] /\ GoTo(r, "post_check")
      BY <2>2 DEF PostNumber
    <3> HIDE DEF read
    <3>r. /\ local' \in [Requests -> Transaction]
          /\ pc' \in [Requests -> Steps]
      BY <3>1, <3>2, ReadingTyped DEF Steps
    <3> QED BY <2>2, <3>1, <3>2, <3>r
            DEF PostNumber, LockNumber, TypeOK, store, Steps
  <2>3. CASE PostCommit(r)
    <3>1. /\ local[r].doc \in Doc /\ local[r].total \in Nat /\ local[r].no \in Nat
          /\ PeriodOf[local[r].doc] \in Periods
      BY <2>3 DEF PostCommit, LockProtocol, Relies, Reversing, TypeOK, Transaction, LedgerAssumption
    <3>2. docs' \in [Doc -> Document]
      <4> DEFINE d == local[r].doc
                 written == [docs[d] EXCEPT !.status = "POSTED", !.posting = local[r].no]
      <4>1. docs \in [Doc -> Document] /\ docs[d] \in Document
        BY <3>1 DEF TypeOK
      <4>2. written \in Document
        BY <3>1, <4>1 DEF Document, Status
      <4>3. docs' = [docs EXCEPT ![d] = written]
        BY <2>3, <3>1, <4>1 DEF PostCommit
      <4> HIDE DEF written
      <4> QED BY <3>1, <4>1, <4>2, <4>3
    <3>3. journals' \subseteq Entry
      BY <2>3, <3>1 DEF PostCommit, TypeOK, Entry
    <3> QED BY <2>3, <3>1, <3>2, <3>3, ReleaseTyped DEF PostCommit, TypeOK
  <2>4. CASE PostCheck(r)
    BY <2>4 DEF PostCheck, GoTo, TypeOK, store, Steps
  <2> QED BY <1>5, <2>1, <2>2, <2>3, <2>4 DEF Post
<1>6. ASSUME NEW r \in Requests, Reverse(r) PROVE TypeOK'
  <2>1. ASSUME NEW d \in Doc, ReverseBegin(r, d) PROVE TypeOK'
    <3> DEFINE read == [local[r] EXCEPT !.doc = d]
    <3>1. read \in Transaction
      BY <1>t, <1>n DEF Transaction
    <3>2. local' = [local EXCEPT ![r] = read] /\ GoTo(r, "reverse_number")
      BY <2>1 DEF ReverseBegin
    <3>3. docLock' \in [Doc -> Requests \cup {Free}]
      BY <2>1 DEF ReverseBegin, LockDoc, TypeOK
    <3> HIDE DEF read
    <3>r. /\ local' \in [Requests -> Transaction]
          /\ pc' \in [Requests -> Steps]
      BY <3>1, <3>2, <3>3, ReadingTyped DEF Steps
    <3> QED BY <2>1, <3>1, <3>2, <3>3, <3>r DEF ReverseBegin, TypeOK, store, Steps
  <2>2. ASSUME NEW o \in Doc, ReverseLock(r, o) PROVE TypeOK'
    BY <2>2 DEF ReverseLock, LockDoc, TypeOK, store
  <2>3. CASE ReverseNumber(r)
    <3> DEFINE entry == EntryNo(docs[local[r].doc].posting)
               read  == [local[r] EXCEPT !.no = lastNo + 1, !.total = entry.amount]
    <3>1. entry \in journals
      <4>1. local[r].doc \in Doc /\ docs[local[r].doc].status = "POSTED"
        BY <2>3 DEF ReverseNumber, LockProtocol, Relies, Reversing
      <4>2. \E j \in journals : j.no = docs[local[r].doc].posting
        BY <4>1 DEF LedgerMatchesLifecycle
      <4> QED BY <4>2, EntryFound
    <3>e. entry.amount \in Nat
      BY <3>1 DEF TypeOK, Entry
    <3> HIDE DEF entry
    <3>2. read \in Transaction
      <4>1. local[r] \in Transaction /\ lastNo + 1 \in Nat
        BY <1>t, <1>n
      <4> QED BY <3>e, <4>1 DEF Transaction
    <3>3. local' = [local EXCEPT ![r] = read] /\ GoTo(r, "reverse_read")
      BY <2>3 DEF ReverseNumber, entry
    <3> HIDE DEF read
    <3>r. /\ local' \in [Requests -> Transaction]
          /\ pc' \in [Requests -> Steps]
      BY <3>2, <3>3, ReadingTyped DEF Steps
    <3> QED BY <2>3, <3>2, <3>3, <3>r
            DEF ReverseNumber, LockNumber, TypeOK, store, Steps
  <2>4. CASE ReverseRead(r)
    <3> DEFINE d    == local[r].doc
               mine == {k \in allocs : Touches(k, d)}
               seen == [o \in Doc |-> IF \E k \in mine : o = OtherSide(k, d)
                                      THEN docs[o].paid ELSE 0]
               read == [local[r] EXCEPT !.undo = mine, !.seen = seen]
    <3>1. mine \in SUBSET Keys /\ seen \in [Doc -> Nat]
      BY DEF TypeOK, Document
    <3>2. read \in Transaction
      BY <3>1, <1>t, <1>n DEF Transaction
    <3>3. local' = [local EXCEPT ![r] = read] /\ GoTo(r, "reverse_write")
      BY <2>4 DEF ReverseRead
    <3> HIDE DEF read
    <3>r. /\ local' \in [Requests -> Transaction]
          /\ pc' \in [Requests -> Steps]
      BY <3>2, <3>3, ReadingTyped DEF Steps
    <3> QED BY <2>4, <3>2, <3>3, <3>r DEF ReverseRead, TypeOK, store, Steps
  <2>5. CASE ReverseCommit(r)
    <3> DEFINE d == local[r].doc
               v == [no |-> local[r].no, doc |-> d, kind |-> "REVERSAL",
                     amount |-> local[r].total, period |-> Today,
                     reverses |-> docs[d].posting]
    <3>1. pc[r] = "reverse_commit"
      BY <2>5 DEF ReverseCommit
    <3>2. d \in Doc
      BY <3>1 DEF LockProtocol, Relies, Reversing
    <3>3. docs[d].posting \in Nat /\ local[r].total \in Nat /\ local[r].no \in Nat
      BY <3>2, <1>t DEF TypeOK, Document, Transaction
    <3>4. v \in Entry
      BY <3>2, <3>3 DEF Entry, LedgerAssumption
    <3>5. journals' = journals \cup {v} /\ allocs' \subseteq allocs /\ lastNo' = local[r].no
      BY <2>5 DEF ReverseCommit
    <3>6. \A o \in Doc : docs'[o] \in Document
      <4> SUFFICES ASSUME NEW o \in Doc PROVE docs'[o] \in Document
        OBVIOUS
      <4>1. docs[o] \in Document
        BY DEF TypeOK
      <4>2. PaidAfter(r, o) \in Nat
        BY PaidAfterNat
      <4>3. \/ docs'[o] = [docs[o] EXCEPT !.status = "REVERSED", !.paid = 0]
            \/ docs'[o] = [docs[o] EXCEPT !.paid = PaidAfter(r, o)]
            \/ docs'[o] = docs[o]
        BY <2>5 DEF ReverseCommit
      <4>4. [docs[o] EXCEPT !.status = "REVERSED", !.paid = 0] \in Document
        BY <4>1 DEF Document, Status
      <4>5. [docs[o] EXCEPT !.paid = PaidAfter(r, o)] \in Document
        BY <4>1, <4>2 DEF Document
      <4> QED BY <4>1, <4>3, <4>4, <4>5
    <3>7. docs' \in [Doc -> Document]
      BY <2>5, <3>6 DEF ReverseCommit
    <3>8. UNCHANGED <<settled, periods>> /\ Release(r)
      BY <2>5 DEF ReverseCommit
    <3>9. /\ pc' \in [Requests -> Steps]
          /\ local' \in [Requests -> Transaction]
          /\ docLock' \in [Doc -> Requests \cup {Free}]
          /\ numberLock' \in Requests \cup {Free}
      BY <3>8, ReleaseTyped
    <3> HIDE DEF v
    <3> QED BY <3>3, <3>4, <3>5, <3>7, <3>8, <3>9 DEF TypeOK
  <2>6. CASE ReverseCheck(r)
    BY <2>6 DEF ReverseCheck, GoTo, TypeOK, store, Steps
  <2> QED BY <1>6, <2>1, <2>2, <2>3, <2>4, <2>5, <2>6 DEF Reverse
<1>7. ASSUME NEW r \in Requests, Allocate(r) PROVE TypeOK'
  <2>1. ASSUME NEW k \in Keys, AllocateLookup(r, k) PROVE TypeOK'
    <3> DEFINE read == [local[r] EXCEPT !.key = k]
    <3>1. read \in Transaction
      BY <1>t, <1>n DEF Transaction
    <3>2. local' = [local EXCEPT ![r] = read] /\ GoTo(r, "lock_payment")
      BY <2>1 DEF AllocateLookup
    <3> HIDE DEF read
    <3>r. /\ local' \in [Requests -> Transaction]
          /\ pc' \in [Requests -> Steps]
      BY <3>1, <3>2, ReadingTyped DEF Steps
    <3> QED BY <2>1, <3>1, <3>2, <3>r DEF AllocateLookup, TypeOK, store, Steps
  <2>2. ASSUME NEW d \in Doc, NEW step \in Steps, LoadLocked(r, d), GoTo(r, step)
        PROVE  /\ local' \in [Requests -> Transaction] /\ pc' \in [Requests -> Steps]
               /\ docLock' \in [Doc -> Requests \cup {Free}]
    <3> DEFINE seen == [local[r].seen EXCEPT ![d] = docs[d].paid]
               read == [local[r] EXCEPT !.seen = seen]
    <3>1. seen \in [Doc -> Nat]
      BY DEF TypeOK, Transaction, Document
    <3>2. read \in Transaction
      BY <3>1, <1>t, <1>n DEF Transaction
    <3>3. local' = [local EXCEPT ![r] = read]
      BY <2>2 DEF LoadLocked
    <3>4. docLock' \in [Doc -> Requests \cup {Free}]
      BY <2>2 DEF LoadLocked, LockDoc, TypeOK
    <3> HIDE DEF read
    <3>r. /\ local' \in [Requests -> Transaction]
          /\ pc' \in [Requests -> Steps]
      BY <2>2, <3>2, <3>3, ReadingTyped
    <3> QED BY <2>2, <3>2, <3>3, <3>4, <3>r
  <2>3. ASSUME AllocateLockPayment(r) \/ AllocateLockTarget(r) \/ AllocateCommit(r)
        PROVE  /\ local[r].key \in Keys
               /\ Payload[local[r].key].payment \in Doc
               /\ Payload[local[r].key].target \in Doc
               /\ Amount(local[r].key) \in Nat
    <3>1. pc[r] \in {"lock_payment", "lock_target", "allocate_commit"}
      BY <2>3 DEF AllocateLockPayment, AllocateLockTarget, AllocateCommit
    <3>2. local[r].key \in Keys
      BY <3>1 DEF LockProtocol, Relies
    <3>3. Payload[local[r].key] \in Allocation
      BY <3>2 DEF LedgerAssumption
    <3> QED BY <3>2, <3>3 DEF Allocation, Doc, Amount
  <2>4. CASE AllocateLockPayment(r)
    BY <2>2, <2>3, <2>4 DEF AllocateLockPayment, TypeOK, store, Steps
  <2>5. CASE AllocateLockTarget(r)
    BY <2>2, <2>3, <2>5 DEF AllocateLockTarget, TypeOK, store, Steps
  <2>6. CASE AllocateCommit(r)
    <3> DEFINE k == local[r].key
    <3>1. \A d \in Doc : local[r].seen[d] + Amount(k) \in Nat
      BY <2>3, <2>6 DEF TypeOK, Transaction
    <3>2. docs' \in [Doc -> Document]
      BY <2>6, <3>1 DEF AllocateCommit, TypeOK, Document
    <3>3. allocs' \subseteq Keys /\ settled' \in [Keys -> Nat]
      BY <2>3, <2>6 DEF AllocateCommit, TypeOK
    <3> QED BY <2>6, <3>2, <3>3, ReleaseTyped DEF AllocateCommit, TypeOK
  <2> QED BY <1>7, <2>1, <2>4, <2>5, <2>6 DEF Allocate
<1>8. ASSUME NEW r \in Requests, Refuse(r) \/ DeadlockVictim(r) \/ Rollback(r)
      PROVE  TypeOK'
  BY <1>8, ReleaseTyped DEF Refuse, DeadlockVictim, Rollback, TypeOK, store
<1>9. CASE UNCHANGED vars
  BY <1>9 DEF vars, TypeOK
<1> QED BY <1>1, <1>2, <1>3, <1>4, <1>5, <1>6, <1>7, <1>8, <1>9 DEF Next

-----------------------------------------------------------------------------
(* What a step of another request must leave alone for s to keep relying   *)
(* on its locks and on what it has read under them.                        *)
Undisturbed(s) ==
    /\ pc'[s] = pc[s] /\ local'[s] = local[s]
    /\ \A d \in Doc : docLock[d] = s => /\ docLock'[d] = s
                                        /\ docs'[d].status = docs[d].status
                                        /\ docs'[d].posting = docs[d].posting
    /\ numberLock = s <=> numberLock' = s
    /\ numberLock = s => lastNo' = lastNo
    /\ journals \subseteq journals'
    /\ pc[s] \in {"reverse_write", "reverse_commit"} =>
          {k \in allocs' : Touches(k, local[s].doc)} = {k \in allocs : Touches(k, local[s].doc)}

(* A request's reliance survives a step that leaves alone all it relies on. *)
LEMMA ReliesFrame ==
    ASSUME TypeOK, LedgerAssumption, NEW s \in Requests, Relies(s), Undisturbed(s),
           \A d \in Doc : docLock'[d] = s => docLock[d] = s
    PROVE  Relies(s)'
<1>1. ASSUME local[s].key \in Keys
      PROVE  Payload[local[s].key].payment \in Doc /\ Payload[local[s].key].target \in Doc
  BY <1>1 DEF LedgerAssumption, Allocation, Doc
<1>2. pc[s] \in {"reverse_write", "reverse_commit"} =>
         local[s].undo = {k \in allocs' : Touches(k, local[s].doc)}
  BY DEF Relies, Reversing, Undisturbed
<1> QED BY <1>1, <1>2 DEF Relies, Reversing, Undisturbed, Touches, Exists

(* A request that has ended relies on nothing.                             *)
LEMMA ReleaseRelies ==
    ASSUME TypeOK, LedgerAssumption, NEW r \in Requests, Release(r)
    PROVE  Relies(r)'
<1>1. pc'[r] = "idle"
  BY DEF Release, TypeOK
<1>2. numberLock' # r /\ \A d \in Doc : docLock'[d] # r
  BY DEF Release, LedgerAssumption
<1> QED BY <1>1, <1>2 DEF Relies, Reversing

(* The locks of the others, when r ends.                                   *)
LEMMA ReleaseLeaves ==
    ASSUME TypeOK, LedgerAssumption, NEW r \in Requests, Release(r),
           NEW s \in Requests, s # r
    PROVE  /\ pc'[s] = pc[s] /\ local'[s] = local[s]
           /\ \A d \in Doc : docLock'[d] = s <=> docLock[d] = s
           /\ numberLock' = s <=> numberLock = s
  BY DEF Release, TypeOK, LedgerAssumption

(* Every step keeps the lock protocol: nobody writes a row that another    *)
(* request has locked and relies on.                                       *)
LEMMA LockPreserved == ASSUME LedgerAssumption, IInv, [Next]_vars PROVE LockProtocol'
<1> USE DEF IInv
<1> SUFFICES ASSUME NEW s \in Requests PROVE Relies(s)'
  BY DEF LockProtocol
<1>0. Relies(s)
  BY DEF LockProtocol
<1>1. ASSUME NEW d \in Doc, NEW t \in Totals, CreateDocument(d, t) PROVE Relies(s)'
  <2>1. docLock[d] # s
    BY <1>0, <1>1 DEF CreateDocument, Relies, Reversing, Exists
  <2>2. Undisturbed(s)
    BY <1>1, <2>1 DEF CreateDocument, Undisturbed, TypeOK
  <2> QED BY <1>0, <1>1, <2>2, ReliesFrame DEF CreateDocument
<1>2. ASSUME NEW p \in Periods, ClosePeriod(p) \/ ReopenPeriod(p) PROVE Relies(s)'
  BY <1>0, <1>2, ReliesFrame DEF ClosePeriod, ReopenPeriod, Undisturbed
<1>3. ASSUME NEW r \in Requests, Edit(r) PROVE Relies(s)'
  <2>1. ASSUME NEW d \in Doc, NEW t \in Totals, EditRead(r, d, t) PROVE Relies(s)'
    <3>1. CASE s = r
      BY <1>0, <2>1, <3>1 DEF EditRead, GoTo, Relies, Reversing, TypeOK, store, Exists
    <3>2. CASE s # r
      <4>1. Undisturbed(s)
        BY <2>1, <3>2 DEF EditRead, GoTo, Undisturbed, TypeOK, store
      <4> QED BY <1>0, <2>1, <4>1, ReliesFrame DEF EditRead
    <3> QED BY <3>1, <3>2
  <2>2. CASE EditWrite(r)
    <3>1. CASE s = r
      BY <2>2, <3>1, ReleaseRelies DEF EditWrite
    <3>2. CASE s # r
      <4>1. Undisturbed(s)
        BY <2>2, <3>2, ReleaseLeaves DEF EditWrite, Undisturbed, TypeOK
      <4> QED BY <1>0, <2>2, <3>2, <4>1, ReliesFrame, ReleaseLeaves DEF EditWrite
    <3> QED BY <3>1, <3>2
  <2> QED BY <1>3, <2>1, <2>2 DEF Edit
<1>4. ASSUME NEW r \in Requests, Erase(r) PROVE Relies(s)'
  <2>1. ASSUME NEW d \in Doc, EraseRead(r, d) PROVE Relies(s)'
    <3>1. CASE s = r
      BY <1>0, <2>1, <3>1 DEF EraseRead, GoTo, Relies, Reversing, TypeOK, store, Exists
    <3>2. CASE s # r
      <4>1. Undisturbed(s)
        BY <2>1, <3>2 DEF EraseRead, GoTo, Undisturbed, TypeOK, store
      <4> QED BY <1>0, <2>1, <4>1, ReliesFrame DEF EraseRead
    <3> QED BY <3>1, <3>2
  <2>2. CASE EraseWrite(r)
    <3>1. CASE s = r
      BY <2>2, <3>1, ReleaseRelies DEF EraseWrite
    <3>2. CASE s # r
      <4>1. docLock[local[r].doc] # s
        BY <2>2 DEF EraseWrite, LedgerAssumption
      <4>2. Undisturbed(s)
        BY <2>2, <3>2, <4>1, ReleaseLeaves DEF EraseWrite, Undisturbed, TypeOK
      <4> QED BY <1>0, <2>2, <3>2, <4>2, ReliesFrame, ReleaseLeaves DEF EraseWrite
    <3> QED BY <3>1, <3>2
  <2> QED BY <1>4, <2>1, <2>2 DEF Erase
<1>5. ASSUME NEW r \in Requests, Post(r) PROVE Relies(s)'
  <2>0. Relies(r)
    BY DEF LockProtocol
  <2>1. ASSUME NEW d \in Doc, PostBegin(r, d) PROVE Relies(s)'
    <3>1. CASE s = r
      BY <1>0, <2>1, <3>1 DEF PostBegin, LockDoc, GoTo, Relies, Reversing, TypeOK, store, Exists
    <3>2. CASE s # r
      <4>1. Undisturbed(s)
        BY <2>1, <3>2 DEF PostBegin, LockDoc, GoTo, Undisturbed, TypeOK, store, LedgerAssumption
      <4>2. \A e \in Doc : docLock'[e] = s => docLock[e] = s
        BY <2>1, <3>2 DEF PostBegin, LockDoc, TypeOK
      <4> QED BY <1>0, <4>1, <4>2, ReliesFrame
    <3> QED BY <3>1, <3>2
  <2>2. CASE PostNumber(r)
    <3>1. CASE s = r
      BY <1>0, <2>2, <3>1 DEF PostNumber, LockNumber, GoTo, Relies, Reversing, TypeOK, store, Exists
    <3>2. CASE s # r
      <4>1. Undisturbed(s)
        BY <2>2, <3>2 DEF PostNumber, LockNumber, GoTo, Undisturbed, TypeOK, store, LedgerAssumption
      <4> QED BY <1>0, <2>2, <4>1, ReliesFrame DEF PostNumber
    <3> QED BY <3>1, <3>2
  <2>3. CASE PostCommit(r)
    <3>1. CASE s = r
      BY <2>3, <3>1, ReleaseRelies DEF PostCommit
    <3>2. CASE s # r
      <4>1. docLock[local[r].doc] = r /\ numberLock = r
        BY <2>0, <2>3 DEF PostCommit, Relies, Reversing
      <4>2. Undisturbed(s)
        BY <2>3, <3>2, <4>1, ReleaseLeaves DEF PostCommit, Undisturbed, TypeOK
      <4> QED BY <1>0, <2>3, <3>2, <4>2, ReliesFrame, ReleaseLeaves DEF PostCommit
    <3> QED BY <3>1, <3>2
  <2>4. CASE PostCheck(r)
    <3>1. CASE s = r
      BY <1>0, <2>4, <3>1 DEF PostCheck, GoTo, Relies, Reversing, TypeOK, store, Exists
    <3>2. CASE s # r
      <4>1. Undisturbed(s)
        BY <2>4, <3>2 DEF PostCheck, GoTo, Undisturbed, TypeOK, store
      <4> QED BY <1>0, <2>4, <4>1, ReliesFrame DEF PostCheck
    <3> QED BY <3>1, <3>2
  <2> QED BY <1>5, <2>1, <2>2, <2>3, <2>4 DEF Post
<1>6. ASSUME NEW r \in Requests, Reverse(r) PROVE Relies(s)'
  <2>0. Relies(r)
    BY DEF LockProtocol
  <2>1. ASSUME NEW d \in Doc, ReverseBegin(r, d) PROVE Relies(s)'
    <3>1. CASE s = r
      BY <1>0, <2>1, <3>1 DEF ReverseBegin, LockDoc, GoTo, Relies, Reversing, TypeOK, store, Exists
    <3>2. CASE s # r
      <4>1. Undisturbed(s)
        BY <2>1, <3>2 DEF ReverseBegin, LockDoc, GoTo, Undisturbed, TypeOK, store, LedgerAssumption
      <4>2. \A e \in Doc : docLock'[e] = s => docLock[e] = s
        BY <2>1, <3>2 DEF ReverseBegin, LockDoc, TypeOK
      <4> QED BY <1>0, <4>1, <4>2, ReliesFrame
    <3> QED BY <3>1, <3>2
  <2>2. ASSUME NEW o \in Doc, ReverseLock(r, o) PROVE Relies(s)'
    <3>1. Exists(o)
      <4>1. PICK k \in allocs : Touches(k, local[r].doc) /\ o = OtherSide(k, local[r].doc)
        BY <2>0, <2>2 DEF ReverseLock, ToUpdate, Relies, Reversing
      <4> QED BY <4>1 DEF AllocationsJoinPosted, OtherSide, Exists
    <3>2. CASE s = r
      BY <1>0, <2>2, <3>1, <3>2 DEF ReverseLock, LockDoc, Relies, Reversing, TypeOK, store, Exists
    <3>3. CASE s # r
      <4>1. Undisturbed(s)
        BY <2>2, <3>3 DEF ReverseLock, LockDoc, Undisturbed, TypeOK, store, LedgerAssumption
      <4>2. \A e \in Doc : docLock'[e] = s => docLock[e] = s
        BY <2>2, <3>3 DEF ReverseLock, LockDoc, TypeOK
      <4> QED BY <1>0, <4>1, <4>2, ReliesFrame
    <3> QED BY <3>2, <3>3
  <2>3. CASE ReverseNumber(r)
    <3>1. CASE s = r
      <4> DEFINE d == local[r].doc
                 entry == EntryNo(docs[d].posting)
      <4>1. d \in Doc /\ docs[d].status = "POSTED" /\ docLock[d] = r /\ pc[r] = "reverse_number"
        BY <2>0, <2>3 DEF ReverseNumber, Relies, Reversing
      <4>2. \E j \in journals : j.no = docs[d].posting
        BY <4>1 DEF LedgerMatchesLifecycle
      <4>3. entry \in journals /\ entry.no = docs[d].posting
        BY <4>2, EntryFound
      <4> HIDE DEF entry
      <4>4. /\ local'[r].doc = d /\ local'[r].no = lastNo + 1 /\ local'[r].total = entry.amount
            /\ pc'[r] = "reverse_read" /\ numberLock' = r /\ UNCHANGED <<store, docLock>>
        BY <2>3 DEF ReverseNumber, LockNumber, GoTo, TypeOK, Transaction, entry
      <4> QED BY <2>0, <3>1, <4>1, <4>3, <4>4 DEF Relies, Reversing, Exists, store
    <3>2. CASE s # r
      <4>1. Undisturbed(s)
        BY <2>3, <3>2 DEF ReverseNumber, LockNumber, GoTo, Undisturbed, TypeOK, store, LedgerAssumption
      <4> QED BY <1>0, <2>3, <4>1, ReliesFrame DEF ReverseNumber
    <3> QED BY <3>1, <3>2
  <2>4. CASE ReverseRead(r)
    <3>1. CASE s = r
      <4>1. /\ local'[r].doc = local[r].doc /\ local'[r].no = local[r].no
            /\ local'[r].total = local[r].total
            /\ local'[r].undo = {k \in allocs : Touches(k, local[r].doc)}
            /\ pc[r] = "reverse_read" /\ pc'[r] = "reverse_write"
            /\ UNCHANGED <<store, docLock, numberLock>>
        BY <2>4 DEF ReverseRead, GoTo, TypeOK, Transaction
      <4> QED BY <2>0, <3>1, <4>1 DEF Relies, Reversing, Exists, Touches, store
    <3>2. CASE s # r
      <4>1. Undisturbed(s)
        BY <2>4, <3>2 DEF ReverseRead, GoTo, Undisturbed, TypeOK, store
      <4> QED BY <1>0, <2>4, <4>1, ReliesFrame DEF ReverseRead
    <3> QED BY <3>1, <3>2
  <2>5. CASE ReverseCommit(r)
    <3>1. CASE s = r
      BY <2>5, <3>1, ReleaseRelies DEF ReverseCommit
    <3>2. CASE s # r
      <4>1. docLock[local[r].doc] = r /\ numberLock = r
        BY <2>0, <2>5 DEF ReverseCommit, Relies, Reversing
      <4>2. pc[s] \notin Reversing
        BY <1>0, <3>2, <4>1 DEF Relies, Reversing
      <4>3. \A d \in Doc : docLock[d] = s => /\ docs'[d].status = docs[d].status
                                            /\ docs'[d].posting = docs[d].posting
        <5> SUFFICES ASSUME NEW d \in Doc, docLock[d] = s
                     PROVE  /\ docs'[d].status = docs[d].status
                            /\ docs'[d].posting = docs[d].posting
          OBVIOUS
        <5>1. docs[d] \in Document
          BY DEF TypeOK
        <5>2. docs'[d] \in {docs[d], [docs[d] EXCEPT !.paid = PaidAfter(r, d)]}
          BY <2>5, <3>2, <4>1 DEF ReverseCommit
        <5> QED BY <5>1, <5>2 DEF Document
      <4>4. journals \subseteq journals' /\ Release(r)
        BY <2>5 DEF ReverseCommit
      <4>5. Undisturbed(s)
        BY <3>2, <4>1, <4>2, <4>3, <4>4, ReleaseLeaves DEF Undisturbed, Reversing
      <4> QED BY <1>0, <3>2, <4>4, <4>5, ReliesFrame, ReleaseLeaves
    <3> QED BY <3>1, <3>2
  <2>6. CASE ReverseCheck(r)
    <3>1. CASE s = r
      <4>1. /\ pc[r] = "reverse_write" /\ pc'[r] = "reverse_commit"
            /\ UNCHANGED <<store, docLock, numberLock, local>>
        BY <2>6 DEF ReverseCheck, GoTo, TypeOK
      <4> QED BY <2>0, <3>1, <4>1 DEF Relies, Reversing, Exists, Touches, store
    <3>2. CASE s # r
      <4>1. Undisturbed(s)
        BY <2>6, <3>2 DEF ReverseCheck, GoTo, Undisturbed, TypeOK, store
      <4> QED BY <1>0, <2>6, <4>1, ReliesFrame DEF ReverseCheck
    <3> QED BY <3>1, <3>2
  <2> QED BY <1>6, <2>1, <2>2, <2>3, <2>4, <2>5, <2>6 DEF Reverse
<1>7. ASSUME NEW r \in Requests, Allocate(r) PROVE Relies(s)'
  <2>0. Relies(r)
    BY DEF LockProtocol
  <2>1. ASSUME NEW k \in Keys, AllocateLookup(r, k) PROVE Relies(s)'
    <3>1. CASE s = r
      BY <1>0, <2>1, <3>1 DEF AllocateLookup, GoTo, Relies, Reversing, TypeOK, store, Exists
    <3>2. CASE s # r
      <4>1. Undisturbed(s)
        BY <2>1, <3>2 DEF AllocateLookup, GoTo, Undisturbed, TypeOK, store
      <4> QED BY <1>0, <2>1, <4>1, ReliesFrame DEF AllocateLookup
    <3> QED BY <3>1, <3>2
  <2>2. ASSUME NEW d \in Doc, NEW step \in Steps, LoadLocked(r, d), GoTo(r, step),
               UNCHANGED <<store, numberLock>>
        PROVE  /\ s # r => Relies(s)'
               /\ local'[r].key = local[r].key /\ local'[r].doc = local[r].doc
               /\ pc'[r] = step /\ docLock'[d] = r
               /\ \A e \in Doc : e # d => docLock'[e] = docLock[e]
    <3>1. ASSUME s # r PROVE Relies(s)'
      <4>1. Undisturbed(s)
        BY <2>2, <3>1 DEF LoadLocked, LockDoc, GoTo, Undisturbed, TypeOK, store, LedgerAssumption
      <4>2. \A e \in Doc : docLock'[e] = s => docLock[e] = s
        BY <2>2, <3>1 DEF LoadLocked, LockDoc, TypeOK
      <4> QED BY <1>0, <4>1, <4>2, ReliesFrame
    <3>2. local'[r].key = local[r].key /\ local'[r].doc = local[r].doc
      BY <2>2 DEF LoadLocked, TypeOK, Transaction
    <3>3. /\ pc'[r] = step /\ docLock'[d] = r
          /\ \A e \in Doc : e # d => docLock'[e] = docLock[e]
      BY <2>2 DEF LoadLocked, LockDoc, GoTo, TypeOK
    <3> QED BY <3>1, <3>2, <3>3
  <2>3. ASSUME AllocateLockPayment(r) \/ AllocateLockTarget(r) \/ AllocateCommit(r)
        PROVE  /\ local[r].key \in Keys
               /\ Payload[local[r].key].payment \in Doc
               /\ Payload[local[r].key].target \in Doc
    BY <2>0, <2>3 DEF AllocateLockPayment, AllocateLockTarget, AllocateCommit,
                      Relies, Reversing, LedgerAssumption, Allocation, Doc
  <2>4. CASE AllocateLockPayment(r)
    <3> DEFINE d == Payload[local[r].key].payment
    <3>1. /\ pc[r] = "lock_payment" /\ Exists(d) /\ LoadLocked(r, d)
          /\ GoTo(r, "lock_target") /\ UNCHANGED <<store, numberLock>>
      BY <2>4 DEF AllocateLockPayment
    <3>2. "lock_target" \in Steps
      BY DEF Steps
    <3> HIDE DEF d
    <3>3. /\ s # r => Relies(s)'
          /\ local'[r].key = local[r].key /\ pc'[r] = "lock_target" /\ docLock'[d] = r
          /\ \A e \in Doc : e # d => docLock'[e] = docLock[e]
      BY <2>2, <2>3, <2>4, <3>1, <3>2 DEF d
    <3>4. UNCHANGED <<docs, numberLock>>
      BY <3>1 DEF store
    <3>5. numberLock # r /\ \A e \in Doc : docLock[e] = r => Exists(e)
      BY <2>0, <3>1 DEF Relies, Reversing
    <3>6. \A e \in Doc : docLock'[e] = r => Exists(e)'
      BY <3>1, <3>3, <3>4, <3>5 DEF Exists
    <3>7. CASE s = r
      BY <2>3, <2>4, <3>3, <3>4, <3>5, <3>6, <3>7 DEF Relies, Reversing, d
    <3> QED BY <3>3, <3>7
  <2>5. CASE AllocateLockTarget(r)
    <3> DEFINE d == Payload[local[r].key].target
    <3>1. /\ pc[r] = "lock_target" /\ Acceptable(local[r].key) /\ LoadLocked(r, d)
          /\ GoTo(r, "allocate_commit") /\ UNCHANGED <<store, numberLock>>
      BY <2>5 DEF AllocateLockTarget
    <3>2. "allocate_commit" \in Steps
      BY DEF Steps
    <3>3. /\ docs[Payload[local[r].key].payment].status = "POSTED"
          /\ docs[d].status = "POSTED"
      BY <3>1 DEF Acceptable
    <3>p. docLock[Payload[local[r].key].payment] = r
      BY <2>0, <3>1 DEF Relies
    <3> HIDE DEF d
    <3>4. /\ s # r => Relies(s)'
          /\ local'[r].key = local[r].key /\ pc'[r] = "allocate_commit" /\ docLock'[d] = r
          /\ \A e \in Doc : e # d => docLock'[e] = docLock[e]
      BY <2>2, <2>3, <2>5, <3>1, <3>2 DEF d
    <3>5. UNCHANGED <<docs, numberLock>>
      BY <3>1 DEF store
    <3>6. numberLock # r /\ \A e \in Doc : docLock[e] = r => Exists(e)
      BY <2>0, <3>1 DEF Relies, Reversing
    <3>7. \A e \in Doc : docLock'[e] = r => Exists(e)'
      BY <3>3, <3>4, <3>5, <3>6 DEF Exists
    <3>8. CASE s = r
      BY <2>3, <2>5, <3>3, <3>p, <3>4, <3>5, <3>6, <3>7, <3>8 DEF Relies, Reversing, d
    <3> QED BY <3>4, <3>8
  <2>6. CASE AllocateCommit(r)
    <3>1. CASE s = r
      BY <2>6, <3>1, ReleaseRelies DEF AllocateCommit
    <3>2. CASE s # r
      <4> DEFINE k == local[r].key
      <4>1. /\ docLock[Payload[k].payment] = r /\ docLock[Payload[k].target] = r
        BY <2>0, <2>6 DEF AllocateCommit, Relies, Reversing
      <4>2. \A d \in Doc : docs'[d].status = docs[d].status /\ docs'[d].posting = docs[d].posting
        BY <2>6 DEF AllocateCommit, TypeOK, Document
      <4>3. allocs' = allocs \cup {k} /\ UNCHANGED <<journals, periods, lastNo>> /\ Release(r)
        BY <2>6 DEF AllocateCommit
      <4>4. pc[s] \in {"reverse_write", "reverse_commit"} => ~Touches(k, local[s].doc)
        BY <1>0, <3>2, <4>1 DEF Relies, Reversing, Touches
      <4>5. Undisturbed(s)
        BY <3>2, <4>2, <4>3, <4>4, ReleaseLeaves DEF Undisturbed, Touches
      <4> QED BY <1>0, <3>2, <4>3, <4>5, ReliesFrame, ReleaseLeaves
    <3> QED BY <3>1, <3>2
  <2> QED BY <1>7, <2>1, <2>4, <2>5, <2>6 DEF Allocate
<1>8. ASSUME NEW r \in Requests, Refuse(r) \/ DeadlockVictim(r) \/ Rollback(r)
      PROVE  Relies(s)'
  <2>1. Release(r) /\ UNCHANGED store
    BY <1>8 DEF Refuse, DeadlockVictim, Rollback
  <2>2. CASE s = r
    BY <2>1, <2>2, ReleaseRelies
  <2>3. CASE s # r
    <3>1. Undisturbed(s)
      BY <2>1, <2>3, ReleaseLeaves DEF Undisturbed, store
    <3> QED BY <1>0, <2>1, <2>3, <3>1, ReliesFrame, ReleaseLeaves
  <2> QED BY <2>2, <2>3
<1>9. CASE UNCHANGED vars
  <2>1. Undisturbed(s)
    BY <1>9 DEF vars, Undisturbed
  <2> QED BY <1>0, <1>9, <2>1, ReliesFrame DEF vars
<1> QED BY <1>1, <1>2, <1>3, <1>4, <1>5, <1>6, <1>7, <1>8, <1>9 DEF Next

-----------------------------------------------------------------------------
(* The two steps that write the ledger, as the invariants below see them.  *)
LEMMA PostCommitWrites ==
    ASSUME LedgerAssumption, IInv, NEW r \in Requests, PostCommit(r)
    PROVE  \E d \in Doc, j \in Entry :
              /\ docs[d].status = "DRAFT" /\ docs[d].posting = 0
              /\ j.no = lastNo + 1 /\ j.doc = d /\ j.kind = "AUTOMATIC"
              /\ j.period = PeriodOf[d] /\ Committing(r, j.period)
              /\ journals' = journals \cup {j} /\ lastNo' = lastNo + 1
              /\ docs'[d].status = "POSTED" /\ docs'[d].posting = lastNo + 1
              /\ docs'[d].total = docs[d].total
              /\ \A o \in Doc \ {d} : docs'[o] = docs[o]
              /\ UNCHANGED <<allocs, settled>>
<1> USE DEF IInv
<1> DEFINE d == local[r].doc
           j == [no |-> local[r].no, doc |-> d, kind |-> "AUTOMATIC",
                 amount |-> local[r].total, period |-> PeriodOf[d], reverses |-> 0]
<1>1. Relies(r) /\ pc[r] = "post_commit"
  BY DEF LockProtocol, PostCommit
<1>2. /\ d \in Doc /\ docs[d].status = "DRAFT" /\ local[r].no = lastNo + 1
  BY <1>1 DEF Relies, Reversing
<1>3. docs[d].posting = 0
  BY <1>2 DEF LedgerMatchesLifecycle
<1>4. local[r].total \in Nat /\ PeriodOf[d] \in Periods /\ lastNo + 1 \in Nat
  BY <1>2 DEF TypeOK, Transaction, LedgerAssumption
<1>5. j \in Entry
  BY <1>2, <1>4 DEF Entry
<1>6. /\ journals' = journals \cup {j} /\ Committing(r, PeriodOf[d])
      /\ lastNo' = local[r].no /\ UNCHANGED <<allocs, settled>>
      /\ docs' = [docs EXCEPT ![d].status = "POSTED", ![d].posting = local[r].no]
  BY DEF PostCommit, Committing
<1>7. /\ docs'[d].status = "POSTED" /\ docs'[d].posting = lastNo + 1
      /\ docs'[d].total = docs[d].total
  BY <1>2, <1>6 DEF TypeOK, Document
<1>8. \A o \in Doc \ {d} : docs'[o] = docs[o]
  BY <1>6 DEF TypeOK
<1>9. j.no = lastNo + 1 /\ j.doc = d /\ j.kind = "AUTOMATIC" /\ j.period = PeriodOf[d]
  BY <1>2
<1> HIDE DEF j
<1> QED BY <1>2, <1>3, <1>5, <1>6, <1>7, <1>8, <1>9

(* What the commit of a reversal writes: the mirror entry v of j, REVERSED,*)
(* and the removal of exactly the allocations that touch the document d.   *)
ReversalWritten(r, d, v, j) ==
    /\ docs[d].status = "POSTED" /\ EntriesOf(d) = {j}
    /\ j.kind = "AUTOMATIC" /\ j.no = docs[d].posting
    /\ v.no = lastNo + 1 /\ v.doc = d /\ v.kind = "REVERSAL"
    /\ v.reverses = j.no /\ v.amount = j.amount
    /\ v.period = Today /\ Committing(r, v.period)
    /\ journals' = journals \cup {v} /\ lastNo' = lastNo + 1
    /\ docs'[d].status = "REVERSED"
    /\ \A o \in Doc \ {d} : docs'[o].status = docs[o].status
    /\ \A o \in Doc : docs'[o].posting = docs[o].posting /\ docs'[o].total = docs[o].total
    /\ allocs' = {k \in allocs : ~Touches(k, d)} /\ UNCHANGED settled

LEMMA ReverseCommitWrites ==
    ASSUME LedgerAssumption, IInv, NEW r \in Requests, ReverseCommit(r)
    PROVE  \E d \in Doc, v \in Entry, j \in journals : ReversalWritten(r, d, v, j)
<1> USE DEF IInv
<1> DEFINE d == local[r].doc
           v == [no |-> local[r].no, doc |-> d, kind |-> "REVERSAL",
                 amount |-> local[r].total, period |-> Today,
                 reverses |-> docs[d].posting]
<1>1. Relies(r) /\ pc[r] = "reverse_commit"
  BY DEF LockProtocol, ReverseCommit
<1>2. /\ d \in Doc /\ docs[d].status = "POSTED" /\ local[r].no = lastNo + 1
      /\ local[r].undo = {k \in allocs : Touches(k, d)}
  BY <1>1 DEF Relies, Reversing
<1>3. PICK j \in journals : j.no = docs[d].posting /\ local[r].total = j.amount
  BY <1>1 DEF Relies, Reversing
<1>4. EntriesOf(d) = {j} /\ j.kind = "AUTOMATIC"
  <2>1. PICK i \in journals : EntriesOf(d) = {i} /\ i.kind = "AUTOMATIC" /\ i.no = docs[d].posting
    BY <1>2 DEF LedgerMatchesLifecycle
  <2>2. i = j
    BY <1>3, <2>1 DEF NumbersUniqueAndGapless
  <2> QED BY <2>1, <2>2
<1>5. /\ local[r].total \in Nat /\ docs[d].posting \in Nat /\ lastNo + 1 \in Nat
  BY <1>2 DEF TypeOK, Transaction, Document
<1>6. v \in Entry
  BY <1>2, <1>5 DEF Entry, LedgerAssumption
<1>7. /\ journals' = journals \cup {v} /\ Committing(r, Today)
      /\ lastNo' = local[r].no /\ allocs' = allocs \ local[r].undo /\ UNCHANGED settled
  BY DEF ReverseCommit, Committing
<1>8. /\ docs'[d].status = "REVERSED"
      /\ \A o \in Doc \ {d} : docs'[o].status = docs[o].status
      /\ \A o \in Doc : docs'[o].posting = docs[o].posting /\ docs'[o].total = docs[o].total
  <2>1. docs'[d] = [docs[d] EXCEPT !.status = "REVERSED", !.paid = 0]
    BY <1>2 DEF ReverseCommit
  <2>2. \A o \in Doc \ {d} : docs'[o] \in {docs[o], [docs[o] EXCEPT !.paid = PaidAfter(r, o)]}
    BY DEF ReverseCommit
  <2>3. \A o \in Doc : docs[o] \in Document
    BY DEF TypeOK
  <2>4. /\ docs'[d].status = "REVERSED" /\ docs'[d].posting = docs[d].posting
        /\ docs'[d].total = docs[d].total
    BY <1>2, <2>1, <2>3 DEF Document
  <2>5. ASSUME NEW o \in Doc \ {d}
        PROVE  /\ docs'[o].status = docs[o].status /\ docs'[o].posting = docs[o].posting
               /\ docs'[o].total = docs[o].total
    <3>1. docs[o] \in Document
      BY <2>3
    <3>2. CASE docs'[o] = docs[o]
      BY <3>2
    <3>3. CASE docs'[o] = [docs[o] EXCEPT !.paid = PaidAfter(r, o)]
      BY <3>1, <3>3 DEF Document
    <3> QED BY <2>2, <3>2, <3>3
  <2> QED BY <1>2, <2>4, <2>5
<1>9. /\ v.no = lastNo + 1 /\ v.doc = d /\ v.kind = "REVERSAL" /\ v.period = Today
      /\ v.reverses = j.no /\ v.amount = j.amount
  BY <1>2, <1>3
<1>10. allocs' = {k \in allocs : ~Touches(k, d)}
  BY <1>2, <1>7
<1> HIDE DEF v
<1>11. ReversalWritten(r, d, v, j)
  BY <1>2, <1>3, <1>4, <1>7, <1>8, <1>9, <1>10 DEF ReversalWritten
<1> QED BY <1>2, <1>3, <1>6, <1>11

(* What the commit of an allocation writes: one row between two documents  *)
(* that are posted at that moment.                                         *)
LEMMA AllocateCommitWrites ==
    ASSUME LedgerAssumption, IInv, NEW r \in Requests, AllocateCommit(r)
    PROVE  \E k \in Keys :
              /\ TriggerAccepts(k)
              /\ docs[Payload[k].payment].status = "POSTED"
              /\ docs[Payload[k].target].status = "POSTED"
              /\ \A d \in Doc : /\ docs'[d].status = docs[d].status
                                /\ docs'[d].total = docs[d].total
                                /\ docs'[d].posting = docs[d].posting
              /\ allocs' = allocs \cup {k}
              /\ settled' = [settled EXCEPT ![k] = @ + 1]
              /\ UNCHANGED <<journals, lastNo>>
<1> USE DEF IInv
<1>1. /\ local[r].key \in Keys
      /\ docs[Payload[local[r].key].payment].status = "POSTED"
      /\ docs[Payload[local[r].key].target].status = "POSTED"
  BY DEF LockProtocol, Relies, Reversing, AllocateCommit
<1>2. \A d \in Doc : /\ docs'[d].status = docs[d].status
                     /\ docs'[d].total = docs[d].total
                     /\ docs'[d].posting = docs[d].posting
  BY DEF AllocateCommit, TypeOK, Document
<1> QED BY <1>1, <1>2 DEF AllocateCommit

(* The steps that write nothing a user can see.                            *)
LEMMA QuietSteps ==
    ASSUME [Next]_vars,
           \A d \in Doc, t \in Totals : ~CreateDocument(d, t),
           \A r \in Requests : /\ ~EditWrite(r) /\ ~EraseWrite(r) /\ ~PostCommit(r)
                               /\ ~ReverseCommit(r) /\ ~AllocateCommit(r)
    PROVE  UNCHANGED <<docs, allocs, settled, journals, lastNo>>
<1>1. ASSUME NEW p \in Periods, ClosePeriod(p) \/ ReopenPeriod(p)
      PROVE  UNCHANGED <<docs, allocs, settled, journals, lastNo>>
  BY <1>1 DEF ClosePeriod, ReopenPeriod
<1>2. ASSUME NEW r \in Requests, Edit(r) \/ Erase(r) \/ Post(r)
      PROVE  UNCHANGED <<docs, allocs, settled, journals, lastNo>>
  BY <1>2 DEF Edit, Erase, Post, EditRead, EraseRead, PostBegin, PostNumber, PostCheck,
              store
<1>3. ASSUME NEW r \in Requests, Reverse(r) \/ Allocate(r)
      PROVE  UNCHANGED <<docs, allocs, settled, journals, lastNo>>
  BY <1>3 DEF Reverse, Allocate, ReverseBegin, ReverseLock, ReverseNumber, ReverseRead, ReverseCheck,
              AllocateLookup, AllocateLockPayment, AllocateLockTarget, store
<1>4. ASSUME NEW r \in Requests, Refuse(r) \/ DeadlockVictim(r) \/ Rollback(r)
      PROVE  UNCHANGED <<docs, allocs, settled, journals, lastNo>>
  BY <1>4 DEF Refuse, DeadlockVictim, Rollback, store
<1> QED BY <1>1, <1>2, <1>3, <1>4 DEF Next, vars

(* The steps that leave the ledger and the allocations alone.  Those that  *)
(* touch documents create a draft, erase an unposted one or revise terms.  *)
LEMMA OtherStepsWrite ==
    ASSUME LedgerAssumption, IInv, [Next]_vars,
           \A r \in Requests : ~PostCommit(r) /\ ~ReverseCommit(r) /\ ~AllocateCommit(r)
    PROVE  /\ UNCHANGED <<allocs, settled, journals, lastNo>>
           /\ \A d \in Doc :
                 /\ docs'[d].posting = docs[d].posting
                 /\ \/ docs'[d].status = docs[d].status
                    \/ docs[d].status \in {"ABSENT", "DRAFT"} /\ docs'[d].status \in {"DRAFT", "ERASED"}
<1> USE DEF IInv
<1>1. ASSUME NEW d \in Doc, NEW t \in Totals, CreateDocument(d, t)
      PROVE  /\ UNCHANGED <<allocs, settled, journals, lastNo>>
             /\ \A e \in Doc : \/ docs'[e] = docs[e]
                               \/ /\ docs[e].status = "ABSENT" /\ docs'[e].status = "DRAFT"
                                  /\ docs'[e].posting = 0
  BY <1>1 DEF CreateDocument, TypeOK
<1>2. ASSUME NEW r \in Requests, EditWrite(r)
      PROVE  /\ UNCHANGED <<allocs, settled, journals, lastNo>>
             /\ \A e \in Doc : /\ docs'[e].posting = docs[e].posting
                               /\ docs'[e].status = docs[e].status
  BY <1>2 DEF EditWrite, TypeOK, Document
<1>3. ASSUME NEW r \in Requests, EraseWrite(r)
      PROVE  /\ UNCHANGED <<allocs, settled, journals, lastNo>>
             /\ \A e \in Doc : \/ docs'[e] = docs[e]
                               \/ /\ docs[e].posting = 0 /\ docs'[e].posting = 0
                                  /\ docs[e].status \notin {"ABSENT", "ERASED"}
                                  /\ docs'[e].status = "ERASED"
  BY <1>3 DEF EraseWrite, Erasable, Exists, TypeOK
<1>4. ASSUME \A d \in Doc, t \in Totals : ~CreateDocument(d, t),
             \A r \in Requests : ~EditWrite(r) /\ ~EraseWrite(r)
      PROVE  UNCHANGED <<docs, allocs, settled, journals, lastNo>>
  BY <1>4, QuietSteps
<1>5. \A d \in Doc : /\ docs[d].posting = 0 => docs[d].status \notin {"POSTED", "REVERSED"}
                     /\ docs[d].status = "ABSENT" => docs[d].posting = 0
                     /\ docs[d].status \in Status
  BY DEF LedgerMatchesLifecycle, TypeOK, Document
<1> QED BY <1>1, <1>2, <1>3, <1>4, <1>5 DEF Status

(* Only the two ledger commits write numbers, each the next one.           *)
LEMMA NumbersPreserved ==
    ASSUME LedgerAssumption, IInv, [Next]_vars PROVE NumbersUniqueAndGapless'
<1> USE DEF IInv
<1>0. lastNo \in Nat /\ \A j \in journals : j.no \in 1..lastNo
  BY DEF TypeOK, NumbersUniqueAndGapless
<1>1. ASSUME NEW j \in Entry, j.no = lastNo + 1, journals' = journals \cup {j},
             lastNo' = lastNo + 1
      PROVE  NumbersUniqueAndGapless'
  <2>1. {i.no : i \in journals'} = {i.no : i \in journals} \cup {lastNo + 1}
    BY <1>1
  <2>2. 1..(lastNo + 1) = (1..lastNo) \cup {lastNo + 1}
    BY <1>0
  <2>3. \A i, k \in journals' : i.no = k.no => i = k
    BY <1>0, <1>1 DEF NumbersUniqueAndGapless
  <2> QED BY <1>1, <2>1, <2>2, <2>3 DEF NumbersUniqueAndGapless
<1>2. ASSUME NEW r \in Requests, PostCommit(r) PROVE NumbersUniqueAndGapless'
  BY <1>1, <1>2, PostCommitWrites
<1>3. ASSUME NEW r \in Requests, ReverseCommit(r) PROVE NumbersUniqueAndGapless'
  <2>1. PICK d \in Doc, v \in Entry, j \in journals : ReversalWritten(r, d, v, j)
    BY <1>3, ReverseCommitWrites
  <2> QED BY <1>1, <2>1 DEF ReversalWritten
<1>4. ASSUME NEW r \in Requests, AllocateCommit(r) PROVE NumbersUniqueAndGapless'
  BY <1>4, AllocateCommitWrites DEF NumbersUniqueAndGapless
<1>5. ASSUME UNCHANGED <<journals, lastNo>> PROVE NumbersUniqueAndGapless'
  BY <1>5 DEF NumbersUniqueAndGapless
<1> QED BY <1>2, <1>3, <1>4, <1>5, OtherStepsWrite

(* No step leaves an allocation on a document that is not posted.          *)
LEMMA AllocationsPreserved ==
    ASSUME LedgerAssumption, IInv, [Next]_vars PROVE AllocationsJoinPosted'
<1> USE DEF IInv
<1>0. \A k \in Keys : Payload[k].payment \in Doc /\ Payload[k].target \in Doc
  BY DEF LedgerAssumption, Allocation, Doc
<1>1. allocs \subseteq Keys
  BY DEF TypeOK
<1>2. ASSUME NEW r \in Requests, PostCommit(r) PROVE AllocationsJoinPosted'
  BY <1>0, <1>1, <1>2, PostCommitWrites DEF AllocationsJoinPosted
<1>3. ASSUME NEW r \in Requests, ReverseCommit(r) PROVE AllocationsJoinPosted'
  <2>1. PICK d \in Doc, v \in Entry, j \in journals : ReversalWritten(r, d, v, j)
    BY <1>3, ReverseCommitWrites
  <2>2. /\ allocs' = {k \in allocs : ~Touches(k, d)}
        /\ \A o \in Doc \ {d} : docs'[o].status = docs[o].status
    BY <2>1 DEF ReversalWritten
  <2> QED BY <1>0, <1>1, <2>2 DEF AllocationsJoinPosted, Touches
<1>4. ASSUME NEW r \in Requests, AllocateCommit(r) PROVE AllocationsJoinPosted'
  BY <1>0, <1>1, <1>4, AllocateCommitWrites DEF AllocationsJoinPosted
<1>5. ASSUME \A r \in Requests : ~PostCommit(r) /\ ~ReverseCommit(r) /\ ~AllocateCommit(r)
      PROVE  AllocationsJoinPosted'
  BY <1>0, <1>1, <1>5, OtherStepsWrite DEF AllocationsJoinPosted
<1> QED BY <1>2, <1>3, <1>4, <1>5

(* No step sets a document's status apart from its entries.                *)
LEMMA LedgerPreserved ==
    ASSUME LedgerAssumption, IInv, [Next]_vars PROVE LedgerMatchesLifecycle'
<1> USE DEF IInv
<1>0. lastNo \in Nat
  BY DEF TypeOK
<1>1. ASSUME NEW r \in Requests, PostCommit(r) PROVE LedgerMatchesLifecycle'
  <2>1. PICK d \in Doc, j \in Entry :
           /\ docs[d].posting = 0 /\ j.no = lastNo + 1 /\ j.doc = d /\ j.kind = "AUTOMATIC"
           /\ journals' = journals \cup {j}
           /\ docs'[d].status = "POSTED" /\ docs'[d].posting = lastNo + 1
           /\ \A o \in Doc \ {d} : docs'[o] = docs[o]
    BY <1>1, PostCommitWrites
  <2>2. EntriesOf(d)' = {j}
    BY <2>1 DEF EntriesOf, LedgerMatchesLifecycle
  <2>3. \A o \in Doc \ {d} : EntriesOf(o)' = EntriesOf(o)
    BY <2>1 DEF EntriesOf
  <2>4. j \in journals' /\ journals \subseteq journals' /\ docs'[d].posting # 0
    BY <1>0, <2>1
  <2> QED BY <2>1, <2>2, <2>3, <2>4 DEF LedgerMatchesLifecycle
<1>2. ASSUME NEW r \in Requests, ReverseCommit(r) PROVE LedgerMatchesLifecycle'
  <2>0. PICK d \in Doc, v \in Entry, j \in journals : ReversalWritten(r, d, v, j)
    BY <1>2, ReverseCommitWrites
  <2>1. /\ docs[d].status = "POSTED" /\ EntriesOf(d) = {j}
        /\ j.kind = "AUTOMATIC" /\ j.no = docs[d].posting
        /\ v.doc = d /\ v.kind = "REVERSAL" /\ v.reverses = j.no /\ v.amount = j.amount
        /\ journals' = journals \cup {v} /\ docs'[d].status = "REVERSED"
        /\ \A o \in Doc \ {d} : docs'[o].status = docs[o].status
        /\ \A o \in Doc : docs'[o].posting = docs[o].posting
    BY <2>0 DEF ReversalWritten
  <2>2. EntriesOf(d)' = {j, v}
    BY <2>1 DEF EntriesOf
  <2>3. \A o \in Doc \ {d} : EntriesOf(o)' = EntriesOf(o)
    BY <2>1 DEF EntriesOf
  <2>4. j \in journals' /\ v \in journals' /\ journals \subseteq journals'
    BY <2>1
  <2>5. docs[d].posting # 0
    BY <2>1 DEF LedgerMatchesLifecycle
  <2> QED BY <2>1, <2>2, <2>3, <2>4, <2>5 DEF LedgerMatchesLifecycle
<1>3. ASSUME NEW r \in Requests, AllocateCommit(r) PROVE LedgerMatchesLifecycle'
  BY <1>3, AllocateCommitWrites DEF LedgerMatchesLifecycle, EntriesOf
<1>4. ASSUME \A r \in Requests : ~PostCommit(r) /\ ~ReverseCommit(r) /\ ~AllocateCommit(r)
      PROVE  LedgerMatchesLifecycle'
  BY <1>4, OtherStepsWrite DEF LedgerMatchesLifecycle, EntriesOf
<1> QED BY <1>1, <1>2, <1>3, <1>4

(* The empty database satisfies the inductive invariant.                   *)
LEMMA Initially == ASSUME LedgerAssumption, Init PROVE IInv
<1>1. TypeOK
  <2>1. NoTransaction \in Transaction
    BY DEF NoTransaction, Transaction
  <2> QED BY <2>1 DEF Init, TypeOK, Document, Status, Steps
<1>2. LockProtocol
  BY DEF Init, LockProtocol, Relies, Reversing, LedgerAssumption
<1>3. LedgerMatchesLifecycle /\ NumbersUniqueAndGapless /\ AllocationsJoinPosted
  BY DEF Init, LedgerMatchesLifecycle, EntriesOf, NumbersUniqueAndGapless, AllocationsJoinPosted
<1> QED BY <1>1, <1>2, <1>3 DEF IInv

(* The subledger is sound in every reachable state, for any number of      *)
(* documents, requests, keys and periods: the invariants of the runs hold  *)
(* together, because each needs the others to be preserved.                *)
THEOREM Sound == Spec => []IInv
<1>1. Init => IInv
  BY Initially, LedgerAssumption
<1>2. IInv /\ [Next]_vars => IInv'
  <2> SUFFICES ASSUME IInv, [Next]_vars PROVE IInv'
    OBVIOUS
  <2>1. TypeOK' /\ LockProtocol' /\ LedgerMatchesLifecycle'
    BY TypePreserved, LockPreserved, LedgerPreserved, LedgerAssumption
  <2>2. NumbersUniqueAndGapless' /\ AllocationsJoinPosted'
    BY NumbersPreserved, AllocationsPreserved, LedgerAssumption
  <2> QED BY <2>1, <2>2 DEF IInv
<1> QED BY <1>1, <1>2, PTL DEF Spec

(* Each part of the inductive invariant on its own.  First, the types.     *)
THEOREM TypeCorrect == Spec => []TypeOK
  BY Sound, PTL DEF IInv
(* Every request holds the locks its step relies on (FOR UPDATE).          *)
THEOREM LocksHeld == Spec => []LockProtocol
  BY Sound, PTL DEF IInv
(* No allocation is left on a document that was reversed beside it.        *)
THEOREM AllocationsSound == Spec => []AllocationsJoinPosted
  BY Sound, PTL DEF IInv
(* Drafts have no entry, posted documents one, reversed ones a mirror too. *)
THEOREM LedgerSound == Spec => []LedgerMatchesLifecycle
  BY Sound, PTL DEF IInv
(* Journal numbers are issued once each and without gaps.                  *)
THEOREM NumberingSound == Spec => []NumbersUniqueAndGapless
  BY Sound, PTL DEF IInv

-----------------------------------------------------------------------------
(* A key settles once: after its allocation was undone, one of its two     *)
(* documents is REVERSED for good, and no retry gets past the status check.*)
SettledOnce ==
    \A k \in Keys :
        \/ settled[k] = 0 /\ k \notin allocs
        \/ /\ settled[k] = 1
           /\ k \in allocs \/ \E d \in Doc : Touches(k, d) /\ docs[d].status = "REVERSED"

(* A key that settled still has its row, or one of its documents has been  *)
(* reversed, for good: the key can never be acceptable again.              *)
LEMMA SettledOncePreserved ==
    ASSUME LedgerAssumption, IInv, SettledOnce, [Next]_vars PROVE SettledOnce'
<1> USE DEF IInv
<1>0. \A k \in Keys : \A d : Touches(k, d) <=> d = Payload[k].payment \/ d = Payload[k].target
  BY DEF Touches
<1>1. ASSUME NEW r \in Requests, PostCommit(r) PROVE SettledOnce'
  <2>1. PICK d \in Doc :
           /\ docs[d].status = "DRAFT" /\ \A o \in Doc \ {d} : docs'[o] = docs[o]
           /\ UNCHANGED <<allocs, settled>>
    BY <1>1, PostCommitWrites
  <2> QED BY <2>1 DEF SettledOnce, Touches
<1>2. ASSUME NEW r \in Requests, ReverseCommit(r) PROVE SettledOnce'
  <2>0. PICK d \in Doc, v \in Entry, j \in journals : ReversalWritten(r, d, v, j)
    BY <1>2, ReverseCommitWrites
  <2>1. /\ docs'[d].status = "REVERSED"
        /\ \A o \in Doc \ {d} : docs'[o].status = docs[o].status
        /\ allocs' = {k \in allocs : ~Touches(k, d)} /\ UNCHANGED settled
    BY <2>0 DEF ReversalWritten
  <2> QED BY <2>1 DEF SettledOnce, Touches
<1>3. ASSUME NEW r \in Requests, AllocateCommit(r) PROVE SettledOnce'
  <2>1. PICK k \in Keys :
           /\ k \notin allocs
           /\ docs[Payload[k].payment].status = "POSTED"
           /\ docs[Payload[k].target].status = "POSTED"
           /\ \A d \in Doc : docs'[d].status = docs[d].status
           /\ allocs' = allocs \cup {k} /\ settled' = [settled EXCEPT ![k] = @ + 1]
    BY <1>3, AllocateCommitWrites DEF TriggerAccepts
  <2>2. settled[k] = 0
    BY <1>0, <2>1 DEF SettledOnce
  <2>3. settled'[k] = 1 /\ \A m \in Keys \ {k} : settled'[m] = settled[m]
    BY <2>1, <2>2 DEF TypeOK
  <2> QED BY <2>1, <2>3 DEF SettledOnce, Touches
<1>4. ASSUME \A r \in Requests : ~PostCommit(r) /\ ~ReverseCommit(r) /\ ~AllocateCommit(r)
      PROVE  SettledOnce'
  <2>1. /\ UNCHANGED <<allocs, settled>>
        /\ \A d \in Doc : docs[d].status = "REVERSED" => docs'[d].status = "REVERSED"
    BY <1>4, OtherStepsWrite
  <2> QED BY <2>1 DEF SettledOnce, Touches
<1> QED BY <1>1, <1>2, <1>3, <1>4

(* However often a client retries, its Idempotency-Key settles once.       *)
THEOREM SettlesOnce == Spec => []RetriedKeySettlesOnce
<1>1. Init => SettledOnce
  BY DEF Init, SettledOnce
<1>2. IInv /\ SettledOnce /\ [Next]_vars => SettledOnce'
  BY SettledOncePreserved, LedgerAssumption
<1>3. SettledOnce => RetriedKeySettlesOnce
  BY DEF SettledOnce, RetriedKeySettlesOnce
<1> QED BY <1>1, <1>2, <1>3, Sound, PTL DEF Spec

-----------------------------------------------------------------------------
(* Only close_period, reopen_period and update_period write a period.      *)
LEMMA OnlyPeriodSteps ==
    ASSUME [Next]_vars
    PROVE  UNCHANGED periods \/ \E p \in Periods : ClosePeriod(p) \/ ReopenPeriod(p)
<1>1. ASSUME NEW d \in Doc, NEW t \in Totals, CreateDocument(d, t) PROVE UNCHANGED periods
  BY <1>1 DEF CreateDocument
<1>2. ASSUME NEW r \in Requests, Edit(r) \/ Erase(r) \/ Post(r) PROVE UNCHANGED periods
  BY <1>2 DEF Edit, Erase, Post, EditRead, EraseRead, EditWrite, EraseWrite, PostBegin,
              PostNumber, PostCheck, PostCommit, store
<1>3. ASSUME NEW r \in Requests, Reverse(r) PROVE UNCHANGED periods
  BY <1>3 DEF Reverse, ReverseBegin, ReverseLock, ReverseNumber, ReverseRead, ReverseCheck,
              ReverseCommit, store
<1>4. ASSUME NEW r \in Requests, Allocate(r) PROVE UNCHANGED periods
  BY <1>4 DEF Allocate, AllocateLookup, AllocateLockPayment, AllocateLockTarget,
              AllocateCommit, store
<1>5. ASSUME NEW r \in Requests, Refuse(r) \/ DeadlockVictim(r) \/ Rollback(r)
      PROVE  UNCHANGED periods
  BY <1>5 DEF Refuse, DeadlockVictim, Rollback, store
<1> QED BY <1>1, <1>2, <1>3, <1>4, <1>5 DEF Next, vars

(* A step that is no deferred check moves a request, if at all, away from  *)
(* COMMIT.                                                                 *)
LEMMA Moves ==
    ASSUME IInv, [Next]_vars, NEW s \in Requests
    PROVE  \/ pc'[s] = pc[s] /\ local'[s] = local[s]
           \/ pc'[s] \notin {"post_commit", "reverse_commit"}
           \/ PostCheck(s) \/ ReverseCheck(s)
<1> DEFINE Goal == \/ pc'[s] = pc[s] /\ local'[s] = local[s]
                   \/ pc'[s] \notin {"post_commit", "reverse_commit"}
                   \/ PostCheck(s) \/ ReverseCheck(s)
<1> USE DEF IInv, TypeOK
<1>0. ASSUME NEW r \in Requests, Release(r) PROVE Goal
  BY <1>0 DEF Release
<1>1. ASSUME NEW d \in Doc, NEW t \in Totals, CreateDocument(d, t) PROVE Goal
  BY <1>1 DEF CreateDocument
<1>2. ASSUME NEW p \in Periods, ClosePeriod(p) \/ ReopenPeriod(p) PROVE Goal
  BY <1>2 DEF ClosePeriod, ReopenPeriod
<1>3. ASSUME NEW r \in Requests, Edit(r) \/ Erase(r) PROVE Goal
  BY <1>0, <1>3 DEF Edit, Erase, EditRead, EraseRead, EditWrite, EraseWrite, GoTo
<1>4. ASSUME NEW r \in Requests, Post(r) PROVE Goal
  BY <1>0, <1>4 DEF Post, PostBegin, PostNumber, PostCheck, PostCommit, GoTo
<1>5. ASSUME NEW r \in Requests, Reverse(r) PROVE Goal
  <2>1. CASE ReverseNumber(r) \/ ReverseRead(r) \/ \E d \in Doc : ReverseBegin(r, d) \/ ReverseLock(r, d)
    BY <2>1 DEF ReverseNumber, ReverseRead, ReverseBegin, ReverseLock, GoTo
  <2>2. CASE ReverseCheck(r)
    BY <2>2 DEF ReverseCheck, GoTo
  <2>3. CASE ReverseCommit(r)
    BY <1>0, <2>3 DEF ReverseCommit
  <2> QED BY <1>5, <2>1, <2>2, <2>3 DEF Reverse
<1>6. ASSUME NEW r \in Requests, Allocate(r) PROVE Goal
  BY <1>0, <1>6 DEF Allocate, AllocateLookup, AllocateLockPayment, AllocateLockTarget,
                    AllocateCommit, LoadLocked, GoTo
<1>7. ASSUME NEW r \in Requests, Refuse(r) \/ DeadlockVictim(r) \/ Rollback(r) PROVE Goal
  BY <1>0, <1>7 DEF Refuse, DeadlockVictim, Rollback
<1>8. CASE UNCHANGED vars
  BY <1>8 DEF vars
<1> QED BY <1>1, <1>2, <1>3, <1>4, <1>5, <1>6, <1>7, <1>8 DEF Next

(* Once a period is closed and no COMMIT overlaps the closing, nothing     *)
(* enters it: the deferred check lets no waiting request into COMMIT.      *)
LEMMA SealStays ==
    ASSUME IInv, [Next]_vars, NEW p \in Periods, Sealed(p), periods'[p] # "OPEN"
    PROVE  Sealed(p)'
<1>1. periods'[p] = "CLOSED"
  <2>1. CASE UNCHANGED periods
    BY <2>1 DEF Sealed
  <2>2. ASSUME NEW q \in Periods, ClosePeriod(q) \/ ReopenPeriod(q)
        PROVE  periods'[p] = "CLOSED"
    BY <2>2 DEF ClosePeriod, ReopenPeriod, Sealed, IInv, TypeOK
  <2> QED BY <2>1, <2>2, OnlyPeriodSteps
<1>2. ASSUME NEW r \in Requests, pc'[r] = pc[r], local'[r] = local[r]
      PROVE  ~Committing(r, p)'
  BY <1>2 DEF Sealed, Committing
<1>3. ASSUME NEW r \in Requests, pc'[r] \notin {"post_commit", "reverse_commit"}
      PROVE  ~Committing(r, p)'
  BY <1>3 DEF Committing
<1>4. ASSUME NEW r \in Requests, PostCheck(r) PROVE ~Committing(r, p)'
  BY <1>4 DEF PostCheck, AcceptsEntry, GoTo, Sealed, Committing, IInv, TypeOK
<1>5. ASSUME NEW r \in Requests, ReverseCheck(r) PROVE ~Committing(r, p)'
  BY <1>5 DEF ReverseCheck, AcceptsEntry, GoTo, Sealed, Committing, IInv, TypeOK
<1>6. \A r \in Requests : ~Committing(r, p)'
  BY <1>2, <1>3, <1>4, <1>5, Moves
<1> QED BY <1>1, <1>6 DEF Sealed

(* INV-009 as far as the deferred trigger enforces it: a closed period     *)
(* into which no COMMIT is under way takes no entry until it is reopened.  *)
THEOREM ClosedPeriodsSealed == Spec => ClosedPeriodsStaySealed
<1>1. IInv /\ [Next]_vars =>
        [\A p \in Periods : Sealed(p) =>
            \/ periods'[p] = "OPEN"
            \/ Sealed(p)' /\ \A j \in journals' \ journals : j.period # p]_vars
  <2> SUFFICES ASSUME IInv, [Next]_vars, NEW p \in Periods, Sealed(p), periods'[p] # "OPEN"
               PROVE  Sealed(p)' /\ \A j \in journals' \ journals : j.period # p
    OBVIOUS
  <2>1. ASSUME NEW j \in journals' \ journals PROVE j.period # p
    <3>1. ASSUME NEW r \in Requests, PostCommit(r) PROVE j.period # p
      BY <2>1, <3>1, PostCommitWrites, LedgerAssumption DEF Sealed
    <3>2. ASSUME NEW r \in Requests, ReverseCommit(r) PROVE j.period # p
      <4>1. PICK d \in Doc, v \in Entry, i \in journals : ReversalWritten(r, d, v, i)
        BY <3>2, ReverseCommitWrites, LedgerAssumption
      <4>2. journals' = journals \cup {v} /\ Committing(r, v.period)
        BY <4>1 DEF ReversalWritten
      <4> QED BY <2>1, <4>2, LedgerAssumption DEF Sealed
    <3>3. ASSUME NEW r \in Requests, AllocateCommit(r) PROVE FALSE
      BY <2>1, <3>3, AllocateCommitWrites, LedgerAssumption
    <3> QED BY <2>1, <3>1, <3>2, <3>3, OtherStepsWrite, LedgerAssumption
  <2> QED BY <2>1, SealStays
<1> QED BY <1>1, Sound, PTL DEF Spec, ClosedPeriodsStaySealed

(* A posting link, once committed, outlives every racing deletion.         *)
THEOREM PostingsOutliveDeletions == Spec => PostedNeverErased
<1>1. IInv /\ [Next]_vars =>
        [\A d \in Doc : docs[d].posting # 0 => docs'[d].posting = docs[d].posting]_vars
  <2> SUFFICES ASSUME IInv, [Next]_vars, NEW d \in Doc, docs[d].posting # 0
               PROVE  docs'[d].posting = docs[d].posting
    OBVIOUS
  <2>1. ASSUME NEW r \in Requests, PostCommit(r) PROVE docs'[d].posting = docs[d].posting
    BY <2>1, PostCommitWrites, LedgerAssumption
  <2>2. ASSUME NEW r \in Requests, ReverseCommit(r) PROVE docs'[d].posting = docs[d].posting
    <3>1. PICK e \in Doc, v \in Entry, j \in journals : ReversalWritten(r, e, v, j)
      BY <2>2, ReverseCommitWrites, LedgerAssumption
    <3> QED BY <3>1 DEF ReversalWritten
  <2>3. ASSUME NEW r \in Requests, AllocateCommit(r) PROVE docs'[d].posting = docs[d].posting
    BY <2>3, AllocateCommitWrites, LedgerAssumption
  <2> QED BY <2>1, <2>2, <2>3, OtherStepsWrite, LedgerAssumption
<1> QED BY <1>1, Sound, PTL DEF Spec, PostedNeverErased

-----------------------------------------------------------------------------
(* The refinement.  The statuses, the totals and the allocations of the    *)
(* subledger move as Settlement's do; its locks, numbers, entries and      *)
(* paid amounts are invisible there.                                       *)
LEMMA InitRefines == ASSUME Init PROVE Abstract!Init
  BY DEF Init, Abstract!Init, Abstract!Doc, Doc

(* A draft created, or saved while it still is a draft.                    *)
LEMMA DraftRefines ==
    ASSUME NEW d \in Doc, NEW t \in Totals, docs[d].status \in {"ABSENT", "DRAFT"},
           docs'[d].status = "DRAFT", docs'[d].total = t,
           \A o \in Doc \ {d} : docs'[o] = docs[o], UNCHANGED allocs
    PROVE  Abstract!Draft(d, t)
  BY DEF Abstract!Draft

(* The commit of a posting is the abstract PostDocument.                   *)
LEMMA PostRefines ==
    ASSUME IInv, LedgerAssumption, NEW r \in Requests, PostCommit(r)
    PROVE  \E d \in Abstract!Doc : Abstract!PostDocument(d)
<1>1. PICK d \in Doc :
         /\ docs[d].status = "DRAFT" /\ docs'[d].status = "POSTED"
         /\ docs'[d].total = docs[d].total
         /\ \A o \in Doc \ {d} : docs'[o] = docs[o]
         /\ UNCHANGED allocs
  BY PostCommitWrites
<1>2. Abstract!PostDocument(d)
  BY <1>1 DEF Abstract!PostDocument
<1> QED BY <1>2 DEF Abstract!Doc, Doc

(* The commit of a reversal is the abstract ReverseDocument.               *)
LEMMA ReverseRefines ==
    ASSUME IInv, LedgerAssumption, NEW r \in Requests, ReverseCommit(r)
    PROVE  \E d \in Abstract!Doc : Abstract!ReverseDocument(d)
<1>0. PICK d \in Doc, v \in Entry, j \in journals : ReversalWritten(r, d, v, j)
  BY ReverseCommitWrites
<1>1. /\ docs[d].status = "POSTED" /\ docs'[d].status = "REVERSED"
      /\ \A o \in Doc \ {d} : docs'[o].status = docs[o].status
      /\ \A o \in Doc : docs'[o].total = docs[o].total
      /\ allocs' = {k \in allocs : ~Touches(k, d)}
  BY <1>0 DEF ReversalWritten
<1>2. Abstract!ReverseDocument(d)
  BY <1>1 DEF Abstract!ReverseDocument, Abstract!Joins, Touches
<1> QED BY <1>2 DEF Abstract!Doc, Doc

(* The commit of an allocation is the abstract Settle.                     *)
LEMMA AllocateRefines ==
    ASSUME IInv, LedgerAssumption, NEW r \in Requests, AllocateCommit(r)
    PROVE  \E k \in Keys : Abstract!Settle(k)
<1>1. PICK k \in Keys :
         /\ TriggerAccepts(k)
         /\ docs[Payload[k].payment].status = "POSTED"
         /\ docs[Payload[k].target].status = "POSTED"
         /\ \A d \in Doc : docs'[d].status = docs[d].status /\ docs'[d].total = docs[d].total
         /\ allocs' = allocs \cup {k}
  BY AllocateCommitWrites
<1>2. \A d : Abstract!Settled(d) = Allocated(d)
  BY DEF Abstract!Settled, Abstract!Joins, Allocated, Touches
<1>3. Payload[k].payment \in Doc /\ Payload[k].target \in Doc
  BY DEF LedgerAssumption, Allocation, Doc
<1>4. Abstract!Settle(k)
  BY <1>1, <1>2, <1>3 DEF Abstract!Settle, TriggerAccepts, Amount
<1> QED BY <1>4

(* The deletion of a draft is the abstract Discard.                        *)
LEMMA DiscardRefines ==
    ASSUME IInv, NEW r \in Requests, EraseWrite(r)
    PROVE  \E d \in Abstract!Doc : Abstract!Discard(d)
<1>1. PICK d \in Doc : d = local[r].doc
  BY DEF EraseWrite, IInv, LockProtocol, Relies, Reversing
<1>2. docs[d].status = "DRAFT"
  <2>1. docs[d].posting = 0 /\ docs[d].status \notin {"ABSENT", "ERASED"}
    BY <1>1 DEF EraseWrite, Erasable, Exists
  <2>2. docs[d].status \in Status
    BY <1>1 DEF IInv, TypeOK, Document
  <2> QED BY <1>1, <2>1, <2>2 DEF Status, IInv, LedgerMatchesLifecycle
<1>3. Abstract!Discard(d)
  BY <1>1, <1>2 DEF EraseWrite, Abstract!Discard, IInv, TypeOK
<1> QED BY <1>1, <1>3 DEF Abstract!Doc, Doc

(* A save that lands on a draft is the abstract Draft.                     *)
LEMMA EditRefines ==
    ASSUME IInv, NEW r \in Requests, EditWrite(r), ~LateSave(r)
    PROVE  \E d \in Abstract!Doc, t \in Totals : Abstract!Draft(d, t)
<1>1. PICK d \in Doc, t \in Totals : d = local[r].doc /\ t = local[r].total
  BY DEF EditWrite, IInv, LockProtocol, Relies, Reversing
<1>2. docs[d].status = "DRAFT" /\ UNCHANGED allocs
  BY <1>1 DEF EditWrite, LateSave
<1>3. /\ docs'[d].status = "DRAFT" /\ docs'[d].total = t
      /\ \A o \in Doc \ {d} : docs'[o] = docs[o]
  BY <1>1, <1>2 DEF EditWrite, IInv, TypeOK, Document
<1>4. Abstract!Draft(d, t)
  BY <1>1, <1>2, <1>3, DraftRefines
<1> QED BY <1>1, <1>4 DEF Abstract!Doc, Doc

(* Whatever the requests do, in whatever order, the only step that is not  *)
(* a step of the settlement is a save that lands late.                     *)
THEOREM Refinement == Spec => SettlesButForLateSaves
<1>1. Init => Abstract!Init
  BY InitRefines
<1>2. IInv /\ [Next]_vars =>
        [Abstract!Next \/ \E r \in Requests : LateSave(r)]_(Abstract!vars)
  <2> SUFFICES ASSUME IInv, [Next]_vars, ~UNCHANGED Abstract!vars,
                      \A r \in Requests : ~LateSave(r)
               PROVE  Abstract!Next
    OBVIOUS
  <2>1. ASSUME NEW d \in Doc, NEW t \in Totals, CreateDocument(d, t)
        PROVE  Abstract!Next
    <3>1. Abstract!Draft(d, t)
      <4>1. /\ docs[d].status = "ABSENT" /\ docs'[d].status = "DRAFT" /\ docs'[d].total = t
            /\ \A o \in Doc \ {d} : docs'[o] = docs[o]
            /\ UNCHANGED allocs
        BY <2>1 DEF CreateDocument, IInv, TypeOK
      <4> QED BY <4>1, DraftRefines
    <3> QED BY <3>1 DEF Abstract!Next, Abstract!Doc, Doc
  <2>2. ASSUME NEW r \in Requests, EditWrite(r) PROVE Abstract!Next
    BY <2>2, EditRefines DEF Abstract!Next
  <2>3. ASSUME NEW r \in Requests, EraseWrite(r) PROVE Abstract!Next
    BY <2>3, DiscardRefines DEF Abstract!Next
  <2>4. ASSUME NEW r \in Requests, PostCommit(r) PROVE Abstract!Next
    BY <2>4, PostRefines, LedgerAssumption DEF Abstract!Next
  <2>5. ASSUME NEW r \in Requests, ReverseCommit(r) PROVE Abstract!Next
    BY <2>5, ReverseRefines, LedgerAssumption DEF Abstract!Next
  <2>6. ASSUME NEW r \in Requests, AllocateCommit(r) PROVE Abstract!Next
    BY <2>6, AllocateRefines, LedgerAssumption DEF Abstract!Next
  <2>7. ASSUME UNCHANGED <<docs, allocs>> PROVE FALSE
    BY <2>7 DEF Abstract!vars
  <2> QED BY <2>1, <2>2, <2>3, <2>4, <2>5, <2>6, <2>7, QuietSteps
<1> QED BY <1>1, <1>2, Sound, PTL DEF Spec, SettlesButForLateSaves
-----------------------------------------------------------------------------
(* Where whoever saves documents is the only one who posts them, no save    *)
(* lands late: what was a draft when it was read is one yet, or deleted.    *)
SavesApart == \A r, q \in Requests : "edit" \in MayDo[r] /\ "post" \in MayDo[q] => r = q
Posting == {"post_number", "post_check", "post_commit"}
SavesDrafts ==
    \A r \in Requests :
       /\ pc[r] = "edit_write" =>
             "edit" \in MayDo[r] /\ docs[local[r].doc].status \in {"DRAFT", "ERASED"}
       /\ pc[r] \in Posting => "post" \in MayDo[r]

(* A request is where it was, or no longer there, or has just begun.        *)
LEMMA SavesAndPostsBegin ==
    ASSUME IInv, [Next]_vars, NEW s \in Requests
    PROVE  /\ pc'[s] = "edit_write" =>
                 \/ pc[s] = "edit_write" /\ local'[s] = local[s]
                 \/ \E d \in Doc : /\ "edit" \in MayDo[s] /\ local'[s].doc = d
                                   /\ docs[d].status = "DRAFT" /\ UNCHANGED docs
           /\ pc'[s] \in Posting => pc[s] \in Posting \/ "post" \in MayDo[s]
<1> DEFINE Goal == /\ pc'[s] = "edit_write" =>
                         \/ pc[s] = "edit_write" /\ local'[s] = local[s]
                         \/ \E d \in Doc : /\ "edit" \in MayDo[s] /\ local'[s].doc = d
                                           /\ docs[d].status = "DRAFT" /\ UNCHANGED docs
                   /\ pc'[s] \in Posting => pc[s] \in Posting \/ "post" \in MayDo[s]
<1> USE DEF IInv, TypeOK, Posting
<1>0. ASSUME NEW r \in Requests, Release(r) PROVE Goal
  BY <1>0 DEF Release
<1>1. ASSUME NEW d \in Doc, NEW t \in Totals, CreateDocument(d, t) PROVE Goal
  BY <1>1 DEF CreateDocument
<1>2. ASSUME NEW p \in Periods, ClosePeriod(p) \/ ReopenPeriod(p) PROVE Goal
  BY <1>2 DEF ClosePeriod, ReopenPeriod
<1>3. ASSUME NEW r \in Requests, Edit(r) \/ Erase(r) PROVE Goal
  <2>1. ASSUME NEW d \in Doc, NEW t \in Totals, EditRead(r, d, t) PROVE Goal
    <3>1. /\ "edit" \in MayDo[r] /\ docs[d].status = "DRAFT" /\ UNCHANGED docs
          /\ local' = [local EXCEPT ![r].doc = d, ![r].total = t]
          /\ pc' = [pc EXCEPT ![r] = "edit_write"]
      BY <2>1 DEF EditRead, Editable, GoTo, store
    <3>2. local[r] \in Transaction
      OBVIOUS
    <3>3. local'[r] = [local[r] EXCEPT !.doc = d, !.total = t]
      BY <3>1
    <3>4. local'[r].doc = d
      BY <3>2, <3>3 DEF Transaction
    <3> QED BY <3>1, <3>4
  <2>2. ASSUME NEW d \in Doc, EraseRead(r, d) PROVE Goal
    BY <2>2 DEF EraseRead, GoTo
  <2>3. CASE EditWrite(r) \/ EraseWrite(r)
    BY <1>0, <2>3 DEF EditWrite, EraseWrite
  <2> HIDE DEF Goal
  <2> QED BY <1>3, <2>1, <2>2, <2>3 DEF Edit, Erase
<1>4. ASSUME NEW r \in Requests, Post(r) PROVE Goal
  BY <1>0, <1>4 DEF Post, PostBegin, PostNumber, PostCheck, PostCommit, GoTo
<1>5. ASSUME NEW r \in Requests, Reverse(r) PROVE Goal
  <2>1. CASE ReverseNumber(r) \/ ReverseRead(r) \/ \E d \in Doc : ReverseBegin(r, d) \/ ReverseLock(r, d)
    BY <2>1 DEF ReverseNumber, ReverseRead, ReverseBegin, ReverseLock, GoTo
  <2>2. CASE ReverseCheck(r)
    BY <2>2 DEF ReverseCheck, GoTo
  <2>3. CASE ReverseCommit(r)
    BY <1>0, <2>3 DEF ReverseCommit
  <2> QED BY <1>5, <2>1, <2>2, <2>3 DEF Reverse
<1>6. ASSUME NEW r \in Requests, Allocate(r) PROVE Goal
  BY <1>0, <1>6 DEF Allocate, AllocateLookup, AllocateLockPayment, AllocateLockTarget,
                    AllocateCommit, LoadLocked, GoTo
<1>7. ASSUME NEW r \in Requests, Refuse(r) \/ DeadlockVictim(r) \/ Rollback(r) PROVE Goal
  BY <1>0, <1>7 DEF Refuse, DeadlockVictim, Rollback
<1>8. CASE UNCHANGED vars
  BY <1>8 DEF vars
<1> QED BY <1>1, <1>2, <1>3, <1>4, <1>5, <1>6, <1>7, <1>8 DEF Next

LEMMA SavesDraftsPreserved ==
    ASSUME LedgerAssumption, SavesApart, IInv, SavesDrafts, [Next]_vars PROVE SavesDrafts'
<1> SUFFICES ASSUME NEW s \in Requests
             PROVE  /\ pc'[s] = "edit_write" =>
                          /\ "edit" \in MayDo[s]
                          /\ docs'[local'[s].doc].status \in {"DRAFT", "ERASED"}
                    /\ pc'[s] \in Posting => "post" \in MayDo[s]
  BY DEF SavesDrafts
<1>1. pc'[s] \in Posting => "post" \in MayDo[s]
  BY SavesAndPostsBegin DEF SavesDrafts
<1>2. ASSUME pc[s] = "edit_write", local'[s] = local[s]
      PROVE  "edit" \in MayDo[s] /\ docs'[local'[s].doc].status \in {"DRAFT", "ERASED"}
  <2> DEFINE e == local[s].doc
  <2>1. e \in Doc /\ "edit" \in MayDo[s] /\ docs[e].status \in {"DRAFT", "ERASED"}
    BY <1>2 DEF SavesDrafts, IInv, LockProtocol, Relies
  <2> HIDE DEF e
  <2>2. ASSUME NEW r \in Requests, PostCommit(r) PROVE FALSE
    <3>1. pc[r] = "post_commit"
      BY <2>2 DEF PostCommit
    <3> QED BY <1>2, <2>1, <3>1 DEF SavesDrafts, SavesApart, Posting
  <2>3. ASSUME NEW r \in Requests, ReverseCommit(r) PROVE docs'[e].status = docs[e].status
    <3>1. PICK d \in Doc, v \in Entry, j \in journals : ReversalWritten(r, d, v, j)
      BY <2>3, ReverseCommitWrites
    <3> QED BY <2>1, <3>1 DEF ReversalWritten
  <2>4. ASSUME NEW r \in Requests, AllocateCommit(r) PROVE docs'[e].status = docs[e].status
    BY <2>1, <2>4, AllocateCommitWrites
  <2>5. docs'[e].status \in {"DRAFT", "ERASED"}
    BY <2>1, <2>2, <2>3, <2>4, OtherStepsWrite
  <2> QED BY <1>2, <2>1, <2>5 DEF e
<1> QED BY <1>1, <1>2, SavesAndPostsBegin

(* Where whoever saves is the only one who posts, the subledger implements  *)
(* the settlement: every request does one indivisible step of it, or none.  *)
THEOREM Implementation == ASSUME SavesApart PROVE Spec => ImplementsSettlement
<1>1. Init => SavesDrafts
  BY DEF Init, SavesDrafts, Posting
<1>2. IInv /\ SavesDrafts /\ [Next]_vars => SavesDrafts'
  BY SavesDraftsPreserved, LedgerAssumption
<1>3. SavesDrafts => \A r \in Requests : ~LateSave(r)
  BY DEF SavesDrafts, LateSave, EditWrite, Exists
<1>4. SavesDrafts /\ [Abstract!Next \/ \E r \in Requests : LateSave(r)]_(Abstract!vars)
        => [Abstract!Next]_(Abstract!vars)
  BY <1>3
<1>5. Spec => []SavesDrafts
  BY <1>1, <1>2, Sound, PTL DEF Spec
<1> QED BY <1>4, <1>5, Refinement, PTL DEF SettlesButForLateSaves, ImplementsSettlement, Abstract!Spec
-----------------------------------------------------------------------------
(* Over-allocation.  SumOf is MapThenSumSet, which adds up in the order of  *)
(* CHOOSE; the lemmas of Sums say that the order does not matter.           *)
Amounts == [k \in Keys |-> Amount(k)]

LEMMA SumOfIs ==
    ASSUME LedgerAssumption, NEW ks \in SUBSET Keys, IsFiniteSet(ks)
    PROVE  SumOf(ks) = SumIn(Amounts, ks)
<1> DEFINE f == CHOOSE g : g = [s \in SUBSET ks |->
                   IF s = {} THEN 0 ELSE Amount(Chosen(s)) + g[s \ {Chosen(s)}]]
<1>1. SumOf(ks) = f[ks]
  BY DEF SumOf, MapThenSumSet, MapThenFoldSet, Chosen
<1>2. PICK h : AddsUp(h, Amounts, ks)
  BY SomeWayToAddUp
<1>3. \A s \in SUBSET ks : s # {} => Amounts[Chosen(s)] = Amount(Chosen(s))
  BY ChosenIsIn DEF Amounts
<1>4. h = [s \in SUBSET ks |-> IF s = {} THEN 0 ELSE Amount(Chosen(s)) + h[s \ {Chosen(s)}]]
  BY <1>2, <1>3 DEF AddsUp
<1>5. f = [s \in SUBSET ks |-> IF s = {} THEN 0 ELSE Amount(Chosen(s)) + f[s \ {Chosen(s)}]]
  BY <1>4
<1> HIDE DEF f
<1>6. AddsUp(f, Amounts, ks)
  BY <1>3, <1>5 DEF AddsUp
<1> QED BY <1>1, <1>6, SumIs

(* Allocated is a sum over the rows that touch the document.                *)
LEMMA AllocatedIs ==
    ASSUME LedgerAssumption, NEW d
    PROVE  /\ allocs \subseteq Keys /\ IsFiniteSet(allocs) =>
                 Allocated(d) = SumIn(Amounts, {k \in allocs : Touches(k, d)})
           /\ allocs' \subseteq Keys /\ IsFiniteSet(allocs') =>
                 Allocated(d)' = SumIn(Amounts, {k \in allocs' : Touches(k, d)})
<1> DEFINE mine  == {k \in allocs : Touches(k, d)}
           after == {k \in allocs' : Touches(k, d)}
<1>1. ASSUME allocs \subseteq Keys, IsFiniteSet(allocs) PROVE Allocated(d) = SumIn(Amounts, mine)
  <2>1. mine \in SUBSET Keys /\ IsFiniteSet(mine)
    BY <1>1, FS_Subset
  <2> HIDE DEF mine
  <2>2. SumOf(mine) = SumIn(Amounts, mine)
    BY <2>1, SumOfIs
  <2> QED BY <2>2 DEF Allocated, mine
<1>2. ASSUME allocs' \subseteq Keys, IsFiniteSet(allocs') PROVE Allocated(d)' = SumIn(Amounts, after)
  <2>1. after \in SUBSET Keys /\ IsFiniteSet(after)
    BY <1>2, FS_Subset
  <2>2. Allocated(d)' = SumOf(after)
    BY DEF Allocated, SumOf, Amount, Touches, MapThenSumSet, MapThenFoldSet
  <2> HIDE DEF after
  <2>3. SumOf(after) = SumIn(Amounts, after)
    BY <2>1, SumOfIs
  <2> QED BY <2>2, <2>3
<1> QED BY <1>1, <1>2

(* What is allocated to a document is a sum of naturals, which a new row    *)
(* raises by its amount and fewer rows do not raise.                        *)
LEMMA AllocatedMoves ==
    ASSUME LedgerAssumption, TypeOK, IsFiniteSet(allocs), NEW d
    PROVE  /\ Allocated(d) \in Nat
           /\ allocs' \subseteq allocs => Allocated(d)' \in Nat /\ Allocated(d)' <= Allocated(d)
           /\ \A k \in Keys \ allocs : allocs' = allocs \cup {k} =>
                 Allocated(d)' = IF Touches(k, d) THEN Amount(k) + Allocated(d) ELSE Allocated(d)
<1> DEFINE mine  == {k \in allocs : Touches(k, d)}
           after == {k \in allocs' : Touches(k, d)}
<1>0. \A k \in Keys : Amounts[k] \in Nat /\ Amounts[k] = Amount(k)
  BY DEF Amounts, Amount, LedgerAssumption, Allocation
<1>1. allocs \subseteq Keys /\ mine \in SUBSET Keys /\ IsFiniteSet(mine)
  BY FS_Subset DEF TypeOK
<1>2. Allocated(d) = SumIn(Amounts, mine)
  BY <1>1, AllocatedIs
<1>3. Allocated(d) \in Nat
  <2> HIDE DEF mine
  <2> QED BY <1>0, <1>1, <1>2, SumIsNat
<1>4. ASSUME allocs' \subseteq allocs PROVE Allocated(d)' \in Nat /\ Allocated(d)' <= Allocated(d)
  <2>1. after \in SUBSET mine
    BY <1>4
  <2>2. allocs' \subseteq Keys /\ IsFiniteSet(allocs')
    BY <1>1, <1>4, FS_Subset
  <2>3. Allocated(d)' = SumIn(Amounts, after)
    BY <2>2, AllocatedIs
  <2> HIDE DEF mine, after
  <2>4. SumIn(Amounts, after) \in Nat /\ SumIn(Amounts, after) <= SumIn(Amounts, mine)
    BY <1>0, <1>1, <2>1, SumOfPart
  <2> QED BY <1>2, <2>3, <2>4
<1>5. ASSUME NEW k \in Keys \ allocs, allocs' = allocs \cup {k}
      PROVE  Allocated(d)' = IF Touches(k, d) THEN Amount(k) + Allocated(d) ELSE Allocated(d)
  <2>1. allocs' \subseteq Keys /\ IsFiniteSet(allocs')
    BY <1>1, <1>5, FS_AddElement
  <2>2. Allocated(d)' = SumIn(Amounts, after)
    BY <2>1, AllocatedIs
  <2>3. CASE ~Touches(k, d)
    <3>1. after = mine
      BY <1>5, <2>3
    <3> QED BY <1>2, <2>2, <2>3, <3>1
  <2>4. CASE Touches(k, d)
    <3>1. after = mine \cup {k} /\ k \notin mine
      BY <1>5, <2>4
    <3> HIDE DEF mine, after
    <3>2. \A x \in mine \cup {k} : Amounts[x] \in Int
      BY <1>0, <1>1, <1>5
    <3>3. SumIn(Amounts, mine \cup {k}) = Amounts[k] + SumIn(Amounts, mine)
      BY <1>1, <3>1, <3>2, SumWith
    <3> QED BY <1>0, <1>2, <1>5, <2>2, <2>4, <3>1, <3>3
  <2> QED BY <2>3, <2>4
<1> QED BY <1>3, <1>4, <1>5

(* The invariant: every key writes one row, so the rows are finitely many,  *)
(* and no document is settled above its total.                              *)
Covered == IsFiniteSet(allocs) /\ NoOverAllocation

(* Every step of the settlement keeps within the totals: it touches the     *)
(* total of a draft only, to which nothing is allocated.                    *)
LEMMA CoveredPreserved ==
    ASSUME LedgerAssumption, IInv, TypeOK', Covered, [Abstract!Next]_(Abstract!vars)
    PROVE  Covered'
<1> USE DEF IInv
<1> DEFINE status == [d \in Doc |-> docs[d].status]
           total  == [d \in Doc |-> docs[d].total]
<1>t. \A d \in Doc : docs[d].total \in Nat /\ docs'[d].total \in Nat
  BY DEF TypeOK, Document
<1>f. IsFiniteSet(allocs) /\ \A d \in Doc : Allocated(d) <= docs[d].total /\ Allocated(d) \in Nat
  BY AllocatedMoves DEF Covered, NoOverAllocation
<1>e. ASSUME NEW d \in Doc, docs[d].status # "POSTED" PROVE Allocated(d) = 0
  <2>1. {k \in allocs : Touches(k, d)} = {}
    BY <1>e DEF AllocationsJoinPosted, Touches
  <2>2. SumIn(Amounts, {}) = 0 /\ SumOf({}) = SumIn(Amounts, {})
    BY FS_EmptySet, SumOfParts, SumOfIs
  <2> QED BY <2>1, <2>2 DEF Allocated
<1>1. ASSUME \A d \in Doc : docs'[d].total = docs[d].total \/ docs[d].status # "POSTED",
             allocs' \subseteq allocs
      PROVE  Covered'
  <2>1. IsFiniteSet(allocs')
    BY <1>1, <1>f, FS_Subset
  <2>2. ASSUME NEW d \in Doc PROVE Allocated(d)' <= docs'[d].total
    <3>1. Allocated(d)' \in Nat /\ Allocated(d)' <= Allocated(d)
      BY <1>1, <1>f, AllocatedMoves
    <3> QED BY <1>1, <1>e, <1>f, <1>t, <3>1
  <2> QED BY <2>1, <2>2 DEF Covered, NoOverAllocation
<1>2. ASSUME NEW k \in Keys, Abstract!Settle(k) PROVE Covered'
  <2>1. k \notin allocs /\ allocs' = allocs \cup {k}
    BY <1>2 DEF Abstract!Settle
  <2>2. \A d \in Doc : docs'[d].total = docs[d].total
    BY <1>2 DEF Abstract!Settle
  <2>3. \A d : Abstract!Settled(d) = Allocated(d)
    BY DEF Abstract!Settled, Abstract!Joins, Allocated, Touches
  <2>4. Payload[k].payment \in Doc /\ Payload[k].target \in Doc
    BY DEF LedgerAssumption, Allocation, Doc
  <2>5. \A d \in Doc : Touches(k, d) => Amount(k) + Allocated(d) <= docs[d].total
    BY <1>2, <2>3, <2>4 DEF Abstract!Settle, Touches, Amount
  <2>6. IsFiniteSet(allocs')
    BY <1>f, <2>1, FS_AddElement
  <2>7. ASSUME NEW d \in Doc PROVE Allocated(d)' <= docs'[d].total
    <3>1. Allocated(d)' = IF Touches(k, d) THEN Amount(k) + Allocated(d) ELSE Allocated(d)
      BY <1>f, <2>1, AllocatedMoves
    <3> QED BY <1>f, <2>2, <2>5, <3>1
  <2> QED BY <2>6, <2>7 DEF Covered, NoOverAllocation
<1>3. ASSUME NEW d \in Abstract!Doc, NEW t \in Totals, Abstract!Draft(d, t) PROVE Covered'
  <2>1. d \in Doc /\ docs[d].status # "POSTED" /\ allocs' = allocs
    BY <1>3 DEF Abstract!Draft, Abstract!Doc, Doc
  <2>2. \A o \in Doc \ {d} : docs'[o].total = docs[o].total
    BY <1>3 DEF Abstract!Draft
  <2> QED BY <1>1, <2>1, <2>2
<1>4. ASSUME NEW d \in Abstract!Doc, Abstract!Discard(d) PROVE Covered'
  <2>1. d \in Doc /\ docs[d].status # "POSTED" /\ allocs' = allocs
    BY <1>4 DEF Abstract!Discard, Abstract!Doc, Doc
  <2>2. \A o \in Doc \ {d} : docs'[o].total = docs[o].total
    BY <1>4 DEF Abstract!Discard
  <2> QED BY <1>1, <2>1, <2>2
<1>5. ASSUME NEW d \in Abstract!Doc, Abstract!PostDocument(d) \/ Abstract!ReverseDocument(d)
      PROVE  Covered'
  <2>1. allocs' \subseteq allocs /\ total' = total
    BY <1>5 DEF Abstract!PostDocument, Abstract!ReverseDocument
  <2> QED BY <1>1, <2>1
<1>6. CASE UNCHANGED Abstract!vars
  <2>1. allocs' = allocs /\ total' = total
    BY <1>6 DEF Abstract!vars
  <2> QED BY <1>1, <2>1
<1> QED BY <1>2, <1>3, <1>4, <1>5, <1>6 DEF Abstract!Next

(* FR-133, FR-134 for any number of payments, invoices and keys: where no   *)
(* save lands late, nothing is ever settled above its total, however far    *)
(* paid_amount has drifted: the trigger adds up the rows, not the column.   *)
THEOREM NothingOverAllocated == ASSUME SavesApart PROVE Spec => []NoOverAllocation
<1>1. Init => Covered
  <2> SUFFICES ASSUME Init PROVE Covered
    OBVIOUS
  <2>1. allocs = {} /\ \A d \in Doc : docs[d].total = 0
    BY DEF Init
  <2>2. SumIn(Amounts, {}) = 0 /\ SumOf({}) = SumIn(Amounts, {}) /\ IsFiniteSet({})
    BY FS_EmptySet, SumOfParts, SumOfIs, LedgerAssumption
  <2>3. \A d : {k \in allocs : Touches(k, d)} = {}
    BY <2>1
  <2> QED BY <2>1, <2>2, <2>3 DEF Covered, NoOverAllocation, Allocated
<1>2. IInv /\ IInv' /\ Covered /\ [Abstract!Next]_(Abstract!vars) => Covered'
  BY CoveredPreserved, LedgerAssumption DEF IInv
<1>3. Covered => NoOverAllocation
  BY DEF Covered
<1>4. Spec => ImplementsSettlement
  BY Implementation
<1> QED BY <1>1, <1>2, <1>3, <1>4, Sound, PTL DEF Spec, ImplementsSettlement, Abstract!Spec
-----------------------------------------------------------------------------
(* The drift of paid_amount.  What an allocation read under its locks is    *)
(* paid_amount yet, and a reversal holds the rows whose UPDATE it emitted.  *)
ReadsHold ==
    \A r \in Requests :
       /\ pc[r] \in {"lock_target", "allocate_commit"} =>
             local[r].seen[Payload[local[r].key].payment]
                = docs[Payload[local[r].key].payment].paid
       /\ pc[r] = "allocate_commit" =>
             local[r].seen[Payload[local[r].key].target]
                = docs[Payload[local[r].key].target].paid
       /\ pc[r] = "reverse_commit" => \A o \in ToUpdate(r) : docLock[o] = r

(* The rows a reversal writes follow from what it has read.                 *)
LEMMA ToUpdateFrame ==
    ASSUME NEW r, local'[r] = local[r] PROVE ToUpdate(r)' = ToUpdate(r)
BY DEF ToUpdate, PaidAfter, Given, OtherSide, SumOf, Amount, MapThenSumSet, MapThenFoldSet

(* A step that changes the paid_amount of a row r has locked ends r.        *)
LEMMA PaidUnderLock ==
    ASSUME LedgerAssumption, IInv, ReadsHold, [Next]_vars, NEW r \in Requests,
           NEW d \in Doc, docLock[d] = r, docs'[d].paid # docs[d].paid
    PROVE  pc'[r] = "idle"
<1> USE DEF IInv
<1>0. Exists(d) /\ r # Free
  BY DEF LockProtocol, Relies, LedgerAssumption
<1>1. ASSUME NEW e \in Doc, NEW t \in Totals, CreateDocument(e, t) PROVE FALSE
  BY <1>0, <1>1 DEF CreateDocument, Exists, TypeOK
<1>2. ASSUME NEW s \in Requests, EditWrite(s) PROVE FALSE
  BY <1>2 DEF EditWrite, TypeOK, Document
<1>3. ASSUME NEW s \in Requests, EraseWrite(s) PROVE FALSE
  BY <1>0, <1>3 DEF EraseWrite, TypeOK
<1>4. ASSUME NEW s \in Requests, PostCommit(s) PROVE FALSE
  BY <1>4 DEF PostCommit, TypeOK, Document
<1>5. ASSUME NEW s \in Requests, ReverseCommit(s) PROVE s = r
  <2>1. pc[s] = "reverse_commit" /\ docLock[local[s].doc] = s
    BY <1>5 DEF ReverseCommit, LockProtocol, Relies, Reversing
  <2>2. \A o \in ToUpdate(s) : docLock[o] = s
    BY <2>1 DEF ReadsHold
  <2>3. d = local[s].doc \/ d \in ToUpdate(s)
    BY <1>5 DEF ReverseCommit
  <2> QED BY <2>1, <2>2, <2>3
<1>6. ASSUME NEW s \in Requests, AllocateCommit(s) PROVE s = r
  <2>1. Relies(s) /\ pc[s] = "allocate_commit"
    BY <1>6 DEF AllocateCommit, LockProtocol
  <2>2. Touches(local[s].key, d)
    BY <1>6 DEF AllocateCommit
  <2> QED BY <2>1, <2>2 DEF Relies, Touches
<1>7. ASSUME NEW s \in Requests, ReverseCommit(s) \/ AllocateCommit(s), s = r
      PROVE  pc'[r] = "idle"
  BY <1>7 DEF ReverseCommit, AllocateCommit, Release, TypeOK
<1> QED BY <1>1, <1>2, <1>3, <1>4, <1>5, <1>6, <1>7, QuietSteps

(* How a request gets to the steps that rely on a paid_amount: it was there *)
(* and keeps its locks, or has just read or locked.                         *)
LEMMA SettlingMoves ==
    ASSUME LedgerAssumption, IInv, [Next]_vars, NEW s \in Requests,
           pc'[s] \in {"lock_target", "allocate_commit", "reverse_commit"}
    PROVE  \/ /\ pc'[s] = pc[s] /\ local'[s] = local[s]
              /\ \A d \in Doc : docLock[d] = s => docLock'[d] = s
           \/ AllocateLockPayment(s) \/ AllocateLockTarget(s) \/ ReverseCheck(s)
<1> DEFINE Goal == \/ /\ pc'[s] = pc[s] /\ local'[s] = local[s]
                      /\ \A d \in Doc : docLock[d] = s => docLock'[d] = s
                   \/ AllocateLockPayment(s) \/ AllocateLockTarget(s) \/ ReverseCheck(s)
<1> USE DEF IInv, TypeOK
<1>0. ASSUME NEW r \in Requests, Release(r) PROVE Goal
  BY <1>0 DEF Release
<1>1. ASSUME NEW d \in Doc, NEW t \in Totals, CreateDocument(d, t) PROVE Goal
  BY <1>1 DEF CreateDocument
<1>2. ASSUME NEW p \in Periods, ClosePeriod(p) \/ ReopenPeriod(p) PROVE Goal
  BY <1>2 DEF ClosePeriod, ReopenPeriod
<1>3. ASSUME NEW r \in Requests, Edit(r) \/ Erase(r) PROVE Goal
  BY <1>0, <1>3 DEF Edit, Erase, EditRead, EraseRead, EditWrite, EraseWrite, GoTo
<1>4. ASSUME NEW r \in Requests, Post(r) PROVE Goal
  <2>1. ASSUME NEW d \in Doc, PostBegin(r, d) PROVE Goal
    BY <2>1 DEF PostBegin, GoTo, LockDoc, LedgerAssumption
  <2>2. CASE PostNumber(r) \/ PostCheck(r)
    BY <2>2 DEF PostNumber, PostCheck, GoTo
  <2>3. CASE PostCommit(r)
    BY <1>0, <2>3 DEF PostCommit
  <2> QED BY <1>4, <2>1, <2>2, <2>3 DEF Post
<1>5. ASSUME NEW r \in Requests, Reverse(r) PROVE Goal
  <2>1. CASE ReverseNumber(r) \/ ReverseRead(r) \/ ReverseCheck(r)
    BY <2>1 DEF ReverseNumber, ReverseRead, ReverseCheck, GoTo
  <2>2. ASSUME NEW d \in Doc, ReverseBegin(r, d) \/ ReverseLock(r, d) PROVE Goal
    BY <2>2 DEF ReverseBegin, ReverseLock, LockDoc, GoTo, LedgerAssumption
  <2>3. CASE ReverseCommit(r)
    BY <1>0, <2>3 DEF ReverseCommit
  <2> QED BY <1>5, <2>1, <2>2, <2>3 DEF Reverse
<1>6. ASSUME NEW r \in Requests, Allocate(r) PROVE Goal
  <2>1. CASE AllocateLockPayment(r) \/ AllocateLockTarget(r)
    BY <2>1 DEF AllocateLockPayment, AllocateLockTarget, LoadLocked, LockDoc, GoTo, LedgerAssumption
  <2>2. ASSUME NEW k \in Keys, AllocateLookup(r, k) PROVE Goal
    BY <2>2 DEF AllocateLookup, GoTo
  <2>3. CASE AllocateCommit(r)
    BY <1>0, <2>3 DEF AllocateCommit
  <2> QED BY <1>6, <2>1, <2>2, <2>3 DEF Allocate
<1>7. ASSUME NEW r \in Requests, Refuse(r) \/ DeadlockVictim(r) \/ Rollback(r) PROVE Goal
  BY <1>0, <1>7 DEF Refuse, DeadlockVictim, Rollback
<1>8. CASE UNCHANGED vars
  BY <1>8 DEF vars
<1> QED BY <1>1, <1>2, <1>3, <1>4, <1>5, <1>6, <1>7, <1>8 DEF Next

LEMMA ReadsHoldPreserved ==
    ASSUME LedgerAssumption, IInv, ReadsHold, [Next]_vars PROVE ReadsHold'
<1> USE DEF IInv
<1> DEFINE Holds(s) ==
             /\ pc[s] \in {"lock_target", "allocate_commit"} =>
                   local[s].seen[Payload[local[s].key].payment]
                      = docs[Payload[local[s].key].payment].paid
             /\ pc[s] = "allocate_commit" =>
                   local[s].seen[Payload[local[s].key].target]
                      = docs[Payload[local[s].key].target].paid
             /\ pc[s] = "reverse_commit" => \A o \in ToUpdate(s) : docLock[o] = s
<1>0. SUFFICES ASSUME NEW s \in Requests,
                      pc'[s] \in {"lock_target", "allocate_commit", "reverse_commit"}
               PROVE  Holds(s)'
  BY DEF ReadsHold
<1>1. Holds(s) /\ Relies(s)
  BY DEF ReadsHold, LockProtocol
<1>k. \A k \in Keys : /\ Payload[k].payment \in Doc /\ Payload[k].target \in Doc
                      /\ Payload[k].payment # Payload[k].target
  BY DEF LedgerAssumption, Allocation, Doc
<1>2. CASE /\ pc'[s] = pc[s] /\ local'[s] = local[s]
           /\ \A d \in Doc : docLock[d] = s => docLock'[d] = s
  <2>1. \A d \in Doc : docLock[d] = s => docs'[d].paid = docs[d].paid
    BY <1>0, PaidUnderLock
  <2>2. ToUpdate(s)' = ToUpdate(s) /\ ToUpdate(s) \subseteq Doc
    BY <1>2, ToUpdateFrame DEF ToUpdate
  <2>3. pc[s] = "reverse_commit" => \A o \in ToUpdate(s)' : docLock'[o] = s
    BY <1>1, <1>2, <2>2
  <2>4. pc[s] \in {"lock_target", "allocate_commit"} =>
          docs'[Payload[local[s].key].payment].paid = docs[Payload[local[s].key].payment].paid
    BY <1>1, <1>k, <2>1 DEF Relies
  <2>5. pc[s] = "allocate_commit" =>
          docs'[Payload[local[s].key].target].paid = docs[Payload[local[s].key].target].paid
    BY <1>1, <1>k, <2>1 DEF Relies
  <2> QED BY <1>1, <1>2, <2>3, <2>4, <2>5
<1>t. local \in [Requests -> Transaction] /\ pc \in [Requests -> Steps]
  BY DEF TypeOK
<1>3. CASE AllocateLockPayment(s)
  <2>1. local[s].key \in Keys /\ UNCHANGED docs /\ pc'[s] = "lock_target"
    BY <1>1, <1>3, <1>t DEF AllocateLockPayment, Relies, GoTo, store
  <2> DEFINE d == Payload[local[s].key].payment
  <2>2. local'[s].seen[d] = docs[d].paid /\ local'[s].key = local[s].key
    BY <1>3, <1>k, <1>t, <2>1 DEF AllocateLockPayment, LoadLocked, Transaction
  <2> QED BY <2>1, <2>2
<1>4. CASE AllocateLockTarget(s)
  <2>1. /\ local[s].key \in Keys /\ UNCHANGED docs /\ pc'[s] = "allocate_commit"
        /\ pc[s] = "lock_target"
    BY <1>1, <1>4, <1>t DEF AllocateLockTarget, Relies, GoTo, store
  <2> DEFINE d == Payload[local[s].key].target
             p == Payload[local[s].key].payment
  <2>2. /\ local'[s].seen[d] = docs[d].paid /\ local'[s].key = local[s].key
        /\ local'[s].seen[p] = local[s].seen[p]
    BY <1>4, <1>k, <1>t, <2>1 DEF AllocateLockTarget, LoadLocked, Transaction
  <2> QED BY <1>1, <2>1, <2>2
<1>5. CASE ReverseCheck(s)
  <2>1. /\ pc'[s] = "reverse_commit" /\ UNCHANGED <<local, docLock>>
        /\ \A o \in ToUpdate(s) : docLock[o] = s
    BY <1>5, <1>t DEF ReverseCheck, GoTo
  <2>2. ToUpdate(s)' = ToUpdate(s)
    BY <2>1, ToUpdateFrame
  <2> QED BY <2>1, <2>2
<1> HIDE DEF Holds
<1> QED BY <1>0, <1>2, <1>3, <1>4, <1>5, SettlingMoves

(* The rows stay finitely many: each step adds one at most.                 *)
LEMMA FinitelyManyRows ==
    ASSUME LedgerAssumption, IInv, IsFiniteSet(allocs), [Next]_vars
    PROVE  IsFiniteSet(allocs')
<1>1. ASSUME NEW r \in Requests, PostCommit(r) PROVE IsFiniteSet(allocs')
  BY <1>1, PostCommitWrites
<1>2. ASSUME NEW r \in Requests, ReverseCommit(r) PROVE IsFiniteSet(allocs')
  BY <1>2, FS_Subset DEF ReverseCommit
<1>3. ASSUME NEW r \in Requests, AllocateCommit(r) PROVE IsFiniteSet(allocs')
  BY <1>3, FS_AddElement DEF AllocateCommit
<1> QED BY <1>1, <1>2, <1>3, OtherStepsWrite

(* A reversal that works from the paid_amount that is there leaves what the *)
(* remaining allocations add up to.                                         *)
LEMMA ReversalGivesBack ==
    ASSUME LedgerAssumption, IInv, TypeOK', IsFiniteSet(allocs), NEW r \in Requests, ReverseCommit(r),
           NEW d \in Doc, docs[d].paid = Allocated(d), ~StaleReversal(r, d)
    PROVE  docs'[d].paid = Allocated(d)'
<1> USE DEF IInv
<1> DEFINE e     == local[r].doc
           mine  == {k \in allocs : Touches(k, d)}
           given == {k \in local[r].undo : OtherSide(k, e) = d}
           after  == {k \in allocs' : Touches(k, d)}
<1>1. /\ e \in Doc /\ local[r].undo = {k \in allocs : Touches(k, e)}
      /\ allocs' = allocs \ local[r].undo
  BY DEF ReverseCommit, LockProtocol, Relies, Reversing
<1>2. docs'[d].paid = IF d = e THEN 0 ELSE IF d \in ToUpdate(r) THEN PaidAfter(r, d) ELSE docs[d].paid
  <2>1. docs[d] \in Document
    BY DEF TypeOK
  <2>2. docs'[d] = IF d = e THEN [docs[d] EXCEPT !.status = "REVERSED", !.paid = 0]
                   ELSE IF d \in ToUpdate(r) THEN [docs[d] EXCEPT !.paid = PaidAfter(r, d)]
                   ELSE docs[d]
    BY DEF ReverseCommit
  <2> HIDE DEF e
  <2> QED BY <2>1, <2>2 DEF Document
<1>3. IsFiniteSet(allocs')
  BY <1>1, FS_Subset
<1>4. Allocated(d) = SumIn(Amounts, mine) /\ Allocated(d)' = SumIn(Amounts, after)
  BY <1>3, AllocatedIs DEF TypeOK
<1>a. \A k \in Keys : Amounts[k] \in Nat
  BY DEF Amounts, Amount, LedgerAssumption, Allocation
<1>5. CASE d = e
  <2>1. after = {}
    BY <1>1, <1>5
  <2>2. SumIn(Amounts, {}) = 0
    BY FS_EmptySet, SumOfParts
  <2> QED BY <1>2, <1>4, <1>5, <2>1, <2>2
<1>6. CASE d # e
  <2>1. given \in SUBSET mine /\ after = mine \ given
    BY <1>1, <1>6 DEF Touches, OtherSide
  <2>2. mine \in SUBSET Keys /\ IsFiniteSet(mine) /\ IsFiniteSet(given) /\ given \in SUBSET Keys
    <3>1. mine \in SUBSET Keys /\ IsFiniteSet(mine)
      BY FS_Subset DEF TypeOK
    <3> HIDE DEF mine, given
    <3> QED BY <2>1, <3>1, FS_Subset
  <2>3. Given(r, d) = SumOf(given)
    BY DEF Given
  <2>g. (\E k \in local[r].undo : d = OtherSide(k, e)) <=> given # {}
    OBVIOUS
  <2> HIDE DEF mine, given, after
  <2>4. SumOf(given) = SumIn(Amounts, given)
    BY <2>2, SumOfIs
  <2>5. /\ SumIn(Amounts, given) \in Nat /\ SumIn(Amounts, after) \in Nat
        /\ SumIn(Amounts, mine) = SumIn(Amounts, given) + SumIn(Amounts, after)
    <3>1. \A k \in mine : Amounts[k] \in Nat
      BY <1>a, <2>2
    <3> QED BY <2>1, <2>2, <3>1, SumOfPart
  <2>6. CASE given = {}
    <3>1. SumIn(Amounts, given) = 0
      BY <2>2, <2>6, SumOfParts
    <3>2. d \notin ToUpdate(r)
      BY <2>6, <2>g DEF ToUpdate
    <3> QED BY <1>2, <1>4, <1>6, <2>5, <3>1, <3>2
  <2>7. CASE given # {}
    <3>1. local[r].seen[d] = docs[d].paid
      BY <2>7, <2>g DEF StaleReversal
    <3>2. local[r].seen[d] = Given(r, d) + SumIn(Amounts, after)
      BY <1>4, <2>3, <2>4, <2>5, <3>1
    <3>3. PaidAfter(r, d) = SumIn(Amounts, after)
      <4> DEFINE left == {n \in 0..local[r].seen[d] : n + Given(r, d) = local[r].seen[d]}
      <4>1. left = {SumIn(Amounts, after)}
        BY <2>3, <2>4, <2>5, <3>2
      <4>2. PaidAfter(r, d) = IF left = {} THEN 0 ELSE CHOOSE n \in left : TRUE
        BY DEF PaidAfter
      <4> HIDE DEF left
      <4> QED BY <4>1, <4>2
    <3>4. d \notin ToUpdate(r) => PaidAfter(r, d) = local[r].seen[d]
      BY <2>7, <2>g DEF ToUpdate
    <3> QED BY <1>2, <1>4, <1>6, <3>1, <3>3, <3>4
  <2> QED BY <2>6, <2>7
<1> QED BY <1>5, <1>6

(* paid_amount, for any number of documents, requests and keys: under every *)
(* overlap but a stale reversal it stays what the allocations add up to.    *)
THEOREM PaidDrifts == Spec => PaidDriftsOnlyByStaleReversal
<1> DEFINE PaidInv == IsFiniteSet(allocs) /\ ReadsHold
<1>1. Init => PaidInv
  BY FS_EmptySet DEF Init, ReadsHold
<1>2. IInv /\ PaidInv /\ [Next]_vars => PaidInv'
  BY ReadsHoldPreserved, FinitelyManyRows, LedgerAssumption
<1>3. IInv /\ IInv' /\ PaidInv /\ [Next]_vars =>
        [\A d \in Doc : docs[d].paid = Allocated(d) =>
           \/ (docs[d].paid = Allocated(d))'
           \/ \E r \in Requests : StaleReversal(r, d)]_vars
  <2> SUFFICES ASSUME IInv, TypeOK', PaidInv, [Next]_vars, NEW d \in Doc, docs[d].paid = Allocated(d),
                      \A r \in Requests : ~StaleReversal(r, d)
               PROVE  docs'[d].paid = Allocated(d)'
    BY DEF IInv
  <2> USE DEF IInv
  <2>f. IsFiniteSet(allocs) /\ ReadsHold
    OBVIOUS
  <2>m. /\ Allocated(d) \in Nat
        /\ \A k \in Keys \ allocs : allocs' = allocs \cup {k} =>
              Allocated(d)' = IF Touches(k, d) THEN Amount(k) + Allocated(d) ELSE Allocated(d)
    BY <2>f, AllocatedMoves, LedgerAssumption
  <2>s. allocs' = allocs => Allocated(d)' = Allocated(d)
    BY <2>f, AllocatedIs, LedgerAssumption DEF TypeOK
  <2>0. docs[d].status # "POSTED" => Allocated(d) = 0
    <3> SUFFICES ASSUME docs[d].status # "POSTED" PROVE Allocated(d) = 0
      OBVIOUS
    <3>1. {k \in allocs : Touches(k, d)} = {}
      BY DEF AllocationsJoinPosted, Touches
    <3>2. SumIn(Amounts, {}) = 0
      BY FS_EmptySet, SumOfParts
    <3> QED BY <2>f, <3>1, <3>2, AllocatedIs, LedgerAssumption DEF TypeOK
  <2>1. ASSUME NEW e \in Doc, NEW t \in Totals, CreateDocument(e, t)
        PROVE  docs'[d].paid = Allocated(d)'
    <3>1. allocs' = allocs /\ (docs'[d] = docs[d] \/ (docs[d].status = "ABSENT" /\ docs'[d].paid = 0))
      BY <2>1 DEF CreateDocument, TypeOK
    <3> QED BY <2>0, <2>s, <3>1
  <2>2. ASSUME NEW r \in Requests, EditWrite(r) PROVE docs'[d].paid = Allocated(d)'
    <3>1. allocs' = allocs /\ docs'[d].paid = docs[d].paid
      BY <2>2 DEF EditWrite, TypeOK, Document
    <3> QED BY <2>s, <3>1
  <2>3. ASSUME NEW r \in Requests, EraseWrite(r) PROVE docs'[d].paid = Allocated(d)'
    <3>1. allocs' = allocs /\ (docs'[d] = docs[d] \/ (docs[d].posting = 0 /\ docs'[d].paid = 0))
      BY <2>3 DEF EraseWrite, Erasable, TypeOK
    <3>2. docs[d].posting = 0 => docs[d].status # "POSTED"
      BY DEF LedgerMatchesLifecycle
    <3> QED BY <2>0, <2>s, <3>1, <3>2
  <2>4. ASSUME NEW r \in Requests, PostCommit(r) PROVE docs'[d].paid = Allocated(d)'
    <3>1. allocs' = allocs /\ docs'[d].paid = docs[d].paid
      BY <2>4 DEF PostCommit, TypeOK, Document
    <3> QED BY <2>s, <3>1
  <2>5. ASSUME NEW r \in Requests, ReverseCommit(r) PROVE docs'[d].paid = Allocated(d)'
    BY <2>5, <2>f, ReversalGivesBack, LedgerAssumption
  <2>6. ASSUME NEW r \in Requests, AllocateCommit(r) PROVE docs'[d].paid = Allocated(d)'
    <3> DEFINE k == local[r].key
    <3>1. pc[r] = "allocate_commit" /\ k \in Keys \ allocs /\ allocs' = allocs \cup {k}
      BY <2>6 DEF AllocateCommit, TriggerAccepts, LockProtocol, Relies
    <3>2. Touches(k, d) => local[r].seen[d] = docs[d].paid
      BY <2>f, <3>1 DEF ReadsHold, Touches
    <3>3. docs'[d].paid = IF Touches(k, d) THEN local[r].seen[d] + Amount(k) ELSE docs[d].paid
      BY <2>6 DEF AllocateCommit, TypeOK, Document
    <3>4. Amount(k) \in Nat
      BY <3>1, LedgerAssumption DEF LedgerAssumption, Amount, Allocation
    <3> HIDE DEF k
    <3> QED BY <2>m, <3>1, <3>2, <3>3, <3>4
  <2>7. CASE UNCHANGED <<docs, allocs>>
    BY <2>7, <2>s
  <2> QED BY <2>1, <2>2, <2>3, <2>4, <2>5, <2>6, <2>7, QuietSteps
<1> HIDE DEF PaidInv
<1> QED BY <1>1, <1>2, <1>3, Sound, PTL DEF Spec, PaidDriftsOnlyByStaleReversal
=============================================================================
