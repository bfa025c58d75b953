---------------------------- MODULE OutboxProofs ----------------------------
(***************************************************************************)
(* What holds of the outbox for every number of notices, workers, attempts *)
(* and retries: an inductive invariant, and from it the bound on sends,    *)
(* the absence of needless duplicates, and what a stale sender cannot do.  *)
(***************************************************************************)
EXTENDS Outbox, TLAPS, FiniteSetTheorems

Active(w, n) == worker[w].pc # "idle" /\ worker[w].notice = n

(* Every claim is counted by an attempt of this or of an earlier round,    *)
(* and no token is from the future.                                        *)
Counted ==
    \A n \in Notices :
        /\ claims[n] <= MaxAttempts * retries[n] + row[n].attempts
        /\ row[n].token <= claims[n]
        /\ row[n].status = "ABSENT" => row[n].attempts = 0 /\ row[n].token = 0
        /\ sent[n] \subseteq 1..claims[n]

(* A delivery works under a token of its own that it has not sent under.   *)
OwnToken ==
    /\ \A w \in Workers, n \in Notices : Active(w, n) =>
          /\ worker[w].token \in 1..claims[n]
          /\ worker[w].pc \in {"check", "send"} => worker[w].token \notin sent[n]
    /\ \A v, w \in Workers, n \in Notices :
          Active(v, n) /\ Active(w, n) /\ v # w => worker[v].token # worker[w].token
    /\ \A w \in Workers : worker[w].pc # "idle" => worker[w].notice \in Notices

(* As long as no lease lapsed, no answer was lost and nobody retried, only *)
(* the latest claim of a notice is being delivered, nothing was delivered  *)
(* while the notice still waits, and what was delivered is being recorded. *)
Calm ==
    \A n \in Notices : ~disturbed[n] =>
        /\ ~clock[n].lapsed
        /\ \A w \in Workers : Active(w, n) => worker[w].token = claims[n]
        /\ row[n].status \in {"ABSENT", "PENDING"} =>
              reached[n] = 0 /\ \A w \in Workers : ~Active(w, n)
        /\ reached[n] <= 1
        /\ reached[n] = 1 => \A w \in Workers : Active(w, n) =>
              worker[w].pc = "finish" /\ worker[w].outcome = "ok"

IInv == TypeOK /\ Counted /\ OwnToken /\ Calm
-----------------------------------------------------------------------------
(* The rows keep their type when secrets are purged.                       *)
LEMMA PurgedTyped ==
    ASSUME TypeOK
    PROVE  /\ Purged \in [Notices -> Row]
           /\ \A n \in Notices : /\ Purged[n].status = row[n].status
                                 /\ Purged[n].attempts = row[n].attempts
                                 /\ Purged[n].token = row[n].token
<1>1. ASSUME NEW n \in Notices
      PROVE  /\ Purged[n] \in Row /\ Purged[n].status = row[n].status
             /\ Purged[n].attempts = row[n].attempts /\ Purged[n].token = row[n].token
  <2>1. row[n] \in Row
    BY DEF TypeOK
  <2>2. Purged[n] = row[n] \/ Purged[n] = [row[n] EXCEPT !.secret = FALSE]
    BY DEF Purged
  <2> QED BY <2>1, <2>2 DEF Row
<1>2. Purged = [n \in Notices |-> Purged[n]]
  BY DEF Purged
<1> QED BY <1>1, <1>2

(* A delivery and its notice have their types.                             *)
LEMMA DeliveryTyped ==
    ASSUME TypeOK, OwnToken, NEW w \in Workers, worker[w].pc # "idle"
    PROVE  worker[w].notice \in Notices /\ worker[w] \in Delivery
  BY DEF TypeOK, OwnToken

(* A worker that lets go is idle, whatever it was doing.                   *)
LEMMA IdleTyped == Idle \in Delivery
  BY DEF Idle, Delivery, Outcomes

(* What the final UPDATE writes, if it writes at all.                      *)
Finished(w, n, again, status) ==
    /\ row' = [row EXCEPT ![n] = [row[n] EXCEPT !.status = status, !.token = 0,
                                    !.secret = SecretLeft(w, again)]]
    /\ status = "PENDING" => worker[w].outcome = "retryable"
    /\ again => status = "PENDING"

LEMMA FinishWrites ==
    ASSUME TypeOK, NEW w \in Workers, NEW again \in BOOLEAN, Finish(w, again), Holds(w),
           worker[w].notice \in Notices
    PROVE  \E status \in {"PENDING", "SENT", "FAILED", "CANCELLED"} :
              Finished(w, worker[w].notice, again, status)
<1> DEFINE n == worker[w].notice
<1> DEFINE new == CASE worker[w].outcome = "ok" -> "SENT"
                    [] worker[w].outcome = "ineligible" -> "CANCELLED"
                    [] again -> "PENDING"
                    [] OTHER -> "FAILED"
<1>1. new \in {"PENDING", "SENT", "FAILED", "CANCELLED"}
      /\ (new = "PENDING" => worker[w].outcome = "retryable") /\ (again => new = "PENDING")
  <2>1. CASE worker[w].outcome = "ok"
    BY <2>1 DEF Finish, MayGoAgain
  <2>2. CASE worker[w].outcome = "ineligible"
    BY <2>2 DEF Finish, MayGoAgain
  <2>3. CASE worker[w].outcome \notin {"ok", "ineligible"}
    BY <2>3 DEF Finish, MayGoAgain
  <2> QED BY <2>1, <2>2, <2>3
<1>2. row' = [row EXCEPT ![n].status = new, ![n].token = 0,
                         ![n].secret = SecretLeft(w, again)]
  BY DEF Finish
<1> HIDE DEF new
<1>3. row' = [row EXCEPT ![n] = [row[n] EXCEPT !.status = new, !.token = 0,
                                    !.secret = SecretLeft(w, again)]]
  BY <1>2 DEF TypeOK
<1> QED BY <1>1, <1>3 DEF Finished

(* A clock whose marks are moved is a clock.                               *)
LEMMA ClockMoved ==
    ASSUME NEW c \in Clock, NEW b \in BOOLEAN, NEW d \in BOOLEAN
    PROVE  /\ [c EXCEPT !.due = b] \in Clock
           /\ [c EXCEPT !.lapsed = b] \in Clock
           /\ [c EXCEPT !.expired = b] \in Clock
           /\ [c EXCEPT !.due = b, !.lapsed = d] \in Clock
<1>1. \A x \in BOOLEAN : [c EXCEPT !.due = x] \in Clock
  BY DEF Clock
<1>2. \A x \in BOOLEAN : [c EXCEPT !.lapsed = x] \in Clock
  BY DEF Clock
<1>3. \A x \in BOOLEAN : [c EXCEPT !.expired = x] \in Clock
  BY DEF Clock
<1>4. [c EXCEPT !.due = b, !.lapsed = d] \in Clock
  BY DEF Clock
<1> QED BY <1>1, <1>2, <1>3, <1>4

(* Every step keeps the types, action by action.                           *)
LEMMA TypePreserved == ASSUME OutboxAssumption, IInv, [Next]_vars PROVE TypeOK'
<1> USE OutboxAssumption DEF IInv, OutboxAssumption
<1>1. ASSUME NEW n \in Notices, Enqueue(n) PROVE TypeOK'
  <2>1. \A c \in Categories :
          [status |-> "PENDING", category |-> c, attempts |-> 0, token |-> 0,
           secret |-> c = "recovery"] \in Row
    BY DEF Row
  <2>2. row' \in [Notices -> Row]
    BY <1>1, <2>1 DEF Enqueue, EnqueueAs, TypeOK
  <2>3. clock' \in [Notices -> Clock]
    <3>1. clock' = [clock EXCEPT ![n] = [clock[n] EXCEPT !.due = TRUE]]
      BY <1>1 DEF Enqueue, EnqueueAs
    <3>2. [clock[n] EXCEPT !.due = TRUE] \in Clock
      BY ClockMoved DEF TypeOK
    <3> QED BY <3>1, <3>2 DEF TypeOK
  <2> QED BY <1>1, <2>2, <2>3 DEF TypeOK, Enqueue, EnqueueAs, history
<1>2. ASSUME NEW n \in Notices, BecomeDue(n) \/ Lapse(n) \/ Expire(n) PROVE TypeOK'
  <2>1. clock' \in [Notices -> Clock]
    <3>1. clock[n] \in Clock
      BY DEF TypeOK
    <3>2. \E c \in Clock : clock' = [clock EXCEPT ![n] = c]
      BY <1>2, <3>1, ClockMoved DEF BecomeDue, Lapse, Expire
    <3> QED BY <3>2 DEF TypeOK
  <2>2. disturbed' \in [Notices -> BOOLEAN]
    BY <1>2 DEF BecomeDue, Lapse, Expire, TypeOK, history
  <2> QED BY <1>2, <2>1, <2>2 DEF TypeOK, BecomeDue, Lapse, Expire, history
<1>3. ASSUME NEW n \in Notices, Cancel(n) PROVE TypeOK'
  <2>1. row[n] \in Row
    BY DEF TypeOK
  <2>2. CASE DisconnectRead(n)
    BY <2>1, <2>2 DEF TypeOK, DisconnectRead, Row, history
  <2>3. CASE DisconnectWrite(n)
    BY <2>1, <2>3 DEF TypeOK, DisconnectWrite, Row, Closed, history
  <2>4. CASE CancelRecovery(n)
    BY <2>1, <2>4 DEF TypeOK, CancelRecovery, Row, Closed, history
  <2> QED BY <1>3, <2>2, <2>3, <2>4 DEF Cancel
<1>4. ASSUME NEW n \in Notices, Retry(n) PROVE TypeOK'
  <2>1. clock' \in [Notices -> Clock]
    <3>1. clock[n] \in Clock
      BY DEF TypeOK
    <3>2. \E c \in Clock : clock' = [clock EXCEPT ![n] = c]
      BY <1>4, <3>1, ClockMoved DEF Retry
    <3> QED BY <3>2 DEF TypeOK
  <2>2. row' \in [Notices -> Row]
    <3>1. row[n] \in Row
      BY DEF TypeOK
    <3>2. [row[n] EXCEPT !.status = "PENDING", !.attempts = 0] \in Row
      <4>1. 0 \in 0..MaxAttempts
        OBVIOUS
      <4> QED BY <3>1, <4>1 DEF Row, Closed
    <3>3. row' = [row EXCEPT ![n] = [row[n] EXCEPT !.status = "PENDING", !.attempts = 0]]
      BY <1>4 DEF Retry, TypeOK
    <3> QED BY <3>2, <3>3 DEF TypeOK
  <2> QED BY <1>4, <2>1, <2>2 DEF TypeOK, Retry
<1>5. ASSUME NEW w \in Workers, PurgeOnly(w) PROVE TypeOK'
  <2>1. row' \in [Notices -> Row]
    BY <1>5, PurgedTyped DEF PurgeOnly
  <2> QED BY <1>5, <2>1 DEF TypeOK, PurgeOnly, history
<1>6. ASSUME NEW w \in Workers, Crash(w) PROVE TypeOK'
  BY <1>6, IdleTyped DEF TypeOK, Crash, history
<1>7. ASSUME NEW w \in Workers, Deliver(w) PROVE TypeOK'
  <2>1. CASE Check(w)
    <3>1. worker[w].notice \in Notices /\ worker[w] \in Delivery
      BY <2>1, DeliveryTyped DEF Check
    <3>2. row[worker[w].notice].secret \in BOOLEAN
      BY <3>1 DEF TypeOK, Row
    <3>3. worker' \in [Workers -> Delivery]
      <4>1. \E d \in Delivery : worker' = [worker EXCEPT ![w] = d]
        <5>1. [worker[w] EXCEPT !.pc = "finish", !.outcome = "ineligible",
                  !.secret = row[worker[w].notice].secret] \in Delivery
          BY <3>1, <3>2 DEF Delivery, Outcomes
        <5>2. [worker[w] EXCEPT !.pc = "send", !.secret = row[worker[w].notice].secret]
                 \in Delivery
          BY <3>1, <3>2 DEF Delivery
        <5> QED BY <2>1, <5>1, <5>2, IdleTyped DEF Check, TypeOK
      <4> QED BY <4>1 DEF TypeOK
    <3> QED BY <2>1, <3>3 DEF Check, TypeOK, history
  <2>2. ASSUME NEW arrives \in BOOLEAN, NEW outcome \in {"ok", "refused", "retryable"},
               Send(w, arrives, outcome)
        PROVE  TypeOK'
    <3>1. worker[w].notice \in Notices /\ worker[w] \in Delivery
      BY <2>2, DeliveryTyped DEF Send
    <3>2. worker[w].token \in 1..claims[worker[w].notice]
      BY <2>2, <3>1 DEF Send, OwnToken, Active
    <3>3. worker' \in [Workers -> Delivery]
      BY <2>2, <3>1 DEF Send, TypeOK, Delivery, Outcomes
    <3>4. sent' \in [Notices -> SUBSET (Nat \ {0})]
      BY <2>2, <3>1, <3>2 DEF Send, TypeOK
    <3>5. reached' \in [Notices -> Nat] /\ disturbed' \in [Notices -> BOOLEAN]
      BY <2>2, <3>1 DEF Send, TypeOK
    <3> QED BY <2>2, <3>3, <3>4, <3>5 DEF Send, TypeOK
  <2>3. ASSUME NEW again \in BOOLEAN, Finish(w, again) PROVE TypeOK'
    <3> DEFINE n == worker[w].notice
    <3>1. n \in Notices /\ worker[w] \in Delivery
      BY <2>3, DeliveryTyped DEF Finish
    <3>2. worker' \in [Workers -> Delivery]
      BY <2>3, IdleTyped DEF Finish, TypeOK
    <3>3. SecretLeft(w, again) \in BOOLEAN /\ row[n] \in Row
      BY <3>1 DEF TypeOK, SecretLeft, Delivery
    <3>4. row' \in [Notices -> Row]
      <4>1. \A status \in {"PENDING", "SENT", "FAILED", "CANCELLED"}, b \in BOOLEAN :
               [row[n] EXCEPT !.status = status, !.token = 0, !.secret = b] \in Row
        BY <3>3 DEF Row, Closed
      <4>2. CASE Holds(w)
        <5>1. PICK status \in {"PENDING", "SENT", "FAILED", "CANCELLED"} :
                 Finished(w, n, again, status)
          BY <2>3, <3>1, <4>2, FinishWrites
        <5>2. \E x \in Row : row' = [row EXCEPT ![n] = x]
          BY <3>3, <4>1, <5>1 DEF Finished
        <5> QED BY <3>1, <5>2 DEF TypeOK
      <4> QED BY <2>3, <4>2 DEF Finish, TypeOK
    <3>5. clock' \in [Notices -> Clock]
      <4>1. clock[n] \in Clock
        BY <3>1 DEF TypeOK
      <4>2. CASE Holds(w)
        <5>1. clock' = [clock EXCEPT ![n] = [clock[n] EXCEPT !.due = FALSE, !.lapsed = FALSE]]
          BY <2>3, <3>1, <4>2 DEF Finish, TypeOK
        <5> QED BY <3>1, <4>1, <5>1, ClockMoved DEF TypeOK
      <4> QED BY <2>3, <4>2 DEF Finish, TypeOK
    <3> QED BY <2>3, <3>2, <3>4, <3>5 DEF Finish, TypeOK, history
  <2> QED BY <1>7, <2>1, <2>2, <2>3 DEF Deliver
<1>8. ASSUME NEW w \in Workers, NEW n \in Notices, Tick(w, n) PROVE TypeOK'
  <2>1. CASE Claim(w, n)
    <3>1. row[n].attempts + 1 \in 0..MaxAttempts /\ claims[n] + 1 \in Nat
      BY <2>1 DEF Claim, TypeOK, Row, Exhausted
    <3>2. row' \in [Notices -> Row]
      BY <2>1, <3>1, PurgedTyped DEF Claim, Row
    <3>3. worker' \in [Workers -> Delivery]
      BY <2>1, <3>1 DEF Claim, TypeOK, Delivery, Outcomes
    <3>4. clock' \in [Notices -> Clock]
      <4>1. clock[n] \in Clock
        BY DEF TypeOK
      <4>2. \E c \in Clock : clock' = [clock EXCEPT ![n] = c]
        BY <2>1, <4>1, ClockMoved DEF Claim
      <4> QED BY <4>2 DEF TypeOK
    <3>5. claims' \in [Notices -> Nat]
      BY <2>1, <3>1 DEF Claim, TypeOK
    <3> QED BY <2>1, <3>2, <3>3, <3>4, <3>5 DEF Claim, TypeOK, history
  <2>2. CASE Close(w, n)
    <3>1. row' \in [Notices -> Row]
      <4>1. \A status \in Closed : [Purged[n] EXCEPT !.status = status, !.secret = FALSE] \in Row
        BY PurgedTyped DEF Row, Closed
      <4>2. \E x \in Row : row' = [Purged EXCEPT ![n] = x]
        BY <2>2, <4>1, PurgedTyped DEF Close, Closed
      <4> QED BY <4>2, PurgedTyped
    <3> QED BY <2>2, <3>1 DEF Close, TypeOK, history
  <2> QED BY <1>8, <2>1, <2>2 DEF Tick
<1>9. CASE UNCHANGED vars
  BY <1>9 DEF vars, TypeOK
<1> QED BY <1>1, <1>2, <1>3, <1>4, <1>5, <1>6, <1>7, <1>8, <1>9 DEF Next

-----------------------------------------------------------------------------
(* Another manual retry makes room for max_attempts more claims.           *)
LEMMA AnotherRound ==
    ASSUME OutboxAssumption, NEW k \in Nat
    PROVE  /\ MaxAttempts * (k + 1) = MaxAttempts * k + MaxAttempts
           /\ MaxAttempts * k \in Nat
  BY DEF OutboxAssumption

(* The numbers of a typed state.                                           *)
LEMMA Numbers ==
    ASSUME TypeOK, NEW n \in Notices
    PROVE  /\ claims[n] \in Nat /\ retries[n] \in Nat /\ reached[n] \in Nat
           /\ row[n].attempts \in 0..MaxAttempts /\ row[n].token \in Nat
  BY DEF TypeOK, Row

(* Claims are counted by attempts: each claim is one more attempt, and the *)
(* attempts are only set back when another retry is counted.               *)
LEMMA CountedPreserved == ASSUME OutboxAssumption, IInv, [Next]_vars PROVE Counted'
<1> USE OutboxAssumption DEF IInv, OutboxAssumption
<1>q. ASSUME \A n \in Notices :
                /\ row'[n].attempts = row[n].attempts
                /\ row'[n].token \in {0, row[n].token}
                /\ row'[n].status = "ABSENT" => row[n].status = "ABSENT",
             UNCHANGED <<claims, retries, sent>>
      PROVE  Counted'
  <2>1. \A n \in Notices : /\ row'[n].attempts = row[n].attempts
                           /\ row'[n].token \in {0, row[n].token}
                           /\ row'[n].status = "ABSENT" => row[n].status = "ABSENT"
    BY <1>q
  <2>2. \A n \in Notices : /\ row'[n].token <= claims'[n]
                           /\ row'[n].status = "ABSENT" => row'[n].attempts = 0 /\ row'[n].token = 0
    BY <1>q, <2>1, Numbers DEF Counted
  <2> QED BY <1>q, <2>1, <2>2 DEF Counted
<1>1. ASSUME NEW n \in Notices, Enqueue(n) PROVE Counted'
  <2>1. row[n].attempts = 0 /\ row[n].token = 0
    BY <1>1 DEF Enqueue, EnqueueAs, Counted
  <2> QED BY <1>1, <2>1, <1>q DEF Enqueue, EnqueueAs, TypeOK, history
<1>2. ASSUME NEW n \in Notices, BecomeDue(n) \/ Lapse(n) \/ Expire(n) PROVE Counted'
  BY <1>2, <1>q DEF BecomeDue, Lapse, Expire, history
<1>3. ASSUME NEW n \in Notices, Cancel(n) PROVE Counted'
  <2>1. CASE DisconnectRead(n)
    BY <2>1, <1>q DEF DisconnectRead, history
  <2>2. CASE DisconnectWrite(n)
    BY <2>2, <1>q DEF DisconnectWrite, TypeOK, history
  <2>3. CASE CancelRecovery(n)
    BY <2>3, <1>q DEF CancelRecovery, TypeOK, history
  <2> QED BY <1>3, <2>1, <2>2, <2>3 DEF Cancel
<1>4. ASSUME NEW n \in Notices, Retry(n) PROVE Counted'
  <2>1. claims[n] <= MaxAttempts * (retries[n] + 1)
    <3>1. claims[n] <= MaxAttempts * retries[n] + row[n].attempts
      BY DEF Counted
    <3>2. /\ claims[n] \in Nat /\ retries[n] \in Nat /\ row[n].attempts \in Nat
          /\ row[n].attempts <= MaxAttempts
      BY Numbers
    <3>3. /\ MaxAttempts * (retries[n] + 1) = MaxAttempts * retries[n] + MaxAttempts
          /\ MaxAttempts * retries[n] \in Nat
      BY <3>2, AnotherRound
    <3> HIDE DEF IInv
    <3> QED BY <3>1, <3>2, <3>3
  <2>2. row'[n].attempts = 0 /\ row'[n].token = row[n].token /\ retries'[n] = retries[n] + 1
    BY <1>4 DEF Retry, TypeOK
  <2>3. \A m \in Notices \ {n} : row'[m] = row[m] /\ retries'[m] = retries[m]
    BY <1>4 DEF Retry, TypeOK
  <2>4. MaxAttempts * (retries[n] + 1) \in Nat
    BY Numbers, AnotherRound
  <2>5. row'[n].status = "PENDING" /\ row[n].status # "ABSENT"
    BY <1>4 DEF Retry, TypeOK
  <2>6. UNCHANGED <<claims, sent>>
    BY <1>4 DEF Retry
  <2> QED BY <2>1, <2>2, <2>3, <2>4, <2>5, <2>6, Numbers DEF Counted
<1>5. ASSUME NEW w \in Workers, PurgeOnly(w) PROVE Counted'
  BY <1>5, <1>q, PurgedTyped DEF PurgeOnly, history
<1>6. ASSUME NEW w \in Workers, Crash(w) PROVE Counted'
  BY <1>6, <1>q DEF Crash, history
<1>7. ASSUME NEW w \in Workers, Deliver(w) PROVE Counted'
  <2>1. CASE Check(w)
    BY <2>1, <1>q DEF Check, history
  <2>2. ASSUME NEW arrives \in BOOLEAN, NEW outcome \in {"ok", "refused", "retryable"},
               Send(w, arrives, outcome)
        PROVE  Counted'
    <3> DEFINE n == worker[w].notice
    <3>1. n \in Notices /\ worker[w].token \in 1..claims[n]
      BY <2>2 DEF Send, OwnToken, Active
    <3>2. sent' = [sent EXCEPT ![n] = @ \cup {worker[w].token}]
      BY <2>2 DEF Send
    <3> HIDE DEF n
    <3>3. \A m \in Notices : sent'[m] \subseteq 1..claims[m]
      BY <3>1, <3>2 DEF Counted, TypeOK
    <3> QED BY <2>2, <3>3 DEF Send, Counted
  <2>3. ASSUME NEW again \in BOOLEAN, Finish(w, again) PROVE Counted'
    <3>1. worker[w].notice \in Notices
      BY <2>3, DeliveryTyped DEF Finish
    <3>2. CASE ~Holds(w)
      BY <2>3, <3>2, <1>q DEF Finish, history
    <3>3. CASE Holds(w)
      <4> DEFINE n == worker[w].notice
      <4>f. PICK status \in {"PENDING", "SENT", "FAILED", "CANCELLED"} :
               Finished(w, n, again, status)
        BY <2>3, <3>1, <3>3, FinishWrites
      <4>0. row' = [row EXCEPT ![n] = [row[n] EXCEPT !.status = status, !.token = 0,
                                              !.secret = SecretLeft(w, again)]]
        BY <4>f DEF Finished
      <4>1. \A m \in Notices : /\ row'[m].attempts = row[m].attempts
                               /\ row'[m].token \in {0, row[m].token}
        BY <3>1, <4>0 DEF TypeOK, Row
      <4>2. \A m \in Notices : row'[m].status = "ABSENT" => row[m].status = "ABSENT"
        BY <3>1, <4>0 DEF TypeOK, Row
      <4>3. UNCHANGED <<claims, retries, sent>>
        BY <2>3 DEF Finish, history
      <4> QED BY <4>1, <4>2, <4>3, <1>q
    <3> QED BY <3>2, <3>3
  <2> QED BY <1>7, <2>1, <2>2, <2>3 DEF Deliver
<1>8. ASSUME NEW w \in Workers, NEW n \in Notices, Tick(w, n) PROVE Counted'
  <2>1. CASE Claim(w, n)
    <3>1. row'[n].attempts = row[n].attempts + 1 /\ row'[n].token = claims[n] + 1
          /\ claims'[n] = claims[n] + 1
      BY <2>1, PurgedTyped DEF Claim, TypeOK, Row
    <3>2. \A m \in Notices \ {n} : /\ row'[m].attempts = row[m].attempts
                                  /\ row'[m].token = row[m].token /\ claims'[m] = claims[m]
      BY <2>1, PurgedTyped DEF Claim, TypeOK, Row
    <3>3. MaxAttempts * retries[n] \in Nat
      BY Numbers, AnotherRound
    <3>4. UNCHANGED <<sent, retries>>
      BY <2>1 DEF Claim, history
    <3>5. sent[n] \subseteq 1..(claims[n] + 1)
      BY Numbers DEF Counted
    <3>6. row'[n].status = "PROCESSING" /\ \A m \in Notices \ {n} : row'[m].status = row[m].status
      BY <2>1, PurgedTyped DEF Claim, TypeOK, Row
    <3>7. \A m \in Notices : sent'[m] \subseteq 1..claims'[m]
      BY <3>1, <3>2, <3>4, <3>5 DEF Counted
    <3>8. \A m \in Notices \ {n} :
             /\ claims'[m] <= MaxAttempts * retries'[m] + row'[m].attempts
             /\ row'[m].token <= claims'[m]
             /\ row'[m].status = "ABSENT" => row'[m].attempts = 0 /\ row'[m].token = 0
      BY <3>2, <3>4, <3>6 DEF Counted
    <3>9. /\ claims'[n] <= MaxAttempts * retries'[n] + row'[n].attempts
          /\ row'[n].token <= claims'[n]
      BY <3>1, <3>3, <3>4, Numbers DEF Counted
    <3> QED BY <3>6, <3>7, <3>8, <3>9 DEF Counted
  <2>2. CASE Close(w, n)
    <3>1. \A m \in Notices : /\ row'[m].attempts = row[m].attempts
                             /\ row'[m].token = row[m].token
                             /\ row'[m].status = "ABSENT" => row[m].status = "ABSENT"
      BY <2>2, PurgedTyped DEF Close, Claimable
    <3> QED BY <2>2, <3>1, <1>q DEF Close, history
  <2> QED BY <1>8, <2>1, <2>2 DEF Tick
<1>9. CASE UNCHANGED vars
  BY <1>9, <1>q DEF vars
<1> QED BY <1>1, <1>2, <1>3, <1>4, <1>5, <1>6, <1>7, <1>8, <1>9 DEF Next

-----------------------------------------------------------------------------
(* A delivery that ends leaves the tokens of the others as they are.       *)
LEMMA EndingKeepsTokens ==
    ASSUME TypeOK, OwnToken, NEW w \in Workers, worker' = [worker EXCEPT ![w] = Idle],
           UNCHANGED <<claims, sent>>
    PROVE  OwnToken'
<1>1. /\ worker'[w].pc = "idle"
      /\ \A v \in Workers \ {w} : worker'[v] = worker[v]
  BY DEF Idle, TypeOK
<1> QED BY <1>1 DEF OwnToken, Active

(* Every claim draws a token of its own and is sent under it at most once. *)
LEMMA OwnTokenPreserved == ASSUME OutboxAssumption, IInv, [Next]_vars PROVE OwnToken'
<1> USE OutboxAssumption DEF IInv, OutboxAssumption
<1>q. ASSUME UNCHANGED <<worker, claims, sent>> PROVE OwnToken'
  BY <1>q DEF OwnToken, Active
<1>1. ASSUME NEW n \in Notices, Enqueue(n) \/ BecomeDue(n) \/ Lapse(n) \/ Expire(n)
      PROVE  OwnToken'
  BY <1>1, <1>q DEF Enqueue, EnqueueAs, BecomeDue, Lapse, Expire, history
<1>2. ASSUME NEW n \in Notices, Cancel(n) \/ Retry(n) PROVE OwnToken'
  BY <1>2, <1>q DEF Cancel, DisconnectRead, DisconnectWrite, CancelRecovery, Retry, history
<1>3. ASSUME NEW w \in Workers, PurgeOnly(w) PROVE OwnToken'
  BY <1>3, <1>q DEF PurgeOnly, history
<1>4. ASSUME NEW w \in Workers, Crash(w) PROVE OwnToken'
  BY <1>4, EndingKeepsTokens DEF Crash, history
<1>5. ASSUME NEW w \in Workers, Deliver(w) PROVE OwnToken'
  <2>1. CASE Check(w)
    <3>1. UNCHANGED <<claims, sent>>
      BY <2>1 DEF Check, history
    <3>2. CASE worker' = [worker EXCEPT ![w] = Idle]
      BY <3>1, <3>2, EndingKeepsTokens
    <3>3. CASE worker' # [worker EXCEPT ![w] = Idle]
      <4>1. /\ worker'[w].notice = worker[w].notice /\ worker'[w].token = worker[w].token
            /\ worker[w].pc = "check"
        BY <2>1, <3>3 DEF Check, TypeOK, Delivery
      <4>2. \A v \in Workers \ {w} : worker'[v] = worker[v]
        BY <2>1 DEF Check, TypeOK
      <4> QED BY <3>1, <4>1, <4>2 DEF OwnToken, Active
    <3> QED BY <3>2, <3>3
  <2>2. ASSUME NEW arrives \in BOOLEAN, NEW outcome \in {"ok", "refused", "retryable"},
               Send(w, arrives, outcome)
        PROVE  OwnToken'
    <3> DEFINE n == worker[w].notice
    <3>1. n \in Notices /\ Active(w, n)
      BY <2>2 DEF Send, OwnToken, Active
    <3>2. /\ worker'[w].notice = n /\ worker'[w].token = worker[w].token
          /\ worker'[w].pc = "finish"
      BY <2>2 DEF Send, TypeOK, Delivery
    <3>3. \A v \in Workers \ {w} : worker'[v] = worker[v]
      BY <2>2 DEF Send, TypeOK
    <3>4. claims' = claims
      BY <2>2 DEF Send
    <3>5. \A m \in Notices : sent'[m] = IF m = n THEN sent[m] \cup {worker[w].token} ELSE sent[m]
      BY <2>2, <3>1 DEF Send, TypeOK
    <3> HIDE DEF n
    <3>6. \A v \in Workers \ {w}, m \in Notices : Active(v, m) /\ m = n =>
             worker[v].token # worker[w].token
      BY <3>1 DEF OwnToken
    <3>7. \A v \in Workers, m \in Notices : Active(v, m)' <=> Active(v, m)
      BY <3>1, <3>2, <3>3 DEF Active
    <3>8. \A v \in Workers, m \in Notices : Active(v, m)' =>
             /\ worker'[v].token \in 1..claims'[m]
             /\ worker'[v].pc \in {"check", "send"} => worker'[v].token \notin sent'[m]
      <4> SUFFICES ASSUME NEW v \in Workers, NEW m \in Notices, Active(v, m)
                   PROVE  /\ worker'[v].token \in 1..claims'[m]
                          /\ worker'[v].pc \in {"check", "send"} =>
                                worker'[v].token \notin sent'[m]
        BY <3>7
      <4>1. CASE v = w
        BY <3>2, <3>4, <4>1 DEF OwnToken
      <4>2. CASE v # w
        <5>1. /\ worker'[v] = worker[v] /\ claims'[m] = claims[m]
              /\ worker[v].token \in 1..claims[m]
              /\ worker[v].pc \in {"check", "send"} => worker[v].token \notin sent[m]
          BY <3>3, <3>4, <4>2 DEF OwnToken
        <5>2. m = n => worker[v].token # worker[w].token
          BY <3>6, <4>2
        <5>3. m # n => sent'[m] = sent[m]
          BY <3>5
        <5>4. m = n => sent'[m] = sent[m] \cup {worker[w].token}
          BY <3>5
        <5> QED BY <5>1, <5>2, <5>3, <5>4
      <4> QED BY <4>1, <4>2
    <3>9. \A u, v \in Workers, m \in Notices :
             Active(u, m)' /\ Active(v, m)' /\ u # v => worker'[u].token # worker'[v].token
      BY <3>2, <3>3, <3>7 DEF OwnToken
    <3>10. \A v \in Workers : worker'[v].pc # "idle" => worker'[v].notice \in Notices
      BY <3>1, <3>2, <3>3 DEF OwnToken
    <3> QED BY <3>8, <3>9, <3>10 DEF OwnToken
  <2>3. ASSUME NEW again \in BOOLEAN, Finish(w, again) PROVE OwnToken'
    BY <2>3, EndingKeepsTokens DEF Finish, history
  <2> QED BY <1>5, <2>1, <2>2, <2>3 DEF Deliver
<1>6. ASSUME NEW w \in Workers, NEW n \in Notices, Tick(w, n) PROVE OwnToken'
  <2>1. CASE Claim(w, n)
    <3>1. /\ worker'[w].notice = n /\ worker'[w].token = claims[n] + 1
          /\ worker'[w].pc = "check"
      BY <2>1 DEF Claim, TypeOK
    <3>2. \A v \in Workers \ {w} : worker'[v] = worker[v]
      BY <2>1 DEF Claim, TypeOK
    <3>3. sent' = sent /\ \A m \in Notices : claims'[m] = IF m = n THEN claims[m] + 1 ELSE claims[m]
      BY <2>1 DEF Claim, TypeOK, history
    <3>4. \A m \in Notices : claims[m] \in Nat /\ sent[m] \subseteq 1..claims[m]
      BY Numbers DEF Counted
    <3>5. \A v \in Workers \ {w}, m \in Notices : Active(v, m)' => Active(v, m)
      BY <3>2 DEF Active
    <3>6. \A m \in Notices : Active(w, m)' => m = n
      BY <3>1 DEF Active
    <3>7. \A v \in Workers, m \in Notices : Active(v, m)' =>
             /\ worker'[v].token \in 1..claims'[m]
             /\ worker'[v].pc \in {"check", "send"} => worker'[v].token \notin sent'[m]
      <4> SUFFICES ASSUME NEW v \in Workers, NEW m \in Notices, Active(v, m)'
                   PROVE  /\ worker'[v].token \in 1..claims'[m]
                          /\ worker'[v].pc \in {"check", "send"} =>
                                worker'[v].token \notin sent'[m]
        OBVIOUS
      <4>1. CASE v = w
        BY <3>1, <3>3, <3>4, <3>6, <4>1
      <4>2. CASE v # w
        BY <3>2, <3>3, <3>4, <3>5, <4>2 DEF OwnToken
      <4> QED BY <4>1, <4>2
    <3>8. \A v \in Workers \ {w} : Active(v, n)' => worker'[v].token \in 1..claims[n]
      BY <3>2, <3>5 DEF OwnToken
    <3>9. \A u, v \in Workers, m \in Notices :
             Active(u, m)' /\ Active(v, m)' /\ u # v => worker'[u].token # worker'[v].token
      <4> SUFFICES ASSUME NEW u \in Workers, NEW v \in Workers, NEW m \in Notices,
                          Active(u, m)', Active(v, m)', u # v
                   PROVE  worker'[u].token # worker'[v].token
        OBVIOUS
      <4>1. CASE u = w \/ v = w
        BY <3>1, <3>4, <3>6, <3>8, <4>1
      <4>2. CASE u # w /\ v # w
        BY <3>2, <3>5, <4>2 DEF OwnToken
      <4> QED BY <4>1, <4>2
    <3>10. \A v \in Workers : worker'[v].pc # "idle" => worker'[v].notice \in Notices
      BY <3>1, <3>2 DEF OwnToken
    <3> QED BY <3>7, <3>9, <3>10 DEF OwnToken
  <2>2. CASE Close(w, n)
    BY <2>2, <1>q DEF Close, history
  <2> QED BY <1>6, <2>1, <2>2 DEF Tick
<1>7. CASE UNCHANGED vars
  BY <1>7, <1>q DEF vars
<1> QED BY <1>1, <1>2, <1>3, <1>4, <1>5, <1>6, <1>7 DEF Next

-----------------------------------------------------------------------------
(* What Calm says of one notice.                                           *)
CalmOf(n) ==
    ~disturbed[n] =>
        /\ ~clock[n].lapsed
        /\ \A w \in Workers : Active(w, n) => worker[w].token = claims[n]
        /\ row[n].status \in {"ABSENT", "PENDING"} =>
              reached[n] = 0 /\ \A w \in Workers : ~Active(w, n)
        /\ reached[n] <= 1
        /\ reached[n] = 1 => \A w \in Workers : Active(w, n) =>
              worker[w].pc = "finish" /\ worker[w].outcome = "ok"

(* A notice stays calm when nothing is claimed, sent or taken over and it  *)
(* only goes from waiting to waiting or to closed.                         *)
LEMMA StaysCalm ==
    ASSUME NEW n \in Notices, CalmOf(n),
           UNCHANGED <<worker, claims, reached>>,
           disturbed[n] => disturbed'[n],
           clock'[n].lapsed = clock[n].lapsed,
           row'[n].status \in {"ABSENT", "PENDING"} => row[n].status \in {"ABSENT", "PENDING"}
    PROVE  CalmOf(n)'
  BY DEF CalmOf, Active

(* A notice stays calm when a delivery ends without writing.               *)
LEMMA StaysCalmWithout ==
    ASSUME TypeOK, NEW n \in Notices, CalmOf(n), NEW w \in Workers,
           worker' = [worker EXCEPT ![w] = Idle],
           UNCHANGED <<row, clock, claims, reached, disturbed>>
    PROVE  CalmOf(n)'
<1>1. /\ worker'[w].pc = "idle"
      /\ \A v \in Workers \ {w} : worker'[v] = worker[v]
  BY DEF Idle, TypeOK
<1> QED BY <1>1 DEF CalmOf, Active

(* A step that marks a notice as disturbed promises nothing more of it.    *)
LEMMA DisturbedIsCalm == ASSUME NEW n \in Notices, disturbed'[n] PROVE CalmOf(n)'
  BY DEF CalmOf

(* Calm notices stay calm, action by action.                               *)
LEMMA CalmPreserved == ASSUME OutboxAssumption, IInv, [Next]_vars PROVE Calm'
<1> USE OutboxAssumption DEF IInv, OutboxAssumption
<1> SUFFICES ASSUME NEW m \in Notices PROVE CalmOf(m)'
  BY DEF Calm, CalmOf
<1>m. CalmOf(m)
  BY DEF Calm, CalmOf
<1>1. ASSUME NEW n \in Notices, Enqueue(n) \/ BecomeDue(n) \/ Expire(n) PROVE CalmOf(m)'
  <2>1. CASE Enqueue(n)
    <3>1. /\ row'[m].status \in {"ABSENT", "PENDING"} => row[m].status \in {"ABSENT", "PENDING"}
          /\ clock'[m].lapsed = clock[m].lapsed
      BY <2>1 DEF Enqueue, EnqueueAs, TypeOK, Clock
    <3> QED BY <2>1, <3>1, <1>m, StaysCalm DEF Enqueue, EnqueueAs, history
  <2>2. CASE BecomeDue(n) \/ Expire(n)
    <3>1. clock'[m].lapsed = clock[m].lapsed
      <4>1. CASE BecomeDue(n)
        BY <4>1 DEF BecomeDue, TypeOK, Clock
      <4>2. CASE Expire(n)
        BY <4>2 DEF Expire, TypeOK, Clock
      <4> QED BY <2>2, <4>1, <4>2
    <3> QED BY <2>2, <3>1, <1>m, StaysCalm DEF BecomeDue, Expire, history
  <2> QED BY <1>1, <2>1, <2>2
<1>2. ASSUME NEW n \in Notices, Lapse(n) PROVE CalmOf(m)'
  <2>1. CASE m = n
    BY <1>2, <2>1, DisturbedIsCalm DEF Lapse, TypeOK
  <2>2. CASE m # n
    BY <1>2, <2>2, <1>m, StaysCalm DEF Lapse, TypeOK
  <2> QED BY <2>1, <2>2
<1>3. ASSUME NEW n \in Notices, Cancel(n) PROVE CalmOf(m)'
  <2>1. CASE DisconnectRead(n)
    BY <2>1, <1>m, StaysCalm DEF DisconnectRead, history
  <2>2. CASE DisconnectWrite(n)
    <3>1. row'[m].status \in {"CANCELLED", row[m].status}
      BY <2>2 DEF DisconnectWrite, TypeOK, Row
    <3> QED BY <2>2, <3>1, <1>m, StaysCalm DEF DisconnectWrite, history
  <2>3. CASE CancelRecovery(n)
    <3>1. row'[m].status \in {"CANCELLED", row[m].status}
      BY <2>3 DEF CancelRecovery, TypeOK, Row
    <3> QED BY <2>3, <3>1, <1>m, StaysCalm DEF CancelRecovery, history
  <2> QED BY <1>3, <2>1, <2>2, <2>3 DEF Cancel
<1>4. ASSUME NEW n \in Notices, Retry(n) PROVE CalmOf(m)'
  <2>1. CASE m = n
    BY <1>4, <2>1, DisturbedIsCalm DEF Retry, TypeOK
  <2>2. CASE m # n
    BY <1>4, <2>2, <1>m, StaysCalm DEF Retry, TypeOK
  <2> QED BY <2>1, <2>2
<1>5. ASSUME NEW w \in Workers, PurgeOnly(w) PROVE CalmOf(m)'
  BY <1>5, <1>m, StaysCalm, PurgedTyped DEF PurgeOnly, history
<1>6. ASSUME NEW w \in Workers, Crash(w) PROVE CalmOf(m)'
  BY <1>6, <1>m, StaysCalmWithout DEF Crash, history
<1>7. ASSUME NEW w \in Workers, Deliver(w) PROVE CalmOf(m)'
  <2>1. CASE Check(w)
    <3>1. UNCHANGED <<row, clock, claims, reached, disturbed>> /\ worker[w].pc = "check"
      BY <2>1 DEF Check, history
    <3>2. CASE worker' = [worker EXCEPT ![w] = Idle]
      BY <3>1, <3>2, <1>m, StaysCalmWithout
    <3>3. CASE worker' # [worker EXCEPT ![w] = Idle]
      <4>1. /\ worker'[w].notice = worker[w].notice /\ worker'[w].token = worker[w].token
            /\ worker'[w].pc # "idle"
        BY <2>1, <3>3 DEF Check, TypeOK, Delivery
      <4>2. \A v \in Workers \ {w} : worker'[v] = worker[v]
        BY <2>1 DEF Check, TypeOK
      <4>3. \A v \in Workers : Active(v, m)' => Active(v, m)
        BY <3>1, <4>1, <4>2 DEF Active
      <4>4. ~disturbed[m] /\ reached[m] = 1 => ~Active(w, m)
        BY <3>1, <1>m DEF CalmOf
      <4> QED BY <3>1, <4>1, <4>2, <4>3, <4>4, <1>m DEF CalmOf
    <3> QED BY <3>2, <3>3
  <2>2. ASSUME NEW arrives \in BOOLEAN, NEW outcome \in {"ok", "refused", "retryable"},
               Send(w, arrives, outcome)
        PROVE  CalmOf(m)'
    <3> DEFINE n == worker[w].notice
    <3>1. n \in Notices /\ Active(w, n)
      BY <2>2 DEF Send, OwnToken, Active
    <3>2. /\ worker'[w].notice = n /\ worker'[w].token = worker[w].token
          /\ worker'[w].pc = "finish" /\ worker'[w].outcome = outcome
          /\ worker[w].pc = "send"
      BY <2>2 DEF Send, TypeOK, Delivery
    <3>3. \A v \in Workers \ {w} : worker'[v] = worker[v]
      BY <2>2 DEF Send, TypeOK
    <3>4. UNCHANGED <<row, clock, claims>>
      BY <2>2 DEF Send
    <3>5. reached'[n] = reached[n] + (IF arrives THEN 1 ELSE 0)
      BY <2>2, <3>1 DEF Send, TypeOK
    <3>6. disturbed'[n] <=> disturbed[n] \/ (arrives /\ outcome # "ok")
      BY <2>2, <3>1 DEF Send, TypeOK
    <3>7. \A k \in Notices \ {n} : reached'[k] = reached[k] /\ disturbed'[k] = disturbed[k]
      BY <2>2 DEF Send, TypeOK
    <3>8. outcome = "ok" => arrives
      BY <2>2 DEF Send
    <3> HIDE DEF n
    <3>9. \A v \in Workers, k \in Notices : Active(v, k)' <=> Active(v, k)
      BY <3>1, <3>2, <3>3 DEF Active
    <3>10. CASE m # n
      <4>1. ~Active(w, m)
        BY <3>1, <3>10 DEF Active
      <4> QED BY <3>3, <3>4, <3>7, <3>9, <3>10, <4>1, <1>m DEF CalmOf
    <3>11. CASE m = n
      <4>0. Active(w, m)
        BY <3>1, <3>11
      <4>1. ~disturbed'[m] => ~disturbed[m] /\ (arrives => outcome = "ok")
        BY <3>6, <3>11
      <4>2. ~disturbed[m] => reached[m] = 0
        BY <4>0, <3>2, <1>m, Numbers DEF CalmOf
      <4>3. ~disturbed[m] => \A v \in Workers : Active(v, m) => v = w
        BY <4>0, <1>m DEF CalmOf, OwnToken
      <4>4. ~disturbed[m] => row[m].status \notin {"ABSENT", "PENDING"}
        BY <4>0, <1>m DEF CalmOf
      <4>5. ~disturbed'[m] => reached'[m] \in {0, 1} /\ (reached'[m] = 1 => outcome = "ok")
        BY <3>5, <3>11, <4>1, <4>2
      <4>6. \A v \in Workers : Active(v, m)' <=> Active(v, m)
        BY <3>9
      <4>7. ~disturbed'[m] => \A v \in Workers : Active(v, m)' => worker'[v].token = claims'[m]
        BY <3>2, <3>4, <4>1, <4>3, <4>6, <1>m DEF CalmOf
      <4>8. ~disturbed'[m] => ~clock'[m].lapsed /\ row'[m].status \notin {"ABSENT", "PENDING"}
        BY <3>4, <4>1, <4>4, <1>m DEF CalmOf
      <4>9. ~disturbed'[m] /\ reached'[m] = 1 => \A v \in Workers : Active(v, m)' =>
               worker'[v].pc = "finish" /\ worker'[v].outcome = "ok"
        BY <3>2, <4>1, <4>3, <4>5, <4>6
      <4> QED BY <4>5, <4>7, <4>8, <4>9 DEF CalmOf
    <3> QED BY <3>10, <3>11
  <2>3. ASSUME NEW again \in BOOLEAN, Finish(w, again) PROVE CalmOf(m)'
    <3> DEFINE n == worker[w].notice
    <3>1. n \in Notices /\ Active(w, n)
      BY <2>3 DEF Finish, OwnToken, Active
    <3>2. UNCHANGED <<claims, reached, disturbed>> /\ worker' = [worker EXCEPT ![w] = Idle]
      BY <2>3 DEF Finish, history
    <3>3. CASE ~Holds(w)
      BY <2>3, <3>2, <3>3, <1>m, StaysCalmWithout DEF Finish
    <3>4. CASE Holds(w)
      <4>f. PICK status \in {"PENDING", "SENT", "FAILED", "CANCELLED"} :
               Finished(w, n, again, status)
        BY <2>3, <3>1, <3>4, FinishWrites
      <4>1. /\ row' = [row EXCEPT ![n] = [row[n] EXCEPT !.status = status, !.token = 0,
                                            !.secret = SecretLeft(w, again)]]
            /\ status = "PENDING" => worker[w].outcome = "retryable"
        BY <4>f DEF Finished
      <4>2. row'[n].status = status /\ \A k \in Notices \ {n} : row'[k] = row[k]
        BY <3>1, <4>1 DEF TypeOK, Row
      <4>c. clock' = [clock EXCEPT ![n] = [clock[n] EXCEPT !.due = FALSE, !.lapsed = FALSE]]
        BY <2>3, <3>1, <3>4 DEF Finish, TypeOK
      <4>3. \A k \in Notices : clock'[k].lapsed => clock[k].lapsed
        BY <3>1, <4>c DEF TypeOK, Clock
      <4>4. ~Active(w, m)' /\ \A v \in Workers \ {w} : worker'[v] = worker[v]
        BY <3>2 DEF Active, Idle, TypeOK
      <4>5. \A v \in Workers : Active(v, m)' => Active(v, m) /\ v # w
        BY <4>4 DEF Active
      <4> HIDE DEF n
      <4>6. CASE m # n
        BY <3>2, <4>2, <4>3, <4>4, <4>5, <4>6, <1>m DEF CalmOf
      <4>7. CASE m = n
        <5>0. Active(w, m)
          BY <3>1, <4>7
        <5>1. ~disturbed[m] => \A v \in Workers : ~Active(v, m)'
          BY <5>0, <4>5, <1>m DEF CalmOf, OwnToken
        <5>2. ~disturbed[m] /\ status = "PENDING" => reached[m] = 0
          BY <5>0, <4>1, <1>m, Numbers DEF CalmOf
        <5>3. row'[m].status = status /\ (clock'[m].lapsed => clock[m].lapsed)
          BY <4>2, <4>3, <4>7
        <5> QED BY <3>2, <5>1, <5>2, <5>3, <1>m DEF CalmOf
      <4> QED BY <4>6, <4>7
    <3> QED BY <3>3, <3>4
  <2> QED BY <1>7, <2>1, <2>2, <2>3 DEF Deliver
<1>8. ASSUME NEW w \in Workers, NEW n \in Notices, Tick(w, n) PROVE CalmOf(m)'
  <2>1. CASE Claim(w, n)
    <3>1. /\ worker'[w].notice = n /\ worker'[w].token = claims[n] + 1
          /\ worker'[w].pc = "check"
      BY <2>1 DEF Claim, TypeOK
    <3>2. \A v \in Workers \ {w} : worker'[v] = worker[v]
      BY <2>1 DEF Claim, TypeOK
    <3>3. UNCHANGED <<reached, disturbed>>
      BY <2>1 DEF Claim, history
    <3>4. \A k \in Notices : claims'[k] = IF k = n THEN claims[k] + 1 ELSE claims[k]
      BY <2>1 DEF Claim, TypeOK
    <3>5. row'[n].status = "PROCESSING" /\ \A k \in Notices \ {n} : row'[k].status = row[k].status
      BY <2>1, PurgedTyped DEF Claim, TypeOK, Row
    <3>6. \A k \in Notices : clock'[k].lapsed => clock[k].lapsed
      BY <2>1 DEF Claim, TypeOK, Clock
    <3>7. worker[w].pc = "idle"
      BY <2>1 DEF Claim
    <3>8. CASE m # n
      <4>1. \A v \in Workers : Active(v, m)' => Active(v, m) /\ v # w
        BY <3>1, <3>2, <3>8 DEF Active
      <4> QED BY <3>2, <3>3, <3>4, <3>5, <3>6, <3>8, <4>1, <1>m DEF CalmOf
    <3>9. CASE m = n
      <4>1. ~disturbed[n] => row[n].status = "PENDING"
        BY <2>1, <3>9, <1>m DEF Claim, Claimable, CalmOf
      <4>2. ~disturbed[n] => reached[n] = 0 /\ \A v \in Workers : ~Active(v, n)
        BY <3>9, <4>1, <1>m DEF CalmOf
      <4>3. ~disturbed[n] => \A v \in Workers : Active(v, n)' => v = w
        BY <3>2, <4>2 DEF Active
      <4> QED BY <3>1, <3>3, <3>4, <3>5, <3>6, <3>9, <4>2, <4>3, <1>m DEF CalmOf
    <3> QED BY <3>8, <3>9
  <2>2. CASE Close(w, n)
    <3>1. row'[m].status \in {"PENDING", "ABSENT"} => row'[m].status = row[m].status
      BY <2>2, PurgedTyped DEF Close, Row
    <3> QED BY <2>2, <3>1, <1>m, StaysCalm DEF Close, history
  <2> QED BY <1>8, <2>1, <2>2 DEF Tick
<1>9. CASE UNCHANGED vars
  BY <1>9, <1>m, StaysCalm DEF vars
<1> QED BY <1>1, <1>2, <1>3, <1>4, <1>5, <1>6, <1>7, <1>8, <1>9 DEF Next

-----------------------------------------------------------------------------
(* The invariant holds at first.                                           *)
LEMMA Initially == OutboxAssumption /\ Init => IInv
<1> SUFFICES ASSUME OutboxAssumption, Init PROVE IInv
  OBVIOUS
<1>1. TypeOK
  <2>1. row \in [Notices -> Row]
    BY DEF Init, OutboxAssumption, Row, Categories
  <2>2. clock \in [Notices -> Clock]
    BY DEF Init, Clock
  <2> QED BY <2>1, <2>2, IdleTyped DEF Init, TypeOK
<1>2. \A w \in Workers : worker[w].pc = "idle"
  BY DEF Init, Idle
<1>3. Counted
  BY AnotherRound DEF Init, Counted, OutboxAssumption
<1>4. OwnToken /\ Calm
  BY <1>2 DEF Init, OwnToken, Calm, Active
<1> QED BY <1>1, <1>3, <1>4 DEF IInv

(* The invariant holds throughout: the step from one state to the next is  *)
(* the four lemmas above.                                                  *)
THEOREM Invariance == Spec => []IInv
<1>1. OutboxAssumption /\ IInv /\ [Next]_vars => IInv'
  BY TypePreserved, CountedPreserved, OwnTokenPreserved, CalmPreserved DEF IInv
<1> QED BY <1>1, Initially, OutboxAssumption, PTL DEF Spec

(* However many workers there are, however they die and whatever leases    *)
(* lapse, a notice is sent at most max_attempts times per round of retries *)
(* (claim, deliver).                                                       *)
THEOREM SendsAreBounded == Spec => []SendsBounded
<1>1. ASSUME OutboxAssumption, IInv PROVE SendsBounded
  <2> SUFFICES ASSUME NEW n \in Notices
               PROVE  /\ \A w \in Workers : worker[w].pc = "send" /\ worker[w].notice = n
                                              => worker[w].token \notin sent[n]
                      /\ Cardinality(sent[n]) <= MaxAttempts * (retries[n] + 1)
    BY DEF SendsBounded
  <2>1. \A w \in Workers : worker[w].pc = "send" /\ worker[w].notice = n
                              => worker[w].token \notin sent[n]
    BY <1>1 DEF IInv, OwnToken, Active
  <2>2. claims[n] \in Nat /\ claims[n] <= MaxAttempts * retries[n] + row[n].attempts
    BY <1>1, Numbers DEF IInv, Counted
  <2>3. row[n].attempts \in 0..MaxAttempts /\ retries[n] \in Nat /\ MaxAttempts \in Nat
    BY <1>1, Numbers DEF IInv, OutboxAssumption
  <2>4. claims[n] <= MaxAttempts * (retries[n] + 1) /\ MaxAttempts * (retries[n] + 1) \in Nat
    BY <1>1, <2>2, <2>3, AnotherRound
  <2>5. IsFiniteSet(1..claims[n]) /\ Cardinality(1..claims[n]) = claims[n]
    BY <2>2, FS_Interval
  <2>6. Cardinality(sent[n]) \in Nat /\ Cardinality(sent[n]) <= claims[n]
    BY <1>1, <2>2, <2>5, FS_Subset, FS_CardinalityType DEF IInv, Counted
  <2> QED BY <2>1, <2>2, <2>4, <2>6
<1> QED BY <1>1, Invariance, OutboxAssumption, PTL

(* No two workers ever deliver one notice twice without one of the three   *)
(* excuses (claim under SKIP LOCKED, the guarded UPDATE of deliver).       *)
THEOREM DuplicatesNeedAnExcuse == Spec => []NoNeedlessDuplicate
<1>1. ASSUME IInv PROVE NoNeedlessDuplicate
  BY <1>1 DEF IInv, Calm, NoNeedlessDuplicate
<1> QED BY <1>1, Invariance, PTL

(* The tokens and the marks keep their types, and no row ever counts more  *)
(* attempts than it has.                                                   *)
THEOREM TypeCorrect == Spec => []TypeOK
<1>1. IInv => TypeOK
  BY DEF IInv
<1> QED BY <1>1, Invariance, PTL

-----------------------------------------------------------------------------
(* All that a step may do to the row m: it is queued, purged, claimed,     *)
(* closed, cancelled, finished by the delivery that holds it, or retried.  *)
Queued(m)    == /\ row[m].status = "ABSENT"
                /\ row'[m].status = "PENDING" /\ row'[m].token = 0
PurgedRow(m) == /\ clock[m].expired /\ ~row'[m].secret
                /\ row'[m].status = row[m].status /\ row'[m].token = row[m].token
Claimed(m)   == /\ row[m].status \in {"PENDING", "PROCESSING"} /\ row'[m].status = "PROCESSING"
                /\ row'[m].token = claims[m] + 1 /\ (row'[m].secret => row[m].secret)
ClosedRow(m) == /\ row[m].status \in {"PENDING", "PROCESSING"}
                /\ row'[m].status \in Closed /\ ~row'[m].secret
CancelledRow(m) == row'[m].status = "CANCELLED" /\ ~row'[m].secret
FinishedBy(w, m) == /\ worker[w].pc = "finish" /\ worker[w].notice = m /\ Holds(w)
                    /\ row'[m].status \in {"PENDING", "SENT", "FAILED", "CANCELLED"}
                    /\ row'[m].secret => /\ row'[m].status = "PENDING"
                                        /\ MayGoAgain(w) /\ worker[w].secret
RetriedRow(m) == Retry(m) /\ row'[m].status = "PENDING" /\ row'[m].secret = row[m].secret

RowChange(m) ==
    \/ row'[m] = row[m] \/ Queued(m) \/ PurgedRow(m) \/ Claimed(m) \/ ClosedRow(m)
    \/ CancelledRow(m) \/ RetriedRow(m) \/ \E w \in Workers : FinishedBy(w, m)

(* A purge does nothing else to a row.                                     *)
LEMMA PurgingChanges ==
    ASSUME TypeOK, NEW m \in Notices, row'[m] = Purged[m]
    PROVE  row'[m] = row[m] \/ PurgedRow(m)
  BY DEF TypeOK, Row, Purged, PurgedRow

(* Every step changes every row in one of these ways.                      *)
LEMMA HowRowsChange ==
    ASSUME OutboxAssumption, IInv, [Next]_vars, NEW m \in Notices
    PROVE  RowChange(m)
<1> USE DEF IInv
<1>q. ASSUME row'[m] = row[m] PROVE RowChange(m)
  BY <1>q DEF RowChange
<1>1. ASSUME NEW n \in Notices, Enqueue(n) PROVE RowChange(m)
  <2>1. CASE m = n
    <3>1. row'[m].status = "PENDING" /\ row'[m].token = 0 /\ row[m].status = "ABSENT"
      BY <1>1, <2>1 DEF Enqueue, EnqueueAs, TypeOK
    <3> QED BY <3>1 DEF RowChange, Queued
  <2>2. CASE m # n
    BY <1>1, <2>2, <1>q DEF Enqueue, EnqueueAs, TypeOK
  <2> QED BY <2>1, <2>2
<1>2. ASSUME NEW n \in Notices, BecomeDue(n) \/ Lapse(n) \/ Expire(n) PROVE RowChange(m)
  BY <1>2, <1>q DEF BecomeDue, Lapse, Expire
<1>3. ASSUME NEW n \in Notices, Cancel(n) PROVE RowChange(m)
  <2>1. CASE DisconnectRead(n)
    BY <2>1, <1>q DEF DisconnectRead
  <2>2. CASE DisconnectWrite(n)
    <3>1. CASE m = n
      <4>1. row'[m].status = "CANCELLED" /\ ~row'[m].secret
        BY <2>2, <3>1 DEF DisconnectWrite, TypeOK, Row
      <4> QED BY <4>1 DEF RowChange, CancelledRow
    <3>2. CASE m # n
      BY <2>2, <3>2, <1>q DEF DisconnectWrite, TypeOK
    <3> QED BY <3>1, <3>2
  <2>3. CASE CancelRecovery(n)
    <3>1. CASE m = n
      <4>1. row'[m].status = "CANCELLED" /\ ~row'[m].secret
        BY <2>3, <3>1 DEF CancelRecovery, TypeOK, Row
      <4> QED BY <4>1 DEF RowChange, CancelledRow
    <3>2. CASE m # n
      BY <2>3, <3>2, <1>q DEF CancelRecovery, TypeOK
    <3> QED BY <3>1, <3>2
  <2> QED BY <1>3, <2>1, <2>2, <2>3 DEF Cancel
<1>4. ASSUME NEW n \in Notices, Retry(n) PROVE RowChange(m)
  <2>1. CASE m = n
    <3>1. row'[m].status = "PENDING" /\ row'[m].secret = row[m].secret
      BY <1>4, <2>1 DEF Retry, TypeOK, Row
    <3> QED BY <1>4, <2>1, <3>1 DEF RowChange, RetriedRow
  <2>2. CASE m # n
    BY <1>4, <2>2, <1>q DEF Retry, TypeOK
  <2> QED BY <2>1, <2>2
<1>5. ASSUME NEW w \in Workers, PurgeOnly(w) PROVE RowChange(m)
  BY <1>5, PurgingChanges DEF PurgeOnly, RowChange
<1>6. ASSUME NEW w \in Workers, Crash(w) PROVE RowChange(m)
  BY <1>6, <1>q DEF Crash
<1>7. ASSUME NEW w \in Workers, Deliver(w) PROVE RowChange(m)
  <2>1. CASE Check(w)
    BY <2>1, <1>q DEF Check
  <2>2. ASSUME NEW arrives \in BOOLEAN, NEW outcome \in {"ok", "refused", "retryable"},
               Send(w, arrives, outcome)
        PROVE  RowChange(m)
    BY <2>2, <1>q DEF Send
  <2>3. ASSUME NEW again \in BOOLEAN, Finish(w, again) PROVE RowChange(m)
    <3>1. worker[w].notice \in Notices /\ worker[w].pc = "finish"
      BY <2>3, DeliveryTyped DEF Finish
    <3>2. CASE ~Holds(w)
      BY <2>3, <3>2, <1>q DEF Finish
    <3>3. CASE Holds(w)
      <4> DEFINE n == worker[w].notice
      <4>f. PICK status \in {"PENDING", "SENT", "FAILED", "CANCELLED"} :
               Finished(w, n, again, status)
        BY <2>3, <3>1, <3>3, FinishWrites
      <4>1. /\ row' = [row EXCEPT ![n] = [row[n] EXCEPT !.status = status, !.token = 0,
                                            !.secret = SecretLeft(w, again)]]
            /\ status = "PENDING" => worker[w].outcome = "retryable"
            /\ again => status = "PENDING"
        BY <4>f DEF Finished
      <4>2. CASE m = n
        <5>1. row'[m].status = status /\ row'[m].secret = SecretLeft(w, again)
          BY <4>1, <4>2 DEF TypeOK, Row
        <5>2. row'[m].secret => status = "PENDING" /\ MayGoAgain(w) /\ worker[w].secret
          BY <2>3, <4>1, <5>1 DEF Finish, SecretLeft
        <5> QED BY <3>1, <3>3, <4>1, <4>2, <5>1, <5>2 DEF RowChange, FinishedBy
      <4>3. CASE m # n
        BY <4>1, <4>3, <1>q DEF TypeOK
      <4> QED BY <4>2, <4>3
    <3> QED BY <3>2, <3>3
  <2> QED BY <1>7, <2>1, <2>2, <2>3 DEF Deliver
<1>8. ASSUME NEW w \in Workers, NEW n \in Notices, Tick(w, n) PROVE RowChange(m)
  <2>1. CASE Claim(w, n)
    <3>1. CASE m = n
      <4>1. row'[m].status = "PROCESSING" /\ row'[m].token = claims[m] + 1
            /\ row'[m].secret = Purged[m].secret
        BY <2>1, <3>1, PurgedTyped DEF Claim, Row
      <4>2. Purged[m].secret => row[m].secret
        BY DEF Purged, TypeOK, Row
      <4>3. row[m].status \in {"PENDING", "PROCESSING"}
        BY <2>1, <3>1 DEF Claim, Claimable
      <4> QED BY <4>1, <4>2, <4>3 DEF RowChange, Claimed
    <3>2. CASE m # n
      BY <2>1, <3>2, PurgedTyped, PurgingChanges DEF Claim, RowChange
    <3> QED BY <3>1, <3>2
  <2>2. CASE Close(w, n)
    <3>1. CASE m = n
      <4>1. row'[m].status \in Closed /\ ~row'[m].secret
        BY <2>2, <3>1, PurgedTyped DEF Close, Row, Closed
      <4>2. row[m].status \in {"PENDING", "PROCESSING"}
        BY <2>2, <3>1 DEF Close, Claimable
      <4> QED BY <4>1, <4>2 DEF RowChange, ClosedRow
    <3>2. CASE m # n
      BY <2>2, <3>2, PurgedTyped, PurgingChanges DEF Close, RowChange
    <3> QED BY <3>1, <3>2
  <2> QED BY <1>8, <2>1, <2>2 DEF Tick
<1>9. CASE UNCHANGED vars
  BY <1>9, <1>q DEF vars
<1> QED BY <1>1, <1>2, <1>3, <1>4, <1>5, <1>6, <1>7, <1>8, <1>9 DEF Next

(* A notice that was cancelled stays cancelled, whatever a stale sender, a *)
(* late disconnect or another claim does (the guarded UPDATE of deliver).  *)
THEOREM CancelledStays == Spec => CancelledIsFinal
<1>1. ASSUME OutboxAssumption, IInv, [Next]_vars, NEW n \in Notices, row[n].status = "CANCELLED"
      PROVE  row'[n].status = "CANCELLED"
  BY <1>1, HowRowsChange, Zenon DEF RowChange, Queued, PurgedRow, Claimed, ClosedRow, CancelledRow,
     RetriedRow, Retry, FinishedBy, Holds
<1>2. OutboxAssumption /\ IInv /\ [Next]_vars =>
         [\A n \in Notices : row[n].status = "CANCELLED" => row'[n].status = "CANCELLED"]_vars
  BY <1>1
<1> QED BY <1>2, Invariance, OutboxAssumption, PTL DEF Spec, CancelledIsFinal

(* A notice that failed is queued again by an administrator or not at all. *)
THEOREM FailedStays == Spec => FailedIsFinal
<1>1. ASSUME OutboxAssumption, IInv, [Next]_vars, NEW n \in Notices, row[n].status = "FAILED"
      PROVE  row'[n].status \in {"FAILED", "CANCELLED"} \/ Retry(n)
  BY <1>1, HowRowsChange DEF RowChange, Queued, PurgedRow, Claimed, ClosedRow, CancelledRow,
     RetriedRow, FinishedBy, Holds
<1>2. OutboxAssumption /\ IInv /\ [Next]_vars =>
         [\A n \in Notices : row[n].status = "FAILED" =>
             row'[n].status \in {"FAILED", "CANCELLED"} \/ Retry(n)]_vars
  BY <1>1
<1> QED BY <1>2, Invariance, OutboxAssumption, PTL DEF Spec, FailedIsFinal

-----------------------------------------------------------------------------
(* A sender that holds its notice and has read its secret knows that the   *)
(* row still has it, unless the notice expired since.                      *)
SecretHeld ==
    \A w \in Workers :
        worker[w].pc \in {"send", "finish"} /\ worker[w].secret /\ Holds(w) =>
            row[worker[w].notice].secret \/ clock[worker[w].notice].expired

(* What has expired stays expired.                                         *)
LEMMA ExpiredStays ==
    ASSUME IInv, [Next]_vars, NEW m \in Notices, clock[m].expired
    PROVE  clock'[m].expired
<1> USE DEF IInv
<1>1. ASSUME NEW n \in Notices,
             Enqueue(n) \/ BecomeDue(n) \/ Lapse(n) \/ Expire(n) \/ Cancel(n) \/ Retry(n)
      PROVE  clock'[m].expired
  <2>1. CASE Enqueue(n) \/ BecomeDue(n) \/ Retry(n)
    BY <2>1 DEF Enqueue, EnqueueAs, BecomeDue, Retry, TypeOK, Clock
  <2>2. CASE Lapse(n) \/ Expire(n)
    BY <2>2 DEF Lapse, Expire, TypeOK, Clock
  <2>3. CASE Cancel(n)
    BY <2>3 DEF Cancel, DisconnectRead, DisconnectWrite, CancelRecovery
  <2> QED BY <1>1, <2>1, <2>2, <2>3
<1>2. ASSUME NEW w \in Workers, PurgeOnly(w) \/ Deliver(w) \/ Crash(w) PROVE clock'[m].expired
  <2>1. CASE PurgeOnly(w) \/ Crash(w) \/ Check(w)
    BY <2>1 DEF PurgeOnly, Crash, Check
  <2>2. ASSUME NEW arrives \in BOOLEAN, NEW outcome \in {"ok", "refused", "retryable"},
               Send(w, arrives, outcome)
        PROVE  clock'[m].expired
    BY <2>2 DEF Send
  <2>3. ASSUME NEW again \in BOOLEAN, Finish(w, again) PROVE clock'[m].expired
    <3> DEFINE n == worker[w].notice
    <3>0. n \in Notices
      BY <2>3, DeliveryTyped DEF Finish
    <3>1. CASE ~Holds(w)
      BY <2>3, <3>1 DEF Finish
    <3>2. CASE Holds(w)
      <4>1. clock' = [clock EXCEPT ![n] = [clock[n] EXCEPT !.due = FALSE, !.lapsed = FALSE]]
        BY <2>3, <3>0, <3>2 DEF Finish, TypeOK
      <4> HIDE DEF n
      <4> QED BY <3>0, <4>1 DEF TypeOK, Clock
    <3> QED BY <3>1, <3>2
  <2> QED BY <1>2, <2>1, <2>2, <2>3 DEF Deliver
<1>3. ASSUME NEW w \in Workers, NEW n \in Notices, Tick(w, n) PROVE clock'[m].expired
  BY <1>3 DEF Tick, Claim, Close, TypeOK, Clock
<1>4. CASE UNCHANGED vars
  BY <1>4 DEF vars
<1> QED BY <1>1, <1>2, <1>3, <1>4 DEF Next

(* A row under the token of a delivery was so before the step already.     *)
LEMMA HeldBefore ==
    ASSUME OutboxAssumption, IInv, [Next]_vars, NEW w \in Workers,
           worker[w].pc # "idle", worker'[w].notice = worker[w].notice,
           worker'[w].token = worker[w].token, Holds(w)'
    PROVE  LET m == worker[w].notice IN
           Holds(w) /\ (row'[m].secret = row[m].secret \/ clock[m].expired)
<1> DEFINE m == worker[w].notice
<1>1. m \in Notices /\ worker[w].token \in 1..claims[m] /\ claims[m] \in Nat
  BY Numbers DEF IInv, OwnToken, Active
<1>2. row'[m].status = "PROCESSING" /\ row'[m].token = worker[w].token
  BY DEF Holds
<1>3. RowChange(m)
  BY <1>1, HowRowsChange
<1>4. row'[m] = row[m] \/ PurgedRow(m)
  <2>1. ~Claimed(m)
    BY <1>1, <1>2 DEF Claimed
  <2>2. ~Queued(m) /\ ~ClosedRow(m) /\ ~CancelledRow(m) /\ ~RetriedRow(m)
    BY <1>2 DEF Queued, ClosedRow, Closed, CancelledRow, RetriedRow
  <2>3. \A v \in Workers : ~FinishedBy(v, m)
    BY <1>2 DEF FinishedBy
  <2> QED BY <1>3, <2>1, <2>2, <2>3 DEF RowChange
<1> QED BY <1>2, <1>4 DEF PurgedRow, Holds

(* Closed rows hold no secret, and senders know what became of theirs.     *)
SecretsInv == ClosedHoldsNoSecret /\ SecretHeld

(* Both are kept by every step.                                            *)
LEMMA SecretsPreserved ==
    ASSUME OutboxAssumption, IInv, SecretsInv, [Next]_vars PROVE SecretsInv'
<1>1. ClosedHoldsNoSecret'
  <2> SUFFICES ASSUME NEW n \in Notices, row'[n].status \in Closed PROVE ~row'[n].secret
    BY DEF ClosedHoldsNoSecret
  <2>1. RowChange(n)
    BY HowRowsChange
  <2> QED BY <2>1 DEF RowChange, Queued, PurgedRow, Claimed, ClosedRow, CancelledRow,
       RetriedRow, FinishedBy, SecretsInv, ClosedHoldsNoSecret, Closed
<1>2. SecretHeld'
  <2> SUFFICES ASSUME NEW w \in Workers,
                      worker'[w].pc \in {"send", "finish"}, worker'[w].secret, Holds(w)'
               PROVE  row'[worker'[w].notice].secret \/ clock'[worker'[w].notice].expired
    BY DEF SecretHeld
  <2>1. ASSUME worker'[w].notice = worker[w].notice, worker'[w].token = worker[w].token,
               worker'[w].secret = worker[w].secret, worker[w].pc \in {"send", "finish"}
        PROVE  row'[worker'[w].notice].secret \/ clock'[worker'[w].notice].expired
    <3>1. worker[w].notice \in Notices
      BY <2>1 DEF IInv, OwnToken
    <3>2. Holds(w) /\ (row'[worker[w].notice].secret = row[worker[w].notice].secret
                         \/ clock[worker[w].notice].expired)
      BY <2>1, HeldBefore
    <3>3. row[worker[w].notice].secret \/ clock[worker[w].notice].expired
      BY <2>1, <3>2 DEF SecretsInv, SecretHeld
    <3> QED BY <2>1, <3>1, <3>2, <3>3, ExpiredStays
  <2>2. ASSUME worker'[w] = worker[w]
        PROVE  row'[worker'[w].notice].secret \/ clock'[worker'[w].notice].expired
    BY <2>1, <2>2
  <2>3. CASE Deliver(w)
    <3>1. CASE Check(w)
      <4>1. worker'[w].secret = row[worker[w].notice].secret
            /\ worker'[w].notice = worker[w].notice /\ row' = row
        <5>1. worker'[w] # Idle
          BY DEF Idle
        <5>2. worker[w] \in Delivery /\ row' = row
          BY <3>1 DEF Check, IInv, TypeOK
        <5>3. \/ worker' = [worker EXCEPT ![w].pc = "finish", ![w].outcome = "ineligible",
                                          ![w].secret = row[worker[w].notice].secret]
              \/ worker' = [worker EXCEPT ![w].pc = "send",
                                          ![w].secret = row[worker[w].notice].secret]
          BY <3>1, <5>1 DEF Check, IInv, TypeOK
        <5>4. worker \in [Workers -> Delivery]
          BY DEF IInv, TypeOK
        <5>5. CASE worker' = [worker EXCEPT ![w].pc = "send",
                                          ![w].secret = row[worker[w].notice].secret]
          BY <5>2, <5>4, <5>5 DEF Delivery
        <5>6. CASE worker' = [worker EXCEPT ![w].pc = "finish", ![w].outcome = "ineligible",
                                          ![w].secret = row[worker[w].notice].secret]
          BY <5>2, <5>4, <5>6 DEF Delivery
        <5> QED BY <5>3, <5>5, <5>6
      <4> QED BY <4>1
    <3>2. ASSUME NEW arrives \in BOOLEAN, NEW outcome \in {"ok", "refused", "retryable"},
                 Send(w, arrives, outcome)
          PROVE  row'[worker'[w].notice].secret \/ clock'[worker'[w].notice].expired
      <4>1. worker[w].pc = "send" /\ worker[w] \in Delivery
        BY <3>2 DEF Send, IInv, TypeOK
      <4>2. /\ worker'[w].notice = worker[w].notice /\ worker'[w].token = worker[w].token
            /\ worker'[w].secret = worker[w].secret /\ UNCHANGED <<row, clock>>
        BY <3>2, <4>1 DEF Send, IInv, TypeOK, Delivery
      <4> QED BY <2>1, <4>1, <4>2
    <3>3. ASSUME NEW again \in BOOLEAN, Finish(w, again)
          PROVE  row'[worker'[w].notice].secret \/ clock'[worker'[w].notice].expired
      <4>1. worker'[w] = Idle
        BY <3>3 DEF Finish, IInv, TypeOK
      <4> QED BY <4>1 DEF Idle
    <3> QED BY <2>3, <3>1, <3>2, <3>3 DEF Deliver
  <2>4. CASE Crash(w)
    BY <2>4 DEF Crash, Idle, IInv, TypeOK
  <2>5. ASSUME NEW n \in Notices, Tick(w, n)
        PROVE  row'[worker'[w].notice].secret \/ clock'[worker'[w].notice].expired
    BY <2>2, <2>5 DEF Tick, Claim, Close, IInv, TypeOK
  <2>6. ASSUME NEW v \in Workers \ {w},
               PurgeOnly(v) \/ Deliver(v) \/ Crash(v) \/ \E n \in Notices : Tick(v, n)
        PROVE  row'[worker'[w].notice].secret \/ clock'[worker'[w].notice].expired
    <3>1. worker'[w] = worker[w]
      <4>1. CASE PurgeOnly(v) \/ Crash(v) \/ Check(v)
        BY <4>1 DEF PurgeOnly, Crash, Check, IInv, TypeOK
      <4>2. ASSUME NEW arrives \in BOOLEAN, NEW outcome \in {"ok", "refused", "retryable"},
                   Send(v, arrives, outcome)
            PROVE  worker'[w] = worker[w]
        BY <4>2 DEF Send, IInv, TypeOK
      <4>3. ASSUME NEW again \in BOOLEAN, Finish(v, again) PROVE worker'[w] = worker[w]
        BY <4>3 DEF Finish, IInv, TypeOK
      <4>4. CASE \E n \in Notices : Tick(v, n)
        BY <4>4 DEF Tick, Claim, Close, IInv, TypeOK
      <4> QED BY <2>6, <4>1, <4>2, <4>3, <4>4 DEF Deliver
    <3> QED BY <2>2, <3>1
  <2>7. CASE PurgeOnly(w)
    BY <2>2, <2>7 DEF PurgeOnly
  <2>8. ASSUME NEW n \in Notices,
               Enqueue(n) \/ BecomeDue(n) \/ Lapse(n) \/ Expire(n) \/ Cancel(n) \/ Retry(n)
        PROVE  row'[worker'[w].notice].secret \/ clock'[worker'[w].notice].expired
    BY <2>2, <2>8 DEF Enqueue, EnqueueAs, BecomeDue, Lapse, Expire, Cancel, DisconnectRead, DisconnectWrite,
       CancelRecovery, Retry
  <2>9. CASE UNCHANGED vars
    BY <2>2, <2>9 DEF vars
  <2>10. CASE \E v \in Workers : PurgeOnly(v) \/ Deliver(v) \/ Crash(v)
                                \/ \E n \in Notices : Tick(v, n)
    <3>1. PICK v \in Workers : PurgeOnly(v) \/ Deliver(v) \/ Crash(v)
                              \/ \E n \in Notices : Tick(v, n)
      BY <2>10
    <3>2. CASE v = w
      BY <2>3, <2>4, <2>5, <2>7, <3>1, <3>2
    <3>3. CASE v # w
      BY <2>6, <3>1, <3>3
    <3> QED BY <3>2, <3>3
  <2> QED BY <2>8, <2>9, <2>10 DEF Next
<1> QED BY <1>1, <1>2 DEF SecretsInv

(* No row that is closed keeps the recovery link.                          *)
THEOREM SecretsHold == Spec => []SecretsInv
<1>1. Init => SecretsInv
  BY DEF Init, SecretsInv, ClosedHoldsNoSecret, SecretHeld, Idle, Closed
<1>2. OutboxAssumption /\ IInv /\ SecretsInv /\ [Next]_vars => SecretsInv'
  BY SecretsPreserved
<1> QED BY <1>1, <1>2, Invariance, OutboxAssumption, PTL DEF Spec

(* The closed rows' part of it.                                            *)
THEOREM ClosedRowsHoldNoSecret == Spec => []ClosedHoldsNoSecret
<1>1. SecretsInv => ClosedHoldsNoSecret
  BY DEF SecretsInv
<1> QED BY <1>1, SecretsHold, PTL

(* A recovery link that was purged is never written back by a sender that  *)
(* had read it (claim's purge, the retry branch of deliver).               *)
THEOREM PurgedLinkStaysPurged == Spec => PurgedSecretStaysPurged
<1>1. ASSUME OutboxAssumption, IInv, SecretsInv, [Next]_vars,
             NEW n \in Notices, row[n].status # "ABSENT", ~row[n].secret
      PROVE  ~row'[n].secret
  <2>1. RowChange(n)
    BY <1>1, HowRowsChange
  <2>2. ASSUME NEW w \in Workers, FinishedBy(w, n) PROVE ~row'[n].secret
    BY <1>1, <2>2 DEF FinishedBy, MayGoAgain, SecretsInv, SecretHeld
  <2> QED BY <1>1, <2>1, <2>2 DEF RowChange, Queued, PurgedRow, Claimed, ClosedRow, CancelledRow,
       RetriedRow
<1>2. OutboxAssumption /\ IInv /\ SecretsInv /\ [Next]_vars =>
         [\A n \in Notices :
             row[n].status # "ABSENT" /\ ~row[n].secret => ~row'[n].secret]_vars
  BY <1>1
<1> QED BY <1>2, Invariance, SecretsHold, OutboxAssumption, PTL
         DEF Spec, PurgedSecretStaysPurged
=============================================================================
