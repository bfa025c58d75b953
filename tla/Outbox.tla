------------------------------- MODULE Outbox -------------------------------
(***************************************************************************)
(* The Telegram outbox (backend/app/modules/telegram/outbox.py): notices   *)
(* queued by business transactions, claimed under a lease by the workers   *)
(* of the API processes, sent over the network and then recorded.          *)
(*                                                                         *)
(* A claim is one transaction under SKIP LOCKED row locks, so for each row *)
(* it is one step.  A delivery is not: its first read, its send and its    *)
(* final UPDATE are separate steps, and between them the lease may lapse,  *)
(* the notice expire, the recipient disconnect or the process die.         *)
(***************************************************************************)
EXTENDS Integers, FiniteSets

CONSTANTS
    Notices,      \* rows of notification_outbox
    Workers,      \* deliveries that may be under way at once (bound)
    MaxAttempts,  \* max_attempts of every row
    MaxRetries,   \* manual retries of a row (bound)
    NoNotice

ASSUME OutboxAssumption ==
    /\ MaxAttempts \in Nat \ {0}
    /\ MaxRetries \in Nat
    /\ NoNotice \notin Notices

VARIABLES
    row,        \* the committed rows; token 0 is NULL
    claims,     \* how often each row was claimed: a claim's token is its
                \* number, since a random token is never drawn twice
    clock,      \* what the clock says of next_attempt_at, locked_until, expires_at
    worker,     \* each delivery
    cancelling, \* the claim_token that a disconnect read in each row
    sent,       \* history: the tokens under which a row was sent
    reached,    \* history: how often the message reached its chat
    retries,    \* manual retries so far
    disturbed   \* history: a lease lapsed, an answer was lost, or it was retried

vars == <<row, claims, clock, worker, cancelling, sent, reached, retries, disturbed>>
history == <<sent, reached, disturbed>>

Closed == {"SENT", "FAILED", "CANCELLED"}
(* A recovery notice carries a secret, the reset link; every other notice  *)
(* (to an administrators' group, or to a user) is an alert here.           *)
Categories == {"recovery", "alert"}
Row == [status : {"ABSENT", "PENDING", "PROCESSING"} \cup Closed, category : Categories,
        attempts : 0..MaxAttempts, token : Nat, secret : BOOLEAN]
Clock == [due : BOOLEAN, lapsed : BOOLEAN, expired : BOOLEAN]
Outcomes == {"none", "ineligible", "ok", "refused", "retryable"}
Delivery == [pc : {"idle", "check", "send", "finish"}, notice : Notices \cup {NoNotice},
             token : Nat, secret : BOOLEAN, outcome : Outcomes]
Idle == [pc |-> "idle", notice |-> NoNotice, token |-> 0, secret |-> FALSE,
         outcome |-> "none"]
NotCancelling == 0 - 1

-----------------------------------------------------------------------------
(* enqueue_private, enqueue_admin: part of the business transaction.       *)
EnqueueAs(n, category) ==
    /\ row[n].status = "ABSENT"
    /\ row' = [row EXCEPT ![n] = [status |-> "PENDING", category |-> category,
                                  attempts |-> 0, token |-> 0,
                                  secret |-> category = "recovery"]]
    /\ clock' = [clock EXCEPT ![n].due = TRUE]
    /\ UNCHANGED <<claims, worker, cancelling, retries, history>>

Enqueue(n) == \E category \in Categories : EnqueueAs(n, category)

(* Time passes next_attempt_at, locked_until and expires_at.               *)
BecomeDue(n) ==
    /\ row[n].status = "PENDING" /\ ~clock[n].due
    /\ clock' = [clock EXCEPT ![n].due = TRUE]
    /\ UNCHANGED <<row, claims, worker, cancelling, retries, history>>
Lapse(n) ==
    /\ row[n].status = "PROCESSING" /\ ~clock[n].lapsed
    /\ clock' = [clock EXCEPT ![n].lapsed = TRUE]
    /\ disturbed' = [disturbed EXCEPT ![n] = TRUE]
    /\ UNCHANGED <<row, claims, worker, cancelling, retries, sent, reached>>
Expire(n) ==
    /\ row[n].status # "ABSENT" /\ ~clock[n].expired
    /\ clock' = [clock EXCEPT ![n].expired = TRUE]
    /\ UNCHANGED <<row, claims, worker, cancelling, retries, history>>

-----------------------------------------------------------------------------
(* Mutant: a lease that is not waited for.                                 *)
ClaimableAnytime(n) == \/ row[n].status = "PENDING" /\ clock[n].due
                       \/ row[n].status = "PROCESSING"
(* Mutant: a lapsed lease that nobody takes over.                          *)
ClaimableOnce(n) == row[n].status = "PENDING" /\ clock[n].due
Claimable(n) == \/ row[n].status = "PENDING" /\ clock[n].due
                \/ row[n].status = "PROCESSING" /\ clock[n].lapsed

(* Every claim first purges the secrets of all expired rows.               *)
Purged == [n \in Notices |-> IF clock[n].expired THEN [row[n] EXCEPT !.secret = FALSE]
                                                 ELSE row[n]]

(* Mutant: the limit checked after one attempt too many.                   *)
OverExhausted(n) == row[n].attempts > MaxAttempts
Exhausted(n) == row[n].attempts >= MaxAttempts

(* Claim a row for sending: a new token, a new lease, one more attempt.    *)
Claim(w, n) ==
    /\ worker[w].pc = "idle" /\ Claimable(n)
    /\ ~clock[n].expired /\ ~Exhausted(n)
    /\ row' = [Purged EXCEPT ![n].status = "PROCESSING", ![n].attempts = @ + 1,
                             ![n].token = claims[n] + 1]
    /\ claims' = [claims EXCEPT ![n] = @ + 1]
    /\ clock' = [clock EXCEPT ![n].lapsed = FALSE]
    /\ worker' = [worker EXCEPT ![w] = [pc |-> "check", notice |-> n,
                    token |-> claims[n] + 1, secret |-> FALSE, outcome |-> "none"]]
    /\ UNCHANGED <<cancelling, retries, history>>

(* A claimable row that expired or used up its attempts is closed; its     *)
(* token stays where it is.                                                *)
Close(w, n) ==
    /\ worker[w].pc = "idle" /\ Claimable(n)
    /\ clock[n].expired \/ Exhausted(n)
    /\ row' = [Purged EXCEPT ![n].status = IF clock[n].expired THEN "CANCELLED" ELSE "FAILED",
                             ![n].secret = FALSE]
    /\ UNCHANGED <<claims, clock, worker, cancelling, retries, history>>

(* A tick that finds nothing to claim still purges.                        *)
PurgeOnly(w) ==
    /\ worker[w].pc = "idle"
    /\ row' = Purged
    /\ UNCHANGED <<claims, clock, worker, cancelling, retries, history>>

-----------------------------------------------------------------------------
(* Mutant: the row is looked up by its id alone.                           *)
HoldsAny(w) == row[worker[w].notice].status # "ABSENT"
(* The row is still this delivery's: PROCESSING, under its token.          *)
Holds(w) == /\ row[worker[w].notice].status = "PROCESSING"
            /\ row[worker[w].notice].token = worker[w].token

(* deliver reads the row and lets go of it if it is not its own; else it   *)
(* decides, from settings, link and reset token, whether it may be sent.   *)
Check(w) ==
    LET n == worker[w].notice IN
    /\ worker[w].pc = "check"
    /\ \/ ~Holds(w) /\ worker' = [worker EXCEPT ![w] = Idle]
       \/ /\ Holds(w)
          /\ worker' = [worker EXCEPT ![w].pc = "finish", ![w].outcome = "ineligible",
                                      ![w].secret = row[n].secret]
       \/ /\ Holds(w) /\ ~clock[n].expired
          /\ worker' = [worker EXCEPT ![w].pc = "send", ![w].secret = row[n].secret]
    /\ UNCHANGED <<row, claims, clock, cancelling, retries, history>>

(* The message arrives or not, and the answer is success, a refusal, or an *)
(* error worth a retry; a lost or unreadable answer may hide a success.    *)
Send(w, arrives, outcome) ==
    LET n == worker[w].notice IN
    /\ worker[w].pc = "send"
    /\ outcome = "ok" => arrives
    /\ sent' = [sent EXCEPT ![n] = @ \cup {worker[w].token}]
    /\ reached' = [reached EXCEPT ![n] = @ + IF arrives THEN 1 ELSE 0]
    /\ disturbed' = [disturbed EXCEPT ![n] = @ \/ (arrives /\ outcome # "ok")]
    /\ worker' = [worker EXCEPT ![w].pc = "finish", ![w].outcome = outcome]
    /\ UNCHANGED <<row, claims, clock, cancelling, retries>>

(* A retry must be due before the row expires.                             *)
MayGoAgain(w) == /\ worker[w].outcome = "retryable"
                 /\ ~Exhausted(worker[w].notice)
                 /\ ~clock[worker[w].notice].expired

(* Mutant: the secret written back whatever became of the delivery.        *)
SecretAsRead(w, again) == worker[w].secret
(* Only a retry writes the secret back, as it was read.                    *)
SecretLeft(w, again) == again /\ worker[w].secret

(* The final UPDATE, guarded by id, token and status.                      *)
Finish(w, again) ==
    LET n == worker[w].notice
        new == CASE worker[w].outcome = "ok" -> "SENT"
                 [] worker[w].outcome = "ineligible" -> "CANCELLED"
                 [] again -> "PENDING"
                 [] OTHER -> "FAILED"
    IN
    /\ worker[w].pc = "finish"
    /\ again => MayGoAgain(w)
    /\ IF Holds(w)
       THEN /\ row' = [row EXCEPT ![n].status = new, ![n].token = 0,
                                  ![n].secret = SecretLeft(w, again)]
            /\ clock' = [clock EXCEPT ![n].due = FALSE, ![n].lapsed = FALSE]
       ELSE UNCHANGED <<row, clock>>
    /\ worker' = [worker EXCEPT ![w] = Idle]
    /\ UNCHANGED <<claims, cancelling, retries, history>>

(* The process dies, or is stopped, in the middle of a delivery.           *)
Crash(w) ==
    /\ worker[w].pc # "idle"
    /\ worker' = [worker EXCEPT ![w] = Idle]
    /\ UNCHANGED <<row, claims, clock, cancelling, retries, history>>

-----------------------------------------------------------------------------
(* private_disconnect: the open recovery rows are read without a lock ...  *)
DisconnectRead(n) ==
    /\ row[n].category = "recovery" /\ cancelling[n] = NotCancelling
    /\ row[n].status \in {"PENDING", "PROCESSING"}
    /\ cancelling' = [cancelling EXCEPT ![n] = row[n].token]
    /\ UNCHANGED <<row, claims, clock, worker, retries, history>>

(* ... and written by id: whatever they have become, and with the token    *)
(* only when one was read, since an unchanged NULL is not written.         *)
DisconnectWrite(n) ==
    /\ cancelling[n] # NotCancelling
    /\ row' = [row EXCEPT ![n].status = "CANCELLED", ![n].secret = FALSE,
                          ![n].token = IF cancelling[n] = 0 THEN @ ELSE 0]
    /\ cancelling' = [cancelling EXCEPT ![n] = NotCancelling]
    /\ UNCHANGED <<claims, clock, worker, retries, history>>

(* Turning recovery off in the settings: one UPDATE guarded by status.     *)
CancelRecovery(n) ==
    /\ row[n].category = "recovery" /\ row[n].status \in {"PENDING", "PROCESSING"}
    /\ row' = [row EXCEPT ![n].status = "CANCELLED", ![n].secret = FALSE, ![n].token = 0]
    /\ UNCHANGED <<claims, clock, worker, cancelling, retries, history>>

(* An administrator retries a failed notice; its token stays.              *)
Retry(n) ==
    /\ row[n].status = "FAILED" /\ row[n].category # "recovery"
    /\ ~row[n].secret /\ ~clock[n].expired
    /\ retries[n] < MaxRetries
    /\ row' = [row EXCEPT ![n].status = "PENDING", ![n].attempts = 0]
    /\ clock' = [clock EXCEPT ![n].due = TRUE]
    /\ retries' = [retries EXCEPT ![n] = @ + 1]
    /\ disturbed' = [disturbed EXCEPT ![n] = TRUE]
    /\ UNCHANGED <<claims, worker, cancelling, sent, reached>>

-----------------------------------------------------------------------------
Init ==
    /\ row = [n \in Notices |-> [status |-> "ABSENT", category |-> "alert",
                                 attempts |-> 0, token |-> 0, secret |-> FALSE]]
    /\ claims = [n \in Notices |-> 0]
    /\ clock = [n \in Notices |-> [due |-> FALSE, lapsed |-> FALSE, expired |-> FALSE]]
    /\ worker = [w \in Workers |-> Idle]
    /\ cancelling = [n \in Notices |-> NotCancelling]
    /\ sent = [n \in Notices |-> {}]
    /\ reached = [n \in Notices |-> 0]
    /\ retries = [n \in Notices |-> 0]
    /\ disturbed = [n \in Notices |-> FALSE]

Deliver(w) ==
    \/ Check(w)
    \/ \E arrives \in BOOLEAN, outcome \in {"ok", "refused", "retryable"} :
          Send(w, arrives, outcome)
    \/ \E again \in BOOLEAN : Finish(w, again)
Tick(w, n) == Claim(w, n) \/ Close(w, n)
Cancel(n) == DisconnectRead(n) \/ DisconnectWrite(n) \/ CancelRecovery(n)

Next ==
    \/ \E n \in Notices : \/ Enqueue(n) \/ BecomeDue(n) \/ Lapse(n) \/ Expire(n)
                          \/ Cancel(n) \/ Retry(n)
    \/ \E w \in Workers : \/ PurgeOnly(w) \/ Deliver(w) \/ Crash(w)
                          \/ \E n \in Notices : Tick(w, n)

Spec == Init /\ [][Next]_vars

(* The worker loop ticks every 15 seconds, oldest rows first, the bounded  *)
(* network call returns, and delays and leases run out.  Nothing obliges a *)
(* user, an administrator or the expiry, and any delivery may crash.       *)
FairSpec ==
    /\ Spec
    /\ \A w \in Workers : WF_vars(Deliver(w))
    /\ \A n \in Notices : /\ SF_vars(\E w \in Workers : Tick(w, n))
                          /\ WF_vars(BecomeDue(n)) /\ WF_vars(Lapse(n))
                          /\ WF_vars(DisconnectWrite(n))
    /\ SF_vars(\E w \in Workers : PurgeOnly(w))

-----------------------------------------------------------------------------
(* Properties.                                                             *)

TypeOK ==
    /\ row \in [Notices -> Row]
    /\ claims \in [Notices -> Nat]
    /\ clock \in [Notices -> Clock]
    /\ worker \in [Workers -> Delivery]
    /\ cancelling \in [Notices -> Nat \cup {NotCancelling}]
    /\ sent \in [Notices -> SUBSET (Nat \ {0})]
    /\ reached \in [Notices -> Nat]
    /\ retries \in [Notices -> Nat]
    /\ disturbed \in [Notices -> BOOLEAN]

(* Whatever lapses, crashes or is sent again, a notice is sent at most     *)
(* max_attempts times, and as often again for each manual retry: a claim   *)
(* never sends twice and every claim is counted (claim, deliver).          *)
SendsBounded ==
    \A n \in Notices :
        /\ \A w \in Workers : worker[w].pc = "send" /\ worker[w].notice = n
                                 => worker[w].token \notin sent[n]
        /\ Cardinality(sent[n]) <= MaxAttempts * (retries[n] + 1)

(* A message arrives twice only after a lease lapsed, an answer was lost   *)
(* or an administrator asked for it: never because two workers claimed one *)
(* notice, or one claim was delivered twice (claim under SKIP LOCKED).     *)
NoNeedlessDuplicate ==
    \A n \in Notices : ~disturbed[n] => reached[n] <= 1

(* "A disconnect or a reclaimed lease must not be overwritten by a stale   *)
(* sender": a cancelled notice is never sent, failed or queued again.      *)
CancelledIsFinal ==
    [][\A n \in Notices : row[n].status = "CANCELLED" => row'[n].status = "CANCELLED"]_vars

(* And a failed one is queued again by an administrator only: a sender     *)
(* whose notice was closed for want of attempts cannot revive it.          *)
FailedIsFinal ==
    [][\A n \in Notices : row[n].status = "FAILED" =>
          row'[n].status \in {"FAILED", "CANCELLED"} \/ Retry(n)]_vars

(* No closed notice keeps the recovery link.                               *)
ClosedHoldsNoSecret == \A n \in Notices : row[n].status \in Closed => ~row[n].secret

(* "Sensitive retries never outlive delivery TTL": when a secret was       *)
(* purged, no sender that had read it before writes it back (deliver).     *)
PurgedSecretStaysPurged ==
    [][\A n \in Notices :
          row[n].status # "ABSENT" /\ ~row[n].secret => ~row'[n].secret]_vars

(* Every notice is sent, fails or is cancelled in the end.                 *)
EveryNoticeCloses ==
    \A n \in Notices : row[n].status = "PENDING" ~> row[n].status \in Closed

=============================================================================
