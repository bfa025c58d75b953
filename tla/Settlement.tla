----------------------------- MODULE Settlement -----------------------------
(***************************************************************************)
(* What the finance subledger promises its users, without transactions,    *)
(* locks or the ledger: every document lives DRAFT -> POSTED -> REVERSED,  *)
(* its terms change only as a draft, and a payment settles an invoice in   *)
(* one indivisible step, within the totals of both.                        *)
(***************************************************************************)
EXTENDS Naturals

CONSTANTS Payments, Invoices, Keys, Payload, Totals,
          Sum(_)      \* Sum(ks): what the allocations under ks add up to

Doc == Payments \cup Invoices

VARIABLES status, total, allocs
vars == <<status, total, allocs>>

Joins(k, d) == d \in {Payload[k].payment, Payload[k].target}
Settled(d) == Sum({k \in allocs : Joins(k, d)})

Init ==
    /\ status = [d \in Doc |-> "ABSENT"]
    /\ total = [d \in Doc |-> 0]
    /\ allocs = {}

(* A draft appears or is revised. *)
Draft(d, t) ==
    /\ status[d] \in {"ABSENT", "DRAFT"}
    /\ status' = [status EXCEPT ![d] = "DRAFT"]
    /\ total' = [total EXCEPT ![d] = t]
    /\ UNCHANGED allocs

Discard(d) ==
    /\ status[d] = "DRAFT"
    /\ status' = [status EXCEPT ![d] = "ERASED"]
    /\ total' = [total EXCEPT ![d] = 0]
    /\ UNCHANGED allocs

PostDocument(d) ==
    /\ status[d] = "DRAFT"
    /\ status' = [status EXCEPT ![d] = "POSTED"]
    /\ UNCHANGED <<total, allocs>>

Settle(k) ==
    /\ k \notin allocs
    /\ \A d \in {Payload[k].payment, Payload[k].target} :
          status[d] = "POSTED" /\ Payload[k].amount + Settled(d) <= total[d]
    /\ allocs' = allocs \cup {k}
    /\ UNCHANGED <<status, total>>

(* A reversal gives every settlement of the document back. *)
ReverseDocument(d) ==
    /\ status[d] = "POSTED"
    /\ status' = [status EXCEPT ![d] = "REVERSED"]
    /\ allocs' = {k \in allocs : ~Joins(k, d)}
    /\ UNCHANGED total

Next ==
    \/ \E d \in Doc : \/ \E t \in Totals : Draft(d, t)
                      \/ Discard(d) \/ PostDocument(d) \/ ReverseDocument(d)
    \/ \E k \in Keys : Settle(k)

Spec == Init /\ [][Next]_vars
=============================================================================
