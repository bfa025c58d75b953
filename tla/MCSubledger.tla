---------------------------- MODULE MCSubledger ----------------------------
(* Small instances of Subledger for TLC: which request may do what, and    *)
(* which allocation the client sends under each key.                       *)
EXTENDS Subledger, TLC

CONSTANTS p1, p2, i1, r1, r2, k1, k2, k3, past, today

Pay(p, i, n) == [payment |-> p, target |-> i, amount |-> n]

OneKey == k1 :> Pay(p1, i1, 1)
(* Two payments settle one invoice, one unit each.                         *)
TwoKeys == k1 :> Pay(p1, i1, 1) @@ k2 :> Pay(p2, i1, 1)
(* k3 would fit the invoice only if k2 were forgotten.                     *)
ThreeKeys == TwoKeys @@ k3 :> Pay(p2, i1, 2)

OnePeriod == [d \in Doc |-> today]
(* Invoices are dated in an earlier period than the payments.              *)
TwoPeriods == [d \in Doc |-> IF d \in Invoices THEN past ELSE today]

(* Every operation beside every other.                                     *)
Anything == [r \in {r1, r2} |-> Operations]
(* r1 runs the document's whole life beside r2's allocations; only r1      *)
(* saves and posts, so a save never overlaps a posting.                    *)
AccountantAndCashier == r1 :> {"post", "reverse", "edit", "allocate"} @@ r2 :> {"allocate"}
(* An edit overlaps a posting.                                             *)
EditorAndPoster == r1 :> {"edit"} @@ r2 :> {"post"}
(* A reversal overlaps an allocation.                                      *)
ReverserAndCashier == r1 :> {"reverse"} @@ r2 :> {"post", "allocate"}
=============================================================================
