----------------------------- MODULE MCBilling -----------------------------
(* Small instances of Billing for TLC.  "actors" are the requests that act  *)
(* in a behaviour, so that one run holds the behaviours where commands      *)
(* overlap and those where one command runs after the other.                *)
EXTENDS Billing, TLC

CONSTANTS c1, c2, r1, r2,
    MaxShared   \* bound on invoices where requests overlap

VARIABLE actors

BillingInit == Init /\ actors \in SUBSET Requests \ {{}}
BillingNext ==
    /\ Next /\ UNCHANGED actors
    /\ \A r \in Requests \ actors : pc'[r] = "idle"
    /\ Cardinality(actors) > 1 => Cardinality(invoices') <= MaxShared
BillingSpec == BillingInit /\ [][BillingNext]_<<vars, actors>>

(* FR-108 where no two commands overlap: a charge is billed by at most one  *)
(* invoice that stands, through issuing, billing it alone and billing its   *)
(* order in any order, with posting, reversal and deletion in between       *)
(* (create_invoice_from_charge, create_invoice_from_service_order).         *)
LoneCommandsBillOnce == (\E r \in Requests : actors = {r}) => BilledOnce

Interchangeable == Permutations({r1, r2}) \cup Permutations({c1, c2})
=============================================================================
