----------------------------- MODULE MCFreight -----------------------------
(* Quotations, Orders and Capture on small instances.  They share no       *)
(* variable, so their interleaving adds nothing: a behaviour runs one of   *)
(* them, which "part" names.  Of Orders, a behaviour has the containers,   *)
(* the movements and milestones, or the uploads, whose links are to        *)
(* numbers: the checks of each look at no other's rows.                    *)
EXTENDS Quotations, Orders, Capture, TLC

CONSTANTS q1, q2, r1, r2, t1, t2, k1, j1, n1, c1, f1, a1, a2

VARIABLE part

(* Settings of an attribute; those with a blank option are refused.        *)
Plain == [type |-> "text", required |-> FALSE, options |-> {}]
Settings == {Plain, [Plain EXCEPT !.type = "number", !.required = TRUE],
             [Plain EXCEPT !.type = "select", !.options = {"1"}],
             [Plain EXCEPT !.type = "select", !.options = {""}]}

FreightInit == /\ part \in {"quotations", "boxes", "legs", "uploads", "capture"}
               /\ QuotationsInit /\ OrdersInit /\ CaptureInit
               /\ part # "capture" => lines = [r \in {1} |-> NoLine] /\ pinned = {}
               /\ part = "capture" => {lines[1][f] : f \in Fields} =
                    {Text("1.0")} \cup (IF pinned = {} THEN {Missing} ELSE {})
FreightNext ==
    \/ part = "quotations" /\ QuotationsNext /\ UNCHANGED <<part, orderVars, captureVars>>
    \/ /\ part \in {"boxes", "legs", "uploads"} /\ OrdersNext
       /\ CASE part = "boxes" -> UNCHANGED <<legs, marks, objects>>
            [] part = "legs" -> UNCHANGED <<boxes, objects>>
            [] OTHER -> UNCHANGED orderRows
       /\ UNCHANGED <<part, quotationVars, captureVars>>
    \/ part = "capture" /\ CaptureNext /\ UNCHANGED <<part, quotationVars, orderVars>>
FreightSpec == FreightInit /\ [][FreightNext]_<<part, quotationVars, orderVars, captureVars>>

(* Every variable of the quotations, of the orders and of the pages holds  *)
(* what its table or its process may hold.                                 *)
FreightTypeOK == QuotationsTypeOK /\ OrdersTypeOK /\ CaptureTypeOK

(* Requests are alike.  Quotations, terms and attributes are exchanged     *)
(* together, each with the other of its kind: which is first does not      *)
(* matter.                                                                 *)
Alike == Permutations({r1, r2})
         \cup {q1 :> q2 @@ q2 :> q1 @@ t1 :> t2 @@ t2 :> t1 @@ a1 :> a2 @@ a2 :> a1}
=============================================================================
