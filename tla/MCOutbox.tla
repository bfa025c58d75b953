------------------------------ MODULE MCOutbox ------------------------------
(* A small instance of Outbox for TLC.                                     *)
EXTENDS Outbox

CONSTANTS n1, w1, w2
=============================================================================
