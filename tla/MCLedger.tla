------------------------------ MODULE MCLedger ------------------------------
(* Small instances of Ledger. *)
EXTENDS Ledger

CONSTANTS p, secret, other, s1, s2

Ids == 0 .. 2

LegalRequests == {request \in Request : LegalRequest(request)}
=============================================================================
