------------------------------ MODULE MCLedger ------------------------------
(* Three requests of one key, one more than its queue holds or a batch takes.  *)
(* One charge reaches the daily cap and two the monthly one; a day ends within *)
(* a month, and a month ends.                                                 *)
EXTENDS Ledger

MCRequests == {"r1", "r2", "r3"}
MCKeys == {"k"}
MCKeyOf == [r \in MCRequests |-> "k"]
MCCost == [r \in MCRequests |-> 1]
=============================================================================
