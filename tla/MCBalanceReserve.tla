-------------------------- MODULE MCBalanceReserve --------------------------
(* Instances of BalanceReserve for TLC.                                     *)
EXTENDS BalanceReserve

CONSTANTS c1, c2

MCClients == {c1, c2}
MCTotals == {0, 5}

=============================================================================
