---------------------------- MODULE MCTradeOrders ----------------------------
(* Constants of TradeOrders for the model checker. *)
EXTENDS TradeOrders, TLC

CONSTANTS t1, t2, o1, o2

MCThreads == {t1, t2}
MCOneThread == {t1}
MCOrders == {o1, o2}
MCIoc == {o2}
=============================================================================
