----------------------------- MODULE MCOrderBook -----------------------------
(* Constants of OrderBook for the model checker. *)
EXTENDS OrderBook, TLC

CONSTANTS x1, x2, i1, i2, s1, s2

MCExchanges == {x1, x2}
MCInstruments == {i1, i2}
MCPrices == {1}
MCStrategies == {s1, s2}
MCTraded == {x1}
MCSymmetry == Permutations(MCInstruments) \union Permutations(MCStrategies)
==============================================================================
