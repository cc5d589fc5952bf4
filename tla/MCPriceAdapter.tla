----------------------------- MODULE MCPriceAdapter -----------------------------
(* Constants of PriceAdapter for the model checker.                           *)
EXTENDS PriceAdapter

CONSTANTS i1, i2, c1, c2, c3

MCInstruments == {i1, i2}
MCChannels == {c1, c2, c3}
MCDictionary == << <<c1, i1>>, <<c2, i2>>, <<c3, NoInstrument>> >>
===============================================================================
