--------------------------- MODULE MCWebSocketWrite ---------------------------
(* Constants of WebSocketWrite for the model checker. *)
EXTENDS WebSocketWrite

CONSTANTS t1, t2

MCThreads == {t1, t2}
===============================================================================
