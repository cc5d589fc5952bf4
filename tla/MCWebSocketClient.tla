-------------------------- MODULE MCWebSocketClient --------------------------
(* Constants of WebSocketClient for the model checker. *)
EXTENDS WebSocketClient, TLC

CONSTANTS c1, c2, h1, h2

MCConnections == {c1, c2}
MCHandles == {h1, h2}
MCSymmetry == Permutations(MCConnections) \union Permutations(MCHandles)
==============================================================================
