----------------------------- MODULE MCHttpClient -----------------------------
(* Constants of HttpClient for the model checker: the kinds of request that are *)
(* treated differently (trades are as ticker).                                 *)
EXTENDS HttpClient

CONSTANTS r1, r2

MCRequests == {r1, r2}
MCKinds == {"depth", "ticker", "kline", "limits", "own"}
===============================================================================
