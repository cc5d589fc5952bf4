---------------------------- MODULE BalanceLedger ----------------------------
(***************************************************************************)
(* What the balance reservation of fin/exchange.cpp promises to its callers *)
(* when the atomics, loops and retries are hidden: quantities are granted   *)
(* and given back in one step each, and what is granted together never      *)
(* exceeds half of the largest total that the exchange has reported.        *)
(* (Half, because reserveBalance compares the balance net of the reserve    *)
(* with the reserve it is about to store.)                                  *)
(***************************************************************************)
EXTENDS Integers, FiniteSets

CONSTANTS Clients, MaxAmount, Totals

VARIABLES granted,   \* what each client may spend
          peak       \* the largest total reported so far

vars == <<granted, peak>>

Amounts == 1..MaxAmount

Units == {u \in Clients \X Amounts : u[2] <= granted[u[1]]}

Init ==
  /\ granted = [c \in Clients |-> 0]
  /\ peak = 0

Report(v) ==
  /\ v > peak
  /\ peak' = v
  /\ UNCHANGED granted

Grant(c, q) ==
  /\ granted[c] = 0
  /\ 2 * (Cardinality(Units) + q) <= peak
  /\ granted' = [granted EXCEPT ![c] = q]
  /\ UNCHANGED peak

GiveBack(c, q) ==
  /\ q <= granted[c]
  /\ granted' = [granted EXCEPT ![c] = @ - q]
  /\ UNCHANGED peak

Next ==
  \/ \E v \in Totals : Report(v)
  \/ \E c \in Clients, q \in Amounts : Grant(c, q) \/ GiveBack(c, q)

Spec == Init /\ [][Next]_vars

=============================================================================
