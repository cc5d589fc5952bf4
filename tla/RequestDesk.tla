------------------------------ MODULE RequestDesk ------------------------------
(* What the HTTP client promises about a request: it is deleted once, by the    *)
(* client when it has been answered or by the owner who kept it, and nobody     *)
(* answers it after that.                                                     *)

CONSTANTS Requests

VARIABLES stage,   \* how far each request has come
          kept     \* the requests whose owner keeps a pointer

Init ==
  /\ stage = [r \in Requests |-> "none"]
  /\ kept = {}

Move(r, to) == stage' = [stage EXCEPT ![r] = to]

Ask(r) ==
  /\ stage[r] = "none" /\ Move(r, "asked")
  /\ kept' \in {kept, kept \union {r}}

Send(r) == stage[r] = "asked" /\ Move(r, "waiting") /\ UNCHANGED kept

Answer(r) == stage[r] = "waiting" /\ Move(r, "answered") /\ UNCHANGED kept

\* The client deletes what it has answered, several requests at once.
Delete(R) ==
  /\ \A r \in R : stage[r] = "answered"
  /\ stage' = [r \in Requests |-> IF r \in R THEN "deleted" ELSE stage[r]]
  /\ UNCHANGED kept

\* The owner deletes it; when it was sent, the client still has its handle.
Withdraw(r) ==
  /\ r \in kept
  /\ \/ stage[r] = "asked" /\ Move(r, "deleted")
     \/ stage[r] \in {"waiting", "answered"} /\ Move(r, "withdrawn")
  /\ UNCHANGED kept

Next ==
  \/ \E r \in Requests : Ask(r) \/ Send(r) \/ Answer(r) \/ Withdraw(r)
  \/ \E R \in SUBSET Requests : Delete(R)

Spec == Init /\ [][Next]_<<stage, kept>>
================================================================================
