-------------------------------- MODULE Outbox --------------------------------
(* What a WebSocketConnection promises to those who write to it: an accepted    *)
(* message waits in one queue and leaves it once, in the order of acceptance.   *)
EXTENDS Sequences

CONSTANTS Messages   \* everything that may be written

VARIABLES outbox,    \* accepted and not yet sent
          sent       \* what has been sent, in order

Init == outbox = <<>> /\ sent = <<>>

Accept(m) ==
  /\ outbox' = Append(outbox, m)
  /\ UNCHANGED sent

Deliver ==
  /\ outbox # <<>>
  /\ sent' = Append(sent, Head(outbox))
  /\ outbox' = Tail(outbox)

Next == Deliver \/ \E m \in Messages : Accept(m)

Spec == Init /\ [][Next]_<<outbox, sent>>
===============================================================================
