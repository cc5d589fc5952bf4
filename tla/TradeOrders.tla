----------------------------- MODULE TradeOrders -----------------------------
(***************************************************************************)
(* Orders and requests of TradeAdapter (exchange/example/adapter_trade.cpp) *)
(* over WSTradeConnector (connector_ws_trade.cpp).                          *)
(*                                                                         *)
(* The exchange's WebSocket API has no request identifiers: the adapter     *)
(* keeps a FIFO queue of orders per channel and takes the order at its head *)
(* for the one a response is about.  Application threads push and send      *)
(* under a spin lock; the service thread pops under the same lock, handles  *)
(* the response and calls the observer, which may make calls of its own.    *)
(*                                                                         *)
(* A response names the order it is about in `for', which the code does not *)
(* see: the properties compare it with the order the adapter took.          *)
(***************************************************************************)
EXTENDS Integers, Sequences, FiniteSets

CONSTANTS Threads,         \* application threads
          Ws,              \* the service thread of the WebSocket client
          Orders,          \* order handles (and the ids the exchange gives them)
          Ioc,             \* the orders with ExecutionType::IOC
          None,            \* a null handle, the empty order id, a free lock
          MaxCancels,      \* bound: cancel requests per order
          MaxStatus,       \* bound: status requests per order
          MaxSessions      \* bound: connections made

ASSUME CallersAssumption == Ws \notin Threads /\ None \notin Threads \union {Ws}
ASSUME OrdersAssumption == Ioc \subseteq Orders /\ None \notin Orders
ASSUME BoundsAssumption == MaxCancels \in Nat /\ MaxStatus \in Nat /\ MaxSessions \in Nat

VARIABLES
  lock,        \* m_lock: who holds it
  queue,       \* m_ordersQueue
  state, id,   \* m_state and m_orderId of each order's OrderStatus
  pc, call,    \* where each thread is, and the request it is making
  handling,    \* the response being handled and the order popped for it
  connected,   \* the WebSocket connection is open
  sessions,    \* connections made so far
  wire, resp,  \* requests and responses on their way
  srv,         \* what the exchange has done with each order
  asked,       \* place, cancel and status calls made on each order
  lost,        \* history: a request or its response was lost
  crashed      \* how the process ended, if it has

vars == <<lock, queue, state, id, pc, call, handling, connected, sessions,
          wire, resp, srv, asked, lost, crashed>>

client == <<lock, queue, state, id, pc, call, handling, asked, crashed>>
network == <<connected, sessions, wire, resp, srv, lost>>

Callers == Threads \union {Ws}
Kinds == {"place", "cancel", "status"}
Channels == {"order", "cancel", "orderinfo"}

\* The queue addOrderRequest is called with, and the channel of the message
\* that is then sent: getOrderInfo names the cancel channel.
QueueOf(kind) ==
  CASE kind = "place" -> "order" [] kind = "cancel" -> "cancel" [] kind = "status" -> "orderinfo"
ChannelOf(kind) == IF kind = "place" THEN "order" ELSE "cancel"

NoCall == [kind |-> "place", order |-> None]

-----------------------------------------------------------------------------

Init ==
  /\ lock = None
  /\ queue = [ch \in Channels |-> <<>>]
  /\ state = [o \in Orders |-> "None"]
  /\ id = [o \in Orders |-> None]
  /\ pc = [t \in Callers |-> "idle"]
  /\ call = [t \in Callers |-> NoCall]
  /\ handling = [msg |-> None, order |-> None]
  /\ connected = FALSE
  /\ sessions = 0
  /\ wire = <<>>
  /\ resp = <<>>
  /\ srv = [o \in Orders |-> "none"]
  /\ asked = [o \in Orders |-> [k \in Kinds |-> 0]]
  /\ lost = FALSE
  /\ crashed = "no"

-----------------------------------------------------------------------------
\* Application calls.  The observer's callbacks run on the service thread.

Limit(kind) ==
  CASE kind = "place" -> 1 [] kind = "cancel" -> MaxCancels [] kind = "status" -> MaxStatus

MayCall(t) == pc[t] = IF t = Ws THEN "callback" ELSE "idle"

\* placeOrder, cancelOrder, getOrderStatus up to lock().  The latter two return
\* false, changing nothing, when the order has no id.
Call(t, kind, o) ==
  /\ MayCall(t)
  /\ asked[o][kind] < Limit(kind)
  /\ kind # "place" => id[o] # None
  /\ asked' = [asked EXCEPT ![o][kind] = @ + 1]
  /\ call' = [call EXCEPT ![t] = [kind |-> kind, order |-> o]]
  /\ pc' = [pc EXCEPT ![t] = "lock"]
  /\ UNCHANGED <<lock, queue, state, id, handling, crashed, network>>

\* Mutant: the order is pushed before the lock is taken.
MutPushUnlocked(t) ==
  /\ pc[t] = "lock"
  /\ lock' = t
  /\ queue' = [queue EXCEPT ![QueueOf(call[t].kind)] = Append(@, call[t].order)]
  /\ pc' = [pc EXCEPT ![t] = "send"]
  /\ UNCHANGED <<state, id, call, handling, asked, crashed, network>>

\* lock(); addOrderRequest(channel, order)
Enqueue(t) ==
  /\ pc[t] = "lock"
  /\ lock = None
  /\ lock' = t
  /\ queue' = [queue EXCEPT ![QueueOf(call[t].kind)] = Append(@, call[t].order)]
  /\ pc' = [pc EXCEPT ![t] = "send"]
  /\ UNCHANGED <<state, id, call, handling, asked, crashed, network>>

\* The message sendRequest composes.  The id of the order to cancel or to ask
\* about is read again here, under the lock.
Request(t) ==
  LET c == call[t] IN
  [channel |-> ChannelOf(c.kind),
   order   |-> IF c.kind = "place" THEN c.order ELSE id[c.order],
   for     |-> c.order]

\* Mutant: cancelOrder returns without unlock().
MutForgetUnlock(t) ==
  /\ pc[t] = "send"
  /\ wire' = IF connected THEN Append(wire, Request(t)) ELSE wire
  /\ lost' = (lost \/ ~connected)
  /\ lock' = IF call[t].kind = "cancel" THEN lock ELSE None
  /\ pc' = [pc EXCEPT ![t] = "idle"]
  /\ call' = [call EXCEPT ![t] = NoCall]
  /\ UNCHANGED <<queue, state, id, handling, asked, crashed,
                 connected, sessions, resp, srv>>

\* WSTradeConnector::...(); unlock().  Without a connection the message is
\* dropped and the call returns true all the same.
Send(t) ==
  /\ pc[t] = "send"
  /\ wire' = IF connected THEN Append(wire, Request(t)) ELSE wire
  /\ lost' = (lost \/ ~connected)
  /\ lock' = None
  /\ pc' = [pc EXCEPT ![t] = "idle"]
  /\ call' = [call EXCEPT ![t] = NoCall]
  /\ UNCHANGED <<queue, state, id, handling, asked, crashed,
                 connected, sessions, resp, srv>>

ReturnFromCallback ==
  /\ pc[Ws] = "callback"
  /\ pc' = [pc EXCEPT ![Ws] = "idle"]
  /\ UNCHANGED <<lock, queue, state, id, call, handling, asked, crashed, network>>

-----------------------------------------------------------------------------
\* The service thread.

\* Mutant: removeOrderRequest takes the front without popping it.
MutNoPop ==
  /\ pc[Ws] = "idle"
  /\ resp # <<>>
  /\ lock = None
  /\ LET q == queue[Head(resp).channel]
     IN handling' = [msg |-> Head(resp), order |-> IF q = <<>> THEN None ELSE Head(q)]
  /\ resp' = Tail(resp)
  /\ pc' = [pc EXCEPT ![Ws] = "handle"]
  /\ UNCHANGED <<queue, lock, state, id, call, asked, crashed, connected, sessions, wire, srv, lost>>

\* onDataReady picks the handler by channel; the handler first takes the order
\* at the head of the channel's queue, or a null handle.
Receive ==
  /\ pc[Ws] = "idle"
  /\ resp # <<>>
  /\ lock = None
  /\ LET msg == Head(resp)
         q == queue[msg.channel]
     IN /\ handling' = [msg |-> msg, order |-> IF q = <<>> THEN None ELSE Head(q)]
        /\ queue' = [queue EXCEPT ![msg.channel] = IF q = <<>> THEN q ELSE Tail(q)]
  /\ resp' = Tail(resp)
  /\ pc' = [pc EXCEPT ![Ws] = "handle"]
  /\ UNCHANGED <<lock, state, id, call, asked, crashed, connected, sessions, wire, srv, lost>>

Handling(channel, result) ==
  /\ pc[Ws] = "handle"
  /\ handling.order # None
  /\ handling.msg.channel = channel
  /\ handling.msg.result = result

\* What is left when a handler returns.
Done(where) ==
  /\ pc' = [pc EXCEPT ![Ws] = where]
  /\ handling' = [msg |-> None, order |-> None]

\* updateOrderStatus: the new status is swapped in and the observer is called.
\* The copy constructor of OrderStatus does not copy the id, so the id of the
\* new status is the one set on it, or empty.
UpdateOrderStatus(o, newState, newId) ==
  /\ state' = [state EXCEPT ![o] = newState]
  /\ id' = [id EXCEPT ![o] = newId]

\* Every handler dereferences the order.
NullOrder ==
  /\ pc[Ws] = "handle"
  /\ handling.order = None
  /\ crashed' = "null"
  /\ UNCHANGED <<lock, queue, state, id, pc, call, handling, asked, network>>

OrderRejected ==
  /\ Handling("order", "error")
  /\ UpdateOrderStatus(handling.order, "Failed", None)
  /\ Done("callback")
  /\ UNCHANGED <<lock, queue, call, asked, crashed, network>>

OrderPlaced ==
  /\ Handling("order", "ok")
  /\ handling.order \notin Ioc
  /\ UpdateOrderStatus(handling.order, "Placed", handling.msg.order)
  /\ Done("callback")
  /\ UNCHANGED <<lock, queue, call, asked, crashed, network>>

\* An IOC order is cancelled instead of being reported: cancelOrder(order),
\* which returns false when the order has no id.
IocOrderPlaced ==
  /\ Handling("order", "ok")
  /\ handling.order \in Ioc
  /\ LET o == handling.order IN
     IF id[o] = None
     THEN Done("idle") /\ UNCHANGED <<call, asked>>
     ELSE /\ Done("lock")
          /\ call' = [call EXCEPT ![Ws] = [kind |-> "cancel", order |-> o]]
          /\ asked' = [asked EXCEPT ![o]["cancel"] = @ + 1]
  /\ UNCHANGED <<lock, queue, state, id, crashed, network>>

\* error_code 1050: the order was filled or cancelled before.
CancelOfDone ==
  /\ Handling("cancel", "done")
  /\ IF state[handling.order] = "Cancelled"
     THEN Done("idle") /\ UNCHANGED <<state, id>>
     ELSE UpdateOrderStatus(handling.order, "Filled", None) /\ Done("callback")
  /\ UNCHANGED <<lock, queue, call, asked, crashed, network>>

CancelFailed ==
  /\ Handling("cancel", "error")
  /\ UpdateOrderStatus(handling.order, "Unknown", None)
  /\ Done("callback")
  /\ UNCHANGED <<lock, queue, call, asked, crashed, network>>

\* The loop `i < doc[i].size()' runs past the one element of the response: pjson
\* asserts the index and the process ends; built with NDEBUG it reads what lies
\* behind the array, which may also end the loop.
ReadPastEnd == crashed' \in {"no", "overrun"}

\* Only an IOC order is told of its cancellation.
OrderCancelled ==
  /\ Handling("cancel", "ok")
  /\ IF handling.order \in Ioc
     THEN UpdateOrderStatus(handling.order, "Cancelled", None) /\ Done("callback")
     ELSE Done("idle") /\ UNCHANGED <<state, id>>
  /\ ReadPastEnd
  /\ UNCHANGED <<lock, queue, call, asked, network>>

Handle ==
  \/ NullOrder \/ OrderRejected \/ OrderPlaced \/ IocOrderPlaced
  \/ CancelOfDone \/ CancelFailed \/ OrderCancelled

-----------------------------------------------------------------------------
\* The connection and the exchange (external).  Requests are answered in the
\* order in which they arrive.

\* Mutant: a new connection clears the queues, without the lock.
MutClearQueues ==
  /\ ~connected
  /\ sessions < MaxSessions
  /\ connected' = TRUE
  /\ sessions' = sessions + 1
  /\ queue' = [ch \in Channels |-> <<>>]
  /\ UNCHANGED <<lock, state, id, pc, call, handling, asked, crashed, wire, resp, srv, lost>>

\* start() after the constructor or after a close.
Start ==
  /\ ~connected
  /\ sessions < MaxSessions
  /\ connected' = TRUE
  /\ sessions' = sessions + 1
  /\ UNCHANGED <<client, wire, resp, srv, lost>>

\* The connection breaks; onClose does not touch m_ordersQueue.
Close ==
  /\ connected
  /\ sessions < MaxSessions
  /\ pc[Ws] = "idle"
  /\ connected' = FALSE
  /\ wire' = <<>>
  /\ resp' = <<>>
  /\ lost' = (lost \/ wire # <<>> \/ resp # <<>>)
  /\ UNCHANGED <<client, sessions, srv>>

Answer(result) ==
  /\ resp' = Append(resp, [channel |-> Head(wire).channel, result |-> result,
                           order |-> Head(wire).order, for |-> Head(wire).for])
  /\ wire' = Tail(wire)
  /\ UNCHANGED <<client, connected, sessions, lost>>

ExchangePlaces ==
  /\ wire # <<>>
  /\ Head(wire).channel = "order"
  /\ \/ Answer("ok") /\ srv' = [srv EXCEPT ![Head(wire).order] = "open"]
     \/ Answer("error") /\ srv' = [srv EXCEPT ![Head(wire).order] = "rejected"]

ExchangeCancels ==
  /\ wire # <<>>
  /\ Head(wire).channel = "cancel"
  /\ LET o == Head(wire).order IN
     \/ /\ o # None /\ srv[o] = "open"
        /\ Answer("ok")
        /\ srv' = [srv EXCEPT ![o] = "cancelled"]
     \/ /\ o # None /\ srv[o] \in {"filled", "cancelled"}
        /\ Answer("done")
        /\ UNCHANGED srv
     \/ Answer("error") /\ UNCHANGED srv

ExchangeFills(o) ==
  /\ srv[o] = "open"
  /\ srv' = [srv EXCEPT ![o] = "filled"]
  /\ UNCHANGED <<client, connected, sessions, wire, resp, lost>>

-----------------------------------------------------------------------------

Next ==
  /\ crashed = "no"
  /\ \/ \E t \in Callers :
          \/ \E kind \in Kinds, o \in Orders : Call(t, kind, o)
          \/ Enqueue(t) \/ Send(t)
     \/ ReturnFromCallback \/ Receive \/ Handle
     \/ Start \/ Close \/ ExchangePlaces \/ ExchangeCancels
     \/ \E o \in Orders : ExchangeFills(o)

Spec == Init /\ [][Next]_vars

Alive(A) == crashed = "no" /\ A

\* Threads keep running, the exchange answers and the application starts the
\* connector.  Weak fairness is enough for the spin lock: calls are finitely
\* many, so it is free for good in the end.
FairSpec ==
  /\ Spec
  /\ \A t \in Callers : WF_vars(Alive(Enqueue(t))) /\ WF_vars(Alive(Send(t)))
  /\ WF_vars(Alive(Receive)) /\ WF_vars(Alive(Handle)) /\ WF_vars(Alive(ReturnFromCallback))
  /\ WF_vars(Alive(ExchangePlaces)) /\ WF_vars(Alive(ExchangeCancels)) /\ WF_vars(Alive(Start))

-----------------------------------------------------------------------------
\* Properties.

Asked(kind) == \E o \in Orders : asked[o][kind] > 0

\* Until a request or a response is lost, each response is handled with the order
\* its request was about, whatever the threads do between push and write: on the
\* order channel always, on the cancel channel as long as nobody has asked for an
\* order's status.
ResponseMatched ==
  pc[Ws] = "handle" /\ ~lost /\ (Asked("status") => handling.msg.channel = "order")
    => handling.order = handling.msg.for

\* Until then an order reported Placed was accepted by the exchange and its id,
\* while it has one, is its own; an order reported Failed was rejected.
PlacementTruthful ==
  ~lost => \A o \in Orders :
    /\ id[o] \in {None, o}
    /\ state[o] = "Placed" => srv[o] \notin {"none", "rejected"}
    /\ state[o] = "Failed" => srv[o] = "rejected"

\* A response never finds its queue empty, lost requests and reconnections
\* included: the queues keep the requests whose answers were lost, so they are
\* never short, but for the answer to a status request.
NoNullOrder == crashed = "null" => Asked("status")

\* With nothing lost and no status requests, an order is reported Placed or Failed
\* once, before anything else is reported of it.
PlacementReportedFirst ==
  [][~lost /\ ~Asked("status") =>
       \A o \in Orders :
         /\ state'[o] \in {"Placed", "Failed"} /\ state[o] # state'[o] => state[o] = "None"
         /\ state[o] = "None" => state'[o] \in {"None", "Placed", "Failed"}]_vars

\* The exchange's answer to a LIMIT order reaches the order, unless something is
\* lost.
PlacementReported ==
  \A o \in Orders \ Ioc :
    srv[o] # "none" ~> (state[o] # "None" \/ lost \/ crashed # "no")

\* placeOrder, cancelOrder and getOrderStatus return, from every thread.
CallsReturn ==
  \A t \in Callers : pc[t] = "lock" ~> (pc[t] = "idle" \/ crashed # "no")

-----------------------------------------------------------------------------
\* What documentation says, and the code does not do.

\* order.h:100: updateStatus gets the order's status.  The exchange cancels an
\* order only when a cancel was asked for.
StatusOnlyAsks == \A o \in Orders : srv[o] = "cancelled" => asked[o]["cancel"] > 0
=============================================================================
