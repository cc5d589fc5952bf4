----------------------------- MODULE TradeSession -----------------------------
(***************************************************************************)
(* The session of the trade connector (exchange/example/connector_ws_trade): *)
(* start waits for a promise that the callbacks of the service thread         *)
(* satisfy; stop, from another thread, frees it and destroys the connection.  *)
(* Requests sent leave their times in a queue that responses take from.       *)
(*                                                                         *)
(* At most one call of start and one of stop run at a time, in any overlap.   *)
(* The connection objects are numbered; their own life is WebSocketClient's.  *)
(***************************************************************************)
EXTENDS Integers, FiniteSets

CONSTANTS MaxStarts,   \* bound: calls of start
          MaxStops,    \* bound: calls of stop that find the session started
          MaxSent      \* bound: messages sent and pushed

ASSUME BoundsAssumption == MaxStarts \in Nat /\ MaxStops \in Nat /\ MaxSent \in Nat

VARIABLES
  started,      \* m_started
  connection,   \* m_wsConnection: 0 for NULL
  promise,      \* the state of m_connected
  starter,      \* where the thread in start is
  result,       \* how the last start ended, and with which connection
  stopper,      \* where the thread in stop is
  link,         \* the state of each connection object
  callback,     \* the callback the service thread is in: name, connection
  established,  \* history: connections whose handshake was completed
  timestamps,   \* length of m_requestTimestamps
  triggered,    \* m_requestTimeoutTriggered
  pingTimer,    \* m_pingTimer is armed
  unanswered,   \* history: messages sent on the open connection without answer
  unread,       \* history: answers on it that onDataReady made nothing of
  sent,         \* messages sent and pushed so far
  stops,        \* calls of stop so far
  mishaps,      \* history: what happened at the same time
  fault         \* undefined behaviour, or an exception nobody catches

callers == <<started, connection, promise, starter, result, stopper, stops>>
traffic == <<timestamps, triggered, pingTimer, unanswered, unread, sent>>
vars == <<callers, link, callback, established, traffic, mishaps, fault>>

Numbers == 1..MaxStarts
NoCallback == <<"none", 0>>

Init ==
  /\ started = FALSE /\ connection = 0 /\ promise = "unset"
  /\ starter = "idle" /\ result = <<0, FALSE>> /\ stopper = "idle" /\ stops = 0
  /\ link = [n \in Numbers |-> "none"]
  /\ callback = NoCallback
  /\ established = {}
  /\ timestamps = 0 /\ triggered = FALSE /\ pingTimer = FALSE
  /\ unanswered = 0 /\ unread = 0 /\ sent = 0
  /\ mishaps = {}
  /\ fault = "none"

\* std::promise::set_value on the service thread, where nobody catches.
SetValue(value) ==
  IF promise = "unset" THEN promise' = value /\ UNCHANGED fault
  ELSE fault' = "promise" /\ UNCHANGED promise

\* m_wsConnection.reset(new): the old connection is destroyed, even while one of
\* its callbacks runs.  A failed handshake has left its m_webSocket set: the
\* destructor then writes through a socket that has been freed.
Replace(new) ==
  /\ connection' = new
  /\ link' = [n \in Numbers |-> IF n = connection THEN "destroyed"
                                ELSE IF n = new THEN "created" ELSE link[n]]
  /\ mishaps' = mishaps \union
       (IF connection # 0 /\ callback[2] = connection THEN {"overlap"} ELSE {})
  /\ \/ UNCHANGED fault
     \/ connection # 0 /\ link[connection] = "failed" /\ fault' = "freed"

-----------------------------------------------------------------------------
\* start()

Made == Cardinality({n \in Numbers : link[n] # "none"})

StartBegin ==
  /\ starter = "idle" /\ Made < MaxStarts
  /\ started' = TRUE
  /\ starter' = "reset"
  /\ mishaps' = IF stopper = "idle" THEN mishaps \ {"interrupted"}
                ELSE mishaps \union {"interrupted"}
  /\ UNCHANGED <<connection, promise, result, stopper, stops, link, callback,
                 established, traffic, fault>>

StartReset ==
  /\ starter = "reset"
  /\ Replace(Made + 1)
  /\ starter' = "promise"
  /\ UNCHANGED <<started, promise, result, stopper, stops, callback, established,
                 traffic>>

\* Mutant: the promise of the last session is kept.
MutKeepPromise ==
  /\ starter = "promise"
  /\ starter' = "connect"
  /\ UNCHANGED <<started, connection, promise, result, stopper, stops, link,
                 callback, established, traffic, mishaps, fault>>

StartPromise ==
  /\ starter = "promise"
  /\ promise' = "unset"
  /\ starter' = "connect"
  /\ UNCHANGED <<started, connection, result, stopper, stops, link, callback,
                 established, traffic, mishaps, fault>>

\* connect, through a pointer that stop may have reset.
StartConnect ==
  /\ starter = "connect"
  /\ IF connection = 0 THEN fault' = "null" /\ UNCHANGED link
     ELSE link' = [link EXCEPT ![connection] = "connecting"] /\ UNCHANGED fault
  /\ starter' = "wait"
  /\ UNCHANGED <<started, connection, promise, result, stopper, stops, callback,
                 established, traffic, mishaps>>

\* get_future().get() returns; false is thrown as an exception.
StartReturn ==
  /\ starter = "wait" /\ promise # "unset"
  /\ result' = <<Made, promise = "true">>
  /\ starter' = "idle"
  /\ UNCHANGED <<started, connection, promise, stopper, stops, link, callback,
                 established, traffic, mishaps, fault>>

-----------------------------------------------------------------------------
\* stop(); a call that finds the session not started returns at once.

StopBegin ==
  /\ stopper = "idle" /\ started /\ stops < MaxStops
  /\ started' = FALSE
  /\ stops' = stops + 1
  /\ stopper' = "promise"
  /\ mishaps' = mishaps \union (IF starter # "idle" THEN {"interrupted"} ELSE {})
  /\ UNCHANGED <<connection, promise, starter, result, link, callback,
                 established, traffic, fault>>

\* set_value(false); the future_error of a satisfied promise is caught.
StopPromise ==
  /\ stopper = "promise"
  /\ promise' = IF promise = "unset" THEN "false" ELSE promise
  /\ stopper' = "reset"
  /\ UNCHANGED <<started, connection, starter, result, stops, link, callback,
                 established, traffic, mishaps, fault>>

StopReset ==
  /\ stopper = "reset"
  /\ Replace(0)
  /\ stopper' = "idle"
  /\ UNCHANGED <<started, promise, starter, result, stops, callback, established,
                 traffic>>

-----------------------------------------------------------------------------
\* Callbacks of the service thread.

Begin(name, n, from, to) ==
  /\ callback = NoCallback
  /\ link[n] = from
  /\ link' = [link EXCEPT ![n] = to]
  /\ callback' = <<name, n>>
  /\ UNCHANGED <<callers, traffic, mishaps, fault>>

Connected(n) ==
  /\ Begin("onConnected", n, "connecting", "open")
  /\ established' = established \union {n}

ConnectFailed(n) ==
  /\ Begin("onConnectFailed", n, "connecting", "failed")
  /\ UNCHANGED established

Closed(n) ==
  /\ Begin("onClose", n, "open", "closed")
  /\ UNCHANGED established

\* Mutant: the time stamps of the last connection are kept.
MutKeepTimestamps ==
  /\ callback[1] = "onConnected"
  /\ callback' = NoCallback
  /\ unanswered' = 0 /\ unread' = 0
  /\ triggered' = FALSE
  /\ SetValue("true")
  /\ UNCHANGED <<started, connection, starter, result, stopper, stops, link,
                 established, timestamps, pingTimer, sent, mishaps>>

\* onConnected
OnConnected ==
  /\ callback[1] = "onConnected"
  /\ callback' = NoCallback
  /\ timestamps' = 0
  /\ unanswered' = 0 /\ unread' = 0
  /\ triggered' = FALSE
  /\ SetValue("true")
  /\ UNCHANGED <<started, connection, starter, result, stopper, stops, link,
                 established, pingTimer, sent, mishaps>>

\* Mutant: a failed handshake only clears m_started.
MutFailSilently ==
  /\ callback[1] = "onConnectFailed"
  /\ callback' = <<"clearStarted", callback[2]>>
  /\ UNCHANGED <<callers, link, established, traffic, mishaps, fault>>

\* onConnectFailed: the promise first,
OnConnectFailed ==
  /\ callback[1] = "onConnectFailed"
  /\ callback' = <<"clearStarted", callback[2]>>
  /\ SetValue("false")
  /\ UNCHANGED <<started, connection, starter, result, stopper, stops, link,
                 established, traffic, mishaps>>

\* then m_started, which a new start may have set meanwhile.
ClearStarted ==
  /\ callback[1] = "clearStarted"
  /\ callback' = NoCallback
  /\ started' = FALSE
  /\ UNCHANGED <<connection, promise, starter, result, stopper, stops, link,
                 established, traffic, mishaps, fault>>

\* onClose reads m_started,
OnClose ==
  /\ callback[1] = "onClose"
  /\ callback' = IF started THEN <<"tearDown", callback[2]>> ELSE NoCallback
  /\ UNCHANGED <<callers, link, established, traffic, mishaps, fault>>

\* and goes on with m_wsConnection, whose socket is NULL by now.
TearDown ==
  /\ callback[1] = "tearDown"
  /\ callback' = NoCallback
  /\ IF connection = 0 THEN fault' = "null" /\ UNCHANGED <<started, timestamps>>
     ELSE started' = FALSE /\ timestamps' = 0 /\ UNCHANGED fault
  /\ UNCHANGED <<connection, promise, starter, result, stopper, stops, link,
                 established, triggered, pingTimer, unanswered, unread, sent, mishaps>>

-----------------------------------------------------------------------------
\* Traffic on an open connection, all on the service thread.

Serving == callback = NoCallback /\ \E n \in Numbers : link[n] = "open"

\* onMessageSent, for a request or a ping.
MessageSent ==
  /\ Serving /\ sent < MaxSent
  /\ sent' = sent + 1
  /\ timestamps' = timestamps + 1
  /\ unanswered' = unanswered + 1
  /\ UNCHANGED <<callers, link, callback, established, triggered, pingTimer,
                 unread, mishaps, fault>>

\* Mutant: the queue is asked for its front and popped in one more place.
MutPopTwice ==
  IF timestamps < 2 THEN fault' = "pop" /\ UNCHANGED timestamps
  ELSE timestamps' = timestamps - 2 /\ UNCHANGED fault

\* The end of onDataReady; pop of an empty queue is undefined.
Pop ==
  IF timestamps = 0 THEN fault' = "pop" /\ UNCHANGED timestamps
  ELSE timestamps' = timestamps - 1 /\ UNCHANGED fault

\* A response, or {"event":"pong"}, in which "ping" is not found.
Response ==
  /\ Serving /\ unanswered > 0
  /\ unanswered' = unanswered - 1
  /\ Pop
  /\ UNCHANGED <<callers, link, callback, established, triggered, pingTimer,
                 unread, sent, mishaps>>

\* A response with neither "channel" nor "event" in it: onDataReady returns early,
\* and its time stamp stays.
Unread ==
  /\ Serving /\ unanswered > 0
  /\ unanswered' = unanswered - 1
  /\ unread' = unread + 1
  /\ UNCHANGED <<callers, link, callback, established, timestamps, triggered,
                 pingTimer, sent, mishaps, fault>>

\* A trade or a balance that the exchange sends by itself.
Push ==
  /\ Serving /\ sent < MaxSent
  /\ sent' = sent + 1
  /\ Pop
  /\ mishaps' = mishaps \union {"pushed"}
  /\ UNCHANGED <<callers, link, callback, established, triggered, pingTimer,
                 unanswered, unread>>

\* checkTimers: the ping, if it is time for one, starts its timer and is written.
Ping ==
  /\ Serving /\ connection # 0 /\ ~pingTimer
  /\ pingTimer' = TRUE
  /\ UNCHANGED <<callers, link, callback, established, timestamps, triggered,
                 unanswered, unread, sent, mishaps, fault>>

\* The oldest request is looked at once for each connection.
CheckResponse ==
  /\ Serving /\ ~triggered /\ timestamps > 0
  /\ triggered' = TRUE
  /\ UNCHANGED <<callers, link, callback, established, timestamps, pingTimer,
                 unanswered, unread, sent, mishaps, fault>>

\* The timer thread: pingTimeout.  Nothing stops the timer.
PingTimeout ==
  /\ pingTimer
  /\ pingTimer' = FALSE
  /\ UNCHANGED <<callers, link, callback, established, timestamps, triggered,
                 unanswered, unread, sent, mishaps, fault>>

-----------------------------------------------------------------------------

Start == StartBegin \/ StartReset \/ StartPromise \/ StartConnect \/ StartReturn

Stop == StopBegin \/ StopPromise \/ StopReset

Handshake == \E n \in Numbers : Connected(n) \/ ConnectFailed(n)

Handler == OnConnected \/ OnConnectFailed \/ ClearStarted \/ OnClose \/ TearDown

Next ==
  /\ fault = "none"
  /\ \/ Start \/ Stop
     \/ Handshake \/ (\E n \in Numbers : Closed(n)) \/ Handler
     \/ MessageSent \/ Response \/ Unread \/ Push
     \/ Ping \/ CheckResponse \/ PingTimeout

Spec == Init /\ [][Next]_vars

Alive(A) == fault = "none" /\ A

\* Calls go on, handshakes end, callbacks return.
FairSpec ==
  /\ Spec
  /\ WF_vars(Alive(Start /\ starter # "idle"))
  /\ WF_vars(Alive(Stop /\ stopper # "idle"))
  /\ WF_vars(Alive(Handler))
  /\ SF_vars(Alive(Handshake))

-----------------------------------------------------------------------------

\* A start that reports success was given a connection whose handshake was
\* completed: no callback of an earlier connection satisfies its promise, except
\* one that was running while its connection was destroyed.
TruthfulStart ==
  result[2] /\ "overlap" \notin mishaps => result[1] \in established

\* What ends the process: a promise satisfied twice or a connection gone from
\* under start or onClose, only when stop met start or a callback; a response
\* with no request to match it, only after a message nobody asked for.  A freed
\* socket is written through, when nothing met, only after a start has said that
\* its handshake failed.
FaultsExplained ==
  /\ fault = "promise" => mishaps \intersect {"interrupted", "overlap"} # {}
  /\ fault = "null" => mishaps \intersect {"interrupted", "overlap"} # {}
  /\ fault = "pop" => "pushed" \in mishaps
  /\ fault = "freed" =>
       \/ mishaps \intersect {"interrupted", "overlap"} # {}
       \/ result[1] # 0 /\ ~result[2]

\* While a connection is open, m_requestTimestamps holds a time for each request
\* of that connection that is unanswered, one more for each answer that was not
\* read, and none of an earlier connection, as long as nothing comes unasked.
TimestampsMatch ==
  Serving /\ "pushed" \notin mishaps => timestamps = unanswered + unread

\* start does not wait for ever, whether the handshake succeeds or fails, as long
\* as no stop comes in between.
StartReturns ==
  starter = "wait" ~>
    starter = "idle" \/ fault # "none" \/ mishaps \intersect {"interrupted", "overlap"} # {}

\* connector_ws_trade.cpp:76: stop clears the "waiting future in case connect
\* operation is in progress", and the start that waits for it returns.
StopFreesStart ==
  "interrupted" \in mishaps ~> starter = "idle" \/ fault # "none"
===============================================================================
