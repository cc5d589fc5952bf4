----------------------------- MODULE PriceAdapter -----------------------------
(***************************************************************************)
(* The price adapter (exchange/example/adapter_price) over its WebSocket      *)
(* connector: what it must still ask the exchange for after each new start,   *)
(* how it notices that the exchange has gone silent, and under which          *)
(* instrument it passes a channel's data on.                                  *)
(*                                                                         *)
(* The owner thread configures, starts and stops; a client thread subscribes; *)
(* the callbacks of the connection run one at a time on the service thread,   *)
(* the ping timer on its own, REST answers on the HTTP thread.                *)
(***************************************************************************)
EXTENDS Integers, FiniteSets, Sequences, Functions

CONSTANTS Instruments,   \* instruments the program registered
          Channels,      \* the exchange's names for instruments
          NoInstrument,
          Dictionary,    \* the configuration: a sequence of <<channel, instrument>>
          MaxStarts,     \* bound: calls of start
          MaxPings       \* bound: pings the exchange has not answered yet

ASSUME DictionaryAssumption ==
  /\ NoInstrument \notin Instruments
  /\ Dictionary \in Seq(Channels \X (Instruments \union {NoInstrument}))
ASSUME BoundsAssumption == MaxStarts \in Nat /\ MaxPings \in Nat

VARIABLES
  from,         \* m_instrumentFromExchangeMap
  to,           \* m_instrumentToExchangeMap
  started,      \* m_started of the connector
  connection,   \* m_wsConnection: 0 for NULL
  link,         \* the state of each connection object
  asked,        \* channels whose subscription was written to the connection
  promise,      \* the state of m_connected
  failing,      \* onConnectFailed has yet to clear m_started
  owner,        \* where start is
  list,         \* m_subscriptions
  swapped,      \* the local list of start
  call,         \* the call of subscribe that holds m_subscriptionLock
  made,         \* history: instruments subscribed to
  lastData,     \* m_lastData: "zero", "old" (<= m_pingSent) or "fresh"
  pinged,       \* m_pingSent # 0
  elapsed,      \* the data timeout has passed since m_lastData
  timer,        \* m_pingTimer: "armed", or "due" when its handler is queued, or both
  pings,        \* pings on their way to the exchange or back
  answered,     \* history: a pong came after the last ping was sent
  alarm,        \* history: an error was reported for want of a pong since the last ping
  dead,         \* the exchange has gone silent, the connection stays open
  book,         \* instruments the observer holds prices of
  depth,        \* the instrument onDepthResponse has just invalidated
  fault         \* a connection or a socket was used after it was freed

dictionary == <<from, to>>
session == <<started, connection, link, promise, failing, owner>>
subscriptions == <<asked, list, swapped, call, made>>
watch == <<lastData, pinged, elapsed, timer, pings, answered, alarm, dead>>
observer == <<book, depth>>
vars == <<dictionary, session, subscriptions, watch, observer, fault>>

Numbers == 1..MaxStarts
NoCall == [by |-> "nobody", todo |-> {}, item |-> NoInstrument, conn |-> 0,
           stamp |-> "none"]
Open == connection # 0 /\ link[connection] = "open"
Made == Cardinality({n \in Numbers : link[n] # "none"})

Init ==
  /\ from = <<>> /\ to = <<>>
  /\ started = FALSE /\ connection = 0
  /\ link = [n \in Numbers |-> "none"] /\ asked = {}
  /\ promise = "unset" /\ failing = FALSE /\ owner = "idle"
  /\ list = {} /\ swapped = {} /\ call = NoCall /\ made = {}
  /\ lastData = "zero" /\ pinged = FALSE /\ elapsed = FALSE
  /\ timer = {} /\ pings = 0
  /\ answered = FALSE /\ alarm = FALSE /\ dead = FALSE
  /\ book = {} /\ depth = NoInstrument
  /\ fault = FALSE

-----------------------------------------------------------------------------
\* config(), by the owner before the first start: addInstrumentTranslation for each
\* entry.  std::map::insert keeps what a key already has.

First(key, value) ==
  [k \in {e[key] : e \in Range(Dictionary)} |->
     SelectSeq(Dictionary, LAMBDA e : e[key] = k)[1][value]]

Config ==
  /\ owner = "idle" /\ connection = 0 /\ call = NoCall
  /\ from' = First(1, 2)
  /\ to' = First(2, 1)
  /\ UNCHANGED <<session, subscriptions, watch, observer, fault>>

-----------------------------------------------------------------------------
\* start(): the owner thread.

\* The old connection object is destroyed.  A failed handshake has left m_webSocket
\* set: the destructor then writes through a socket that has been freed.
Discard == fault' \in {FALSE, connection # 0 /\ link[connection] = "failed"}

StartBegin ==
  /\ owner = "idle" /\ Made < MaxStarts
  /\ started' = TRUE
  /\ connection' = Made + 1
  /\ link' = [n \in Numbers |-> IF n = Made + 1 THEN "created"
                                ELSE IF n = connection THEN "destroyed" ELSE link[n]]
  /\ Discard
  /\ pings' = 0
  /\ asked' = {}
  /\ owner' = "connect"
  /\ UNCHANGED <<dictionary, promise, failing, list, swapped, call, made, lastData,
                 pinged, elapsed, timer, answered, alarm, dead, observer>>

StartConnect ==
  /\ owner = "connect"
  /\ promise' = "unset"
  /\ link' = [link EXCEPT ![connection] = "queued"]
  /\ owner' = "wait"
  /\ UNCHANGED <<dictionary, started, connection, failing, subscriptions,
                 watch, observer, fault>>

StartFails ==
  /\ owner = "wait" /\ promise = "false"
  /\ owner' = "idle"
  /\ UNCHANGED <<dictionary, started, connection, link, promise, failing,
                 subscriptions, watch, observer, fault>>

\* Mutant: the list is taken over without its lock.
MutSwapUnlocked ==
  /\ owner = "wait" /\ promise = "true"
  /\ swapped' = list /\ list' = {}
  /\ owner' = "again"
  /\ UNCHANGED <<dictionary, started, connection, link, promise, failing,
                 asked, call, made, watch, observer, fault>>

StartSwap ==
  /\ owner = "wait" /\ promise = "true" /\ call = NoCall
  /\ swapped' = list /\ list' = {}
  /\ owner' = "again"
  /\ UNCHANGED <<dictionary, started, connection, link, promise, failing,
                 asked, call, made, watch, observer, fault>>

StartSubscribe ==
  /\ owner = "again" /\ call = NoCall
  /\ call' = [NoCall EXCEPT !.by = "owner", !.todo = swapped]
  /\ swapped' = {}
  /\ owner' = "subscribe"
  /\ UNCHANGED <<dictionary, started, connection, link, promise, failing,
                 asked, list, made, watch, observer, fault>>

\* stop(): a call that finds the session not started returns at once.
Stop ==
  /\ owner = "idle" /\ started
  /\ started' = FALSE
  /\ connection' = 0
  /\ link' = [link EXCEPT ![connection] = "destroyed"]
  /\ Discard
  /\ pings' = 0
  /\ UNCHANGED <<dictionary, promise, failing, owner, subscriptions,
                 lastData, pinged, elapsed, timer, answered, alarm, dead, observer>>

-----------------------------------------------------------------------------
\* subscribe(list), by start or by the client, which asks for an instrument once.
\* m_subscriptionLock is held throughout.

Subscribe(instruments) ==
  /\ call = NoCall /\ instruments \intersect made = {}
  /\ call' = [NoCall EXCEPT !.by = "client", !.todo = instruments]
  /\ UNCHANGED <<dictionary, session, asked, list, swapped, made, watch, observer, fault>>

\* An instrument without a name is only logged; for the others the connector looks
\* whether it has a connection.
Look(i) ==
  /\ i \in call.todo /\ call.item = NoInstrument
  /\ call' = [call EXCEPT !.todo = @ \ {i},
                          !.item = IF i \in DOMAIN to THEN i ELSE NoInstrument,
                          !.conn = IF i \in DOMAIN to THEN connection ELSE 0]
  /\ UNCHANGED <<dictionary, session, asked, list, swapped, made, watch, observer, fault>>

\* The request is written through that pointer: it is kept when the connection has
\* its socket, dropped when it has none.  The socket of a failed handshake is freed
\* and still set.  The time for m_lastData is read.
Send ==
  /\ call.item # NoInstrument /\ call.conn # 0 /\ call.stamp = "none"
  /\ \/ /\ link[call.conn] \in {"destroyed", "failed"}
        /\ fault' = TRUE
        /\ UNCHANGED <<asked, call>>
     \/ /\ link[call.conn] # "destroyed"
        /\ asked' = IF link[call.conn] \in {"connecting", "open"}
                    THEN asked \union {to[call.item]} ELSE asked
        /\ call' = [call EXCEPT !.stamp = "fresh"]
        /\ UNCHANGED fault
  /\ UNCHANGED <<dictionary, session, list, swapped, made, watch, observer>>

\* m_lastData = now, if there was a connection; m_subscriptions.push_back.
Keep ==
  /\ call.item # NoInstrument /\ (call.conn = 0 \/ call.stamp # "none")
  /\ IF call.conn = 0 THEN UNCHANGED <<lastData, elapsed>>
     ELSE lastData' = call.stamp /\ elapsed' = FALSE
  /\ list' = list \union {call.item}
  /\ made' = made \union {call.item}
  /\ call' = [NoCall EXCEPT !.by = call.by, !.todo = call.todo]
  /\ UNCHANGED <<dictionary, session, asked, swapped, pinged, timer, pings, answered,
                 alarm, dead, observer, fault>>

\* The lock is released; a start ends here.
EndSubscribe ==
  /\ call # NoCall /\ call.todo = {} /\ call.item = NoInstrument
  /\ call' = NoCall
  /\ IF call.by = "owner" THEN owner' = "idle"
     ELSE UNCHANGED owner
  /\ UNCHANGED <<dictionary, started, connection, link, promise, failing, asked, list,
                 swapped, made, watch, observer, fault>>

-----------------------------------------------------------------------------
\* The service thread: the life of the connection.

\* WebSocketClient::run gives a queued connection its socket.
RunConnect ==
  /\ ~failing /\ connection # 0 /\ link[connection] = "queued"
  /\ link' = [link EXCEPT ![connection] = "connecting"]
  /\ UNCHANGED <<dictionary, started, connection, promise, failing, owner,
                 subscriptions, watch, observer, fault>>

Handshake(succeeds) ==
  /\ ~failing /\ connection # 0 /\ link[connection] = "connecting"
  /\ link' = [link EXCEPT ![connection] = IF succeeds THEN "open" ELSE "failed"]
  /\ promise' = IF succeeds THEN "true" ELSE "false"
  /\ failing' = ~succeeds
  /\ dead' = FALSE
  /\ UNCHANGED <<dictionary, started, connection, owner, subscriptions,
                 lastData, pinged, elapsed, timer, pings, answered, alarm, observer, fault>>

\* onConnectFailed goes on after it has released the thread in start.
ClearStarted ==
  /\ failing
  /\ failing' = FALSE
  /\ started' = FALSE
  /\ UNCHANGED <<dictionary, connection, link, promise, owner, subscriptions,
                 watch, observer, fault>>

\* Both onClose.
Close ==
  /\ ~failing /\ Open
  /\ link' = [link EXCEPT ![connection] = "closed"]
  /\ started' = FALSE
  /\ pings' = 0
  /\ book' = {}
  /\ UNCHANGED <<dictionary, connection, promise, failing, owner,
                 subscriptions, lastData, pinged, elapsed, timer, answered, alarm, dead,
                 depth, fault>>

-----------------------------------------------------------------------------
\* Messages, and the watch over their absence.

\* onDataReady: data of some channels, or an event of none of them.
Data(channels) ==
  /\ ~failing /\ Open /\ ~dead
  /\ book' = book \union ({from[c] : c \in channels} \ {NoInstrument})
  /\ lastData' = "fresh" /\ elapsed' = FALSE
  /\ UNCHANGED <<dictionary, session, subscriptions, pinged, timer, pings, answered,
                 alarm, dead, depth, fault>>

\* A pong stops the timer, whichever ping it answers; a handler already queued runs.
Pong ==
  /\ ~failing /\ Open /\ ~dead /\ pings > 0
  /\ pings' = pings - 1
  /\ answered' = TRUE
  /\ timer' = timer \ {"armed"}
  /\ UNCHANGED <<dictionary, session, subscriptions, lastData, pinged, elapsed, alarm,
                 dead, observer, fault>>

\* Mutant: one ping is enough, whatever was received since.
MutPingOnce == lastData = "fresh" /\ ~pinged /\ elapsed

\* checkTimers pings after a silence, and otherwise if it has pinged before:
\* m_pingInterval is a year of nanoseconds.
TimeToPing == lastData = "fresh" /\ (elapsed \/ pinged)

CheckTimers ==
  /\ ~failing /\ Open /\ TimeToPing
  /\ pinged' = TRUE /\ lastData' = "old" /\ elapsed' = FALSE
  /\ pings' = IF pings < MaxPings THEN pings + 1 ELSE pings
  /\ timer' = timer \union {"armed"}
  /\ answered' = FALSE /\ alarm' = FALSE
  /\ call' = IF call.stamp = "fresh" THEN [call EXCEPT !.stamp = "old"] ELSE call
  /\ UNCHANGED <<dictionary, session, asked, list, swapped, made, dead, observer, fault>>

\* Time goes by.
Elapse ==
  /\ lastData = "fresh" /\ ~elapsed
  /\ elapsed' = TRUE
  /\ UNCHANGED <<dictionary, session, subscriptions, lastData, pinged, timer, pings,
                 answered, alarm, dead, observer, fault>>

Expire ==
  /\ "armed" \in timer
  /\ timer' = {"due"}
  /\ UNCHANGED <<dictionary, session, subscriptions, lastData, pinged, elapsed, pings,
                 answered, alarm, dead, observer, fault>>

PingTimeout ==
  /\ "due" \in timer
  /\ timer' = timer \ {"due"}
  /\ book' = {} /\ alarm' = TRUE
  /\ UNCHANGED <<dictionary, session, subscriptions, lastData, pinged, elapsed, pings,
                 answered, dead, depth, fault>>

\* The exchange: it falls silent and keeps the connection.
Die ==
  /\ Open /\ ~dead
  /\ dead' = TRUE
  /\ UNCHANGED <<dictionary, session, subscriptions, lastData, pinged, elapsed, timer,
                 pings, answered, alarm, observer, fault>>

-----------------------------------------------------------------------------
\* REST answers, on the HTTP thread.

\* onDepthResponse invalidates first; NoInstrument stands for everything.
DepthResponse(i) ==
  /\ depth = NoInstrument /\ i \in DOMAIN to
  /\ depth' = from[to[i]]
  /\ book' = IF from[to[i]] = NoInstrument THEN {} ELSE book \ {from[to[i]]}
  /\ UNCHANGED <<dictionary, session, subscriptions, watch, fault>>

DepthAdd ==
  /\ depth # NoInstrument
  /\ book' = book \union {depth}
  /\ depth' = NoInstrument
  /\ UNCHANGED <<dictionary, session, subscriptions, watch, fault>>

-----------------------------------------------------------------------------

Start == StartBegin \/ StartConnect \/ StartFails \/ StartSwap \/ StartSubscribe

Subscribing == (\E i \in call.todo : Look(i)) \/ Send \/ Keep \/ EndSubscribe

Connection == RunConnect \/ (\E ok \in BOOLEAN : Handshake(ok)) \/ ClearStarted \/ Close

Message == Pong \/ \E c \in {{}} \union {{n} : n \in asked} : Data(c)

Watch == CheckTimers \/ Elapse \/ Expire \/ PingTimeout

Rest == (\E i \in Instruments : DepthResponse(i)) \/ DepthAdd

Next ==
  /\ ~fault
  /\ \/ Config \/ Start \/ Stop
     \/ \E instruments \in SUBSET Instruments \ {{}} : Subscribe(instruments)
     \/ Subscribing \/ Connection
     \/ (Open /\ Message) \/ Watch \/ Die \/ Rest

Spec == Init /\ [][Next]_vars

\* Time passes, timers fire and the service thread comes round to checkTimers.
FairSpec ==
  /\ Spec
  /\ WF_vars(~fault /\ CheckTimers)
  /\ WF_vars(~fault /\ ClearStarted)
  /\ WF_vars(~fault /\ Elapse)
  /\ WF_vars(~fault /\ Expire)
  /\ WF_vars(~fault /\ PingTimeout)

-----------------------------------------------------------------------------

\* Whatever clients subscribed to, before, during or between sessions, a start that
\* has returned has asked for on the connection that is open now, and so has every
\* subscribe since: a failed start loses nothing, and neither does one that met a
\* subscribe.
AllAsked ==
  owner = "idle" /\ Open => \A i \in made : to[i] \in asked

\* connector_ws_price.cpp:56, "When no data is received for given time issues a ping
\* request": an exchange that falls silent is noticed, and the observer's books are
\* emptied.  It is not when nothing was ever received or asked, or when the last
\* ping was answered and no data followed, for then no other ping is sent.
SilenceNoticed ==
  /\ Open /\ dead /\ ~alarm /\ call.stamp # "old"
  /\ lastData = "fresh" \/ (lastData = "old" /\ ~answered)
  ~> ~Open \/ fault \/ (alarm /\ book = {})
===============================================================================
