# TLA+ models of cryptoadapter

cryptoadapter is a C++ library through which an application trades on
cryptocurrency exchanges: base classes for connectors (`src/src/fin`), a
platform layer (`src/src/platform`: WebSocket and HTTP clients, timers, task
queue, logger) and an example exchange (`src/src/exchange/example`).  Most of
what can go wrong in it happens between threads, and that is what most modules
are about.

Threads: the application's own; one service thread for each `WebSocketClient`
(libwebsockets callbacks, hence every handler of a connector and every call of
an observer); the thread of `HttpClient` (curl); the thread of `TimerService`
(asio); the logger's thread.

## Inventory

| Component | State | Operations | Hard behaviour | What makes it correct |
|---|---|---|---|---|
| Balance reservation (`fin/exchange`) | `m_balances`: two atomics per symbol | `getBalance`, `reserveBalance`, `unreserveBalance`, `updateBalance`, `addSymbol` | compare-and-swap loops against each other and against balance reports; two loads that are not atomic; rollback | the reserve is the sum of what is held; no overcommitment; lock freedom |
| Order requests (`adapter_trade`, `connector_ws_trade`, `fin/order`) | a queue of orders per channel, a spin lock, each order's status and id | `placeOrder`, `cancelOrder`, `getOrderStatus`, four response handlers, `onClose`, `start` | responses carry no request id: the order of pushes, writes and responses must agree; callbacks make calls; connections break | a response is taken for the order it is about; statuses tell the truth; calls return |
| WebSocket write side (`websocket.cpp`) | two buffers, `m_wantWrite`, `m_webSocket` | `write`, `onWrite`, `onClose`, `connect` | flag and pointer read without a lock, buffers swapped under one | a FIFO queue; no lost wake-up |
| WebSocket client (`websocket.cpp`) | sets of connections to add, to remove and open, a count, `m_changed` | `add`, `remove`, `detach`, `removeHandle`, `run`, the callbacks | connections destroyed during a callback; errors during the handshake; the count | the count agrees with the set; no handle is used after it is destroyed; every connection is served |
| Trade session (`connector_ws_trade`) | `m_started`, the promise, ping timer, time stamps of requests | `start`, `stop`, `ping`, `checkTimers`, `onConnected`, `onConnectFailed`, `onClose` | `stop` against the handshake, time-outs against late answers | `start` returns; a time-out is reported when and only when an answer is missing |
| Price adapter (`adapter_price`, `connector_ws_price`) | list of subscriptions, timers, started flag | `subscribe`, `start`, `stop`, `onData`, `onDepthResponse`, time-outs | two threads feed one book; subscriptions around a restart | after a reconnection every subscription is renewed; no stale data after an invalidation |
| Item reservation (`fin/exchange`, `mixed_orderbook`) | reserve per price, one mutex per instrument | `reserveItem`, `unreserveItem`, `getItemReserve`, `unreserveAll` | `unreserveAll` is two critical sections | never more than the entry's amount, never negative |
| Mixed order book | entries indexed by exchange and price | `update`, `clear`, `snapshot` | updates of a known price | the book is what the feed says |
| HTTP client and REST connector | lists of handles to add and to remove, requests | `add`, `remove`, `run`, completion | a request removed by its owner and by completion | each request ends once |
| Task queue, logger | a queue, spin lock, flags | `push`, `flushQueue`, `run`, `stop` | pushes from inside tasks; `stop` before `run` | every task runs once; `stop` stops |
| Timers | one asio timer | `start`, `stop` | `stop` after the expiry was queued | no time-out after an answer |
| Fixed-point numbers | integer, fraction, number of decimals | parsing, comparison, arithmetic | signs, carries, overflow | agreement with rational arithmetic |
| Registry, dictionary, factories, constraints | maps | insert, find | none to speak of | later insertions, missing keys |

How they interact.  An application calls the adapters, which call their
connectors; a connector writes through a `WebSocketConnection` or sends an
`HttpRequest`, and is called back by the service thread, the HTTP thread or the
timer thread, which call the adapter's handlers and, through them, the
application's observer.  Strategies read the mixed order book that an observer
fills, and reserve balances and items of the connectors before they place
orders.

## Modules

| Module | Models |
|---|---|
| `BalanceReserve` | the reservation protocol, one atomic access per step |
| `BalanceLedger` | what it promises: a ledger whose grants are atomic |
| `TradeOrders` | the trade adapter's orders, queues and lock, the connection and the exchange |
| `TradeSession` | start, stop and the callbacks of the trade connector; request time stamps |
| `WebSocketWrite` | the write side of a WebSocket connection |
| `Outbox` | what that promises: a FIFO queue |
| `WebSocketClient` | connection objects, their sockets and the service thread |
| `HttpClient` | requests from creation to deletion, their handlers, the client thread |
| `RequestDesk` | what that promises: a request is deleted once, and answered before or never |
| `PriceAdapter` | subscriptions over sessions, the watch over silence, instrument names |
| `OrderBook` | the mixed order book and the reservation of its items |
| `TaskQueue` | pushing, running and flushing tasks |
| `TaskPool` | what that promises: one list of tasks, each taken once |
| `FixedNumber` | decimal arithmetic |
| `MC...` | constants for TLC (`TradeSession` has only bounds and needs none) |
| `SubscriptionProofs` | theorems and proofs about `PriceAdapter` and `WebSocketWrite` |
| `MarketProofs` | theorems and proofs about `OrderBook` and `FixedNumber` |
| other `...Proofs` | theorems and proofs about the module of that name |

Components are composed by what one module takes for granted and another shows.
`TradeOrders` appends a request to `wire` in one step, under the adapter's lock:
`WebSocketWrite` justifies that, for writes leave in the order of their critical
sections, and those lie inside the adapter's.  `TradeSession` and `PriceAdapter`
number the connection objects and treat each as a unit; its life inside the
client is `WebSocketClient`'s.  `HttpClient` contains all three of its users: the
price adapter over the REST connector, the trade adapter's `fetchLimits`, and a
program.

Two conventions.  When the code does something that C++ leaves undefined, or
that ends the process, the model records it (`crashed`, `fault`) and stops there;
the other properties hold up to that point.  Where a component fails only after
particular events, the model keeps them as history (`mishaps`, `dropped`,
`flushed`) and the property names the events it allows for.  Each of these sets
is minimal: without any member of it, TLC finds the property violated.

Operators named `Mut...` are faulty variants of the definition that follows
them.  No specification uses them; they are there to confirm that each property
fails when the code is broken in the way it guards against.

### BalanceReserve

One entry of `m_balances`.  `total` and `reserve` are its two atomics, `cur`,
`first` and `second` the locals of a call, `out` and `peak` history variables.
A client is one reservation: a thread that calls `reserveBalance`, keeps what it
got and gives it back, in one or several calls of `unreserveBalance`.

* A call begins with `GetBalance`, `ReserveBalance` or `UnreserveBalance`; the
  latter two contain the first load of the reserve.
* `getBalance` is two steps, `LoadTotal` and `LoadReserve`, in either order: the
  subtraction of two atomics does not order its operands.
* `Refuse`, `CasReserve` and `CasReserveFails` are the outcomes of one turn of
  the loop of `reserveBalance`, `Granted` and `Rollback` those of the check
  after it, `CasUnreserve` and `CasUnreserveFails` of a turn of the other loop.
  A weak compare-and-swap may fail for no reason, the strong one may not.

Assumptions.  Amounts are integers: rounding of `double` is not modelled.
Memory is sequentially consistent; the accesses are acquire/release or stronger,
each on a single variable, and the pair is never assumed to be consistent, but a
weak-memory argument has not been made.  A client gives back only what it holds.
`addSymbol` is not called during operation.

### TradeOrders

`queue` is `m_ordersQueue`, `lock` the spin lock, `state` and `id` the members of
each order's status, `pc` and `call` where each thread is.  The service thread
makes calls too, from the observer's callback.

* `Call`, `Enqueue`, `Send` are `placeOrder`, `cancelOrder` and `getOrderStatus`:
  the check of the id, `lock` with `addOrderRequest`, the write with `unlock`.
* `Receive` is `onDataReady` with `removeOrderRequest`; the actions after it are
  the branches of the two handlers, up to `updateOrderStatus`, which stores the
  status and calls the observer.  A handler that took no order from the queue
  dereferences a null handle: `NullOrder`.
* `OrderCancelled` contains the loop whose condition indexes past the document:
  the assertion of the JSON parser ends the process, or, built with `NDEBUG`, it
  reads what is there and ends or goes on.
* `Start` and `Close` are what the session does to requests.  A request written
  without a connection is dropped and the call returns true.
* `Exchange...` and `Answer` are external: each request is answered on its
  channel, in order.  That is what the adapter relies on.

A response carries the order its request was about in `for`, which no action of
the adapter reads.  The properties compare it with the order the adapter took.
The observer is set; `instrumentToExchange` finds the instrument; MARKET orders
take the same path as LIMIT orders.  Account, login and limits requests share
the connection and no state with orders.  `onOrderInfoResponse` is not modelled:
no request of the adapter makes the exchange send one.

### WebSocketWrite

`writeBuffer` and `writtenBuffer` are sequences of messages; the padding and the
parallel lists of sizes are how the code stores them.  `write` is three steps:
the check of `m_webSocket`, the critical section, `lws_cancel_service_pt` with
`m_webSocket` read again.  `SwapBuffers`, `SendMessage` and `EndWrite` are
`onWrite`.  If the socket is closed between the first and the third step of
`write`, libwebsockets is called with a null pointer; the model then stops
(`crashed`), and the properties hold up to that point.

`handshake` is how the handshake of the socket stands.  It is established, or it fails
(`ConnectFailed`), and then nothing resets `m_webSocket`: `connect` makes no other
socket, `write` goes on accepting messages, `Wake` calls libwebsockets with a socket
that is gone, and what has been accepted is never sent.  `WaitingIsSent` allows for
that, as it does for a close.  The destruction of the connection is in
`WebSocketClient`.

Its specification is named `WriteSpec`, from `WriteInit` and `WriteNext`, so that it
can be extended beside `PriceAdapter`, whose requests it takes.

### WebSocketClient

`life` is where the owner of each connection object is with it, `webSocket` its
`m_webSocket`; `socket` and `user` belong to libwebsockets: the state of the
socket at each address and the connection its user data points to.  A handle is
an address, free again when its socket is destroyed.

* `BeginCreate` to `DestroyFree` are `createConnection`, `connect` (and
  `reconnect`), `disconnect` and the destructor with `detach` and `remove`.  Each
  unlocked access of an owner is a step: `disconnect` and the destructor check
  `m_webSocket`, read it again for `lws_wsi_user` (`LoadUser`), write through what
  they got (`ClearUser`), and go on.  A callback may come between any two of them;
  `cell` is the user pointer an owner has got and not yet written.
* `info` is `m_connectInfo`: not initialised until `connect`, emptied by `disconnect`,
  used up by `run`.  The destructor deletes its user data, whatever that is.
* `BoundSetRace` and `ConnectInfoRace` are two threads in `m_boundConnections`, or in
  `m_connectInfo`, at once.
* `RunChanges` is the critical section at the top of `run`; `Serve`, `EndService`
  and `AskWritable` the rest of its loop.
* `BeginCallback` reads the connection from the socket, and one of the five
  callbacks of `wsCallback` uses it afterwards, in another step; that of a close in
  two, `CloseCallback` (`onClose` up to the handler) and `EndClose` (the handler and
  `removeHandle`).
* `Stop` and `Join` are the destructor of the client.

An owner sets the handler of a connection before it connects it, does not call into
it after it has destroyed it, and the client is destroyed when no owner is inside a
call.  Any owner may destroy a
connection while one of its callbacks runs: nothing in the code prevents it.
What a handler does inside a callback is the business of the other modules.

`MisuseExplained` names the seven ways in which something that is gone, or being
written, is used: the handshake failed and the handle stayed (`failed`); a socket that
no connection has was closed and stayed on the list (`orphaned`); a close came while
an owner was about to use the socket (`crossed`); a connection was destroyed under its
callback (`destroyed`), or without ever having been connected (`unconnected`); it was
connected again while it still waited (`twice`); two owners were in
`m_boundConnections` (`bound`).

### TradeSession

`started`, `connection`, `promise`, `timestamps`, `triggered` and `pingTimer` are
members of the connector; `starter` and `stopper` are where the threads in `start`
and `stop` are, and `link` the state of each connection object.  `start` and
`stop` are taken apart at each access to what they share; `OnConnected`,
`OnConnectFailed` with `ClearStarted`, and `OnClose` with `TearDown` are the
callbacks.  `MessageSent`, `Response`, `Push`, `Ping`, `CheckResponse` and
`PingTimeout` are the traffic.  `Unread` is the early return of `onDataReady` for a
message without the members it looks for: it takes no time stamp, and `unread` counts
such answers, by which the time stamps are then too many.  A `pong` is a response like any other: its text
does not contain `"ping"`, so the branch that stops the ping timer is never taken.

At most one call of `start` and one of `stop` run at a time.  `mishaps` has
`interrupted` while a `stop` overlaps a `start`, `overlap` when a connection was
replaced during one of its callbacks, `pushed` when the exchange sent what nobody
asked for.  `Replace` destroys the connection object before; if its handshake has
failed, the destructor may write through the socket that is gone (`freed`), as in
`WebSocketClient`.  The throw of `connect` for an invalid URL, which would leave
`m_started` set, is left out: the URL is a constant of the adapter.

### HttpClient

Each request has one curl handle, named like it; `private` says whether the handle
still points to the request, `handler` and `context` whether its
`ResponseHandler` and `RequestedInterval` still exist.  `CreateRequest` with
`EndCreate`, `Send`, `Add` and `Delete` are the owner's calls; two that are between the
first two are in `m_boundRequests` at once, without a lock (`BoundSetRace`). `ApplyChanges`, `Perform`, `ReadInfo`,
`Report` and `Finish` the loop of `run`, with the handlers in `Report`; `Stop` is
the destructor of the client.

`Calls` gives what a handler makes of an outcome.  `m_timedOut` is not initialised,
so what is no time-out may be reported as one.  A status of 200 whose body was cut
short is reported as the answer.

A program's own request has a handler before it is sent (`m_onReadyStateHandler` is
not initialised either) and may be deleted by its owner at any time; adapters keep
no pointer to theirs and outlive them.  Requests for trades are treated as those
for tickers, whose handlers do nothing.  The composition of URLs and the
conversion of intervals are left out.

`Stage` maps a request to what its users see of it in `RequestDesk`.  The client
clears `m_handle` of a request it deletes, the owner does not; that is how the two
deletions are told apart.

### PriceAdapter

`from` and `to` are the translation tables, filled by `Config` as `std::map::insert`
fills them; `list` is `m_subscriptions` and `swapped` the local list of `start`;
`call` is the call of `subscribe` that holds `m_subscriptionLock`.  The time stamps
are abstracted to what their comparisons tell: `lastData` is `zero`, `old` (not
later than `m_pingSent`) or `fresh`, and `elapsed` says that the data time-out has
passed.  `timer` has `armed` while the timer runs and `due` when its handler is
queued: stopping it does not take back the second.

One owner thread configures before the first start, starts and stops; a client
subscribes to an instrument once.  The exchange may fall silent (`Die`) with the
connection open.  `m_pingInterval`, as it is computed, is longer than any session,
so a second ping always passes that check.  `setConnectorError` keeps no state.
`StartBegin` and `Stop` destroy a connection object; if its handshake has failed, that
may write through a socket that is gone, which is a fault (`Discard`).  Best prices, trades and tickers are data.

### OrderBook

`book` maps an exchange, a direction and a price to an item; `reserve` is the
amount per line of `m_orderBookReserve`; a strategy works on a copy of an item
(`item`), holds what it was granted (`held`) and is inside `unreserveAll` while
`read` is set.  `Erase` and `Insert` are `updateBook`; `Clear`, `SetInstrument`,
`Reserve`, `Unreserve` are the functions of their names; `ReadReserve` and
`UnreserveRead` the two critical sections of `unreserveAll`.

`addInstrument` takes no lock.  `AddInstrument` and `EndAddInstrument` are its two
statements: the entry is made if there is none, and the bids reserved are cleared; then
the asks.  `adding` has the instruments between the two.  A call of a strategy comes
before or after each, or overlaps with it: `Race` is the overlap with a call that
searches the table in which an entry is being made, or that uses what is being cleared,
and the model stops there.  One thread at a time adds the same instrument.

One thread updates the book, since it has no lock.  Strategies give back no more than
they hold, except through `unreserveAll`.  Amounts are small integers, negative
for bids, as `reserveItem` compares them.  Prices with fees order the items and
do nothing else.

What strategies hold of a line is counted as a set of units <strategy, i>, in the
direction of the line (`Toward`, `Share`, `Units`), as in `BalanceReserve`: sums of
that kind can be reasoned about with the theorems on finite sets.

### TaskQueue

`queue`, `local`, `holder`, `hasData`, `running` are `m_queue`, the local queue of
`run`, `m_lock`, `m_hasData` and `m_running`.  An insertion is two steps, so that
two may overlap (`Overlap`); `Push` takes the lock or not as the thread is the run
thread.  `Loop` to `EndProcess` are `run`, `Flush` to `EndFlush` are `flushQueue`,
which may be called by a producer or from `onIdle`.  The destructor is called when
nobody is inside.  A `stop` before `run` has set `m_running` is forgotten.

The list of `TaskPool` is `local` followed by `queue`, so that the exchange of the two
is not seen there.  `run` takes the first of that list; only `flushQueue` on another
thread, which goes to `queue` directly, overtakes what `run` has already taken over.

### FixedNumber

A program holds one number (`x`, with `double` its `m_doubleValue`) and applies
operations of the class to it, with literals as operands; `last` remembers the last
one.  The operators are the functions of `numeric.cpp`: `FromString`, `FromDouble`,
`ToString`, the comparisons, `Sum` and `Difference` with what they carry at the end
(`Carried`), `Product`, `Quotient`, `WithAccuracy`, on longs that wrap around at
`LongMax`.  The table of powers of ten is the constant `TenPowers`, of which the
module assumes what its constructor computes: each entry is ten times the one before,
and a long holds the last.  Where the code asks for a power beyond the table, `get`
throws.  `+=` and `-=` have changed the integer part by then, which is the step
`thrown`; a product or a quotient is not taken (`InTable`); a comparison is not
asked for (`Alignable`).  A quotient beyond a long ends the process, as a divisor of
zero does.

`FixedNumber(const char*)` and `FixedNumber(const std::string&)` do not initialise
`m_base`, and `initFromString` does not set it for "5.": a number that is constructed
has there what memory held, any member of `Garbage` (`AssignNumber`, and every
operand).

Doubles are counted in parts of which `One` make 1, and are the multiples of a spacing
that doubles with their size: the spacings are `Ulps`, and `Mantissa` of them reach the
next.  `Round` takes the nearest, and every operation the code does on doubles is
followed by it: the two products and the subtraction of `initFromDouble`, whose digits
are then cut off (`FromDouble`), the quotient and the sum that make `m_doubleValue` of
a string (`DoubleOf`), and the literal itself (`DoubleRead`).  Numbers of any size are
read as doubles, up to a long (`AssignDouble`).  The `double` clause of
`ArithmeticExact` says that the digits cut off, with all the rounding before, are less
than one unit of the last of them; `DoublesAgree` says that the rounding of
`m_doubleValue` does not put it on the wrong side of another double, if the parts of
the number are doubles themselves (`HeldExactly`), and not by more than that unit for
a number made from a double.  `swap` and
copies do what they say.  The initial states, the next-state relation and the
specification are `NumberInit`, `NumberNext` and `NumberSpec`, because one module holds
the proofs about these and about `OrderBook`.

## Runs

| Run | Bounds | Shows |
|---|---|---|
| `balance` | 2 clients, quantities 1 to 3, balances 0 and 5 | accounting, no overcommitment, the limit of one half, refinement of the ledger, lock freedom |
| `orders` | 2 threads and callbacks, 2 orders of which one IOC, 2 cancels and 1 status request each, 3 connections that break at any point | responses are matched and placements truthful while nothing is lost; placement is reported first, once and always; calls return |
| `websocket_write` | 2 threads and the handlers, 2 writes each, 2 sockets | a FIFO queue, no lost wake-up |
| `websocket_client` | 2 connections, 2 addresses, 2 sockets | the count, the handles and the loop are right except after the mishaps named; what is gone or raced for is used in the seven ways named only |
| `session` | 3 starts, 2 stops, 3 messages | `start` tells the truth and returns; what ends the process and when; time stamps match requests |
| `http` | 2 requests of 5 kinds | each is answered once, truthfully, and always if it was kept; then deleted once, unless its handler threw; refinement of the desk |
| `tasks` | 2 producers, 4 tasks of which one pushes another | no task is lost or run twice; refinement of the pool; what the unlocked push breaks; `stop` ends `run` |
| `book` | 2 exchanges, reservations at 1 of them, 2 instruments, 1 price, 2 strategies, amounts to 2, 3 updates, 2 `addInstrument`, 2 grants | the book is what the feed said; the reserve stays within what was listed and covers what is held |
| `price` | 2 instruments, 3 channels of which one has no instrument, 2 starts, 1 ping on its way | every session asks for everything; silence is noticed |
| `numbers` | 9 literals, longs of 15 bits, doubles of 8 bits read to 2 digits, 2 contents of memory, 3 operations | arithmetic is exact, and printing and comparison agree with the value, but for the cases named |
| `orders_status` | 1 thread, 2 orders, 1 connection | a disagreement, below |
| `session_stop` | 2 starts, 1 stop | a disagreement, below |

Why these bounds are enough for the cases to happen.

* `balance`: one client can swap, fail its check and roll back while the other
  reads, swaps or retries; a balance of 5 leaves room for two quantities of 1, for a
  2 or a 3 only when the other has little, and 0 makes every later check fail.
* `orders`: two threads and the service thread are all the parties of the lock; two
  orders are the fewest that can be taken for each other, two cancels are needed for
  the cancel of what is cancelled, three connections for a loss on one and the
  answers of the next.
* `websocket_client`: the second of two sockets gets an address of its own, while the
  first is open, or that of the first, while its removal is pending.
* `session`: a third start meets callbacks of both connections before it; with
  two stops, one can interrupt and the other end a session.
* `http`: requests do not interact but through the lists and the thread; two
  give every order of adding, completing and deleting.
* `tasks`: one task pushed from the run thread against two locked pushes.
* `book`: a key with two strategies on it, whose item is erased and listed anew with
  another amount under their copies, or two keys.  Each connector has tables of its
  own, so that strategies use one (`Traded`); the other exchange is in the book, where
  a clear must leave it.  Of two calls of `addInstrument` the second finds
  reservations, or the other call half done.
* `price`: the second start finds the subscriptions of the first, a failed start
  and a subscribe in between.
* `numbers`: powers of ten up to the fourth fit a long of 15 bits as those up to
  the eighteenth fit one of 64; the literals have no point, no digits after it,
  a zero after it, a carry, a sign on a fraction alone; doubles of 8 bits hold none of
  0.6, 20.05 and 99.9.

Deadlock is checked in `balance`, where calls go on for ever.  Everywhere else the
bounds, or the end of the program, let the system stop.  Connections and addresses
are symmetric in `websocket_client`, instruments and strategies in
`book`; both check invariants only.

Fairness.  No specification assumes that an application makes a call, but for a task
that runs: its pushes are steps of the thread that runs it, and are taken if they stay
possible.

* `BalanceReserve`: a thread inside a call keeps running, and a weak
  compare-and-swap that could succeed again and again does so once.
* `TradeOrders`: threads run, the exchange answers, the application starts the
  connector; weak fairness is enough for the spin lock because calls are finitely
  many.
* `WebSocketWrite`: the service thread keeps running (`run()` asks for a writable
  callback of each connection after each `lws_service`), and a handshake ends, in
  success or failure: libwebsockets has a time limit.
* `TradeSession`: calls that were begun go on, callbacks return; strong fairness of
  the handshake, because other callbacks may come first again and again, and
  libwebsockets ends it by success or time-out.
* `HttpClient`: its thread runs, a `send` that was begun goes on, and a transfer
  ends, which is strong fairness of the outcome of `curl_multi_perform`: both time
  limits are set on each handle.  Adapters send what they created.
* `TaskQueue`: threads run; the spin lock is wanted finitely often.
* `PriceAdapter`: time passes, timers fire, `checkTimers` is called after each
  `lws_service`.

### Disagreements

Each of these runs checks one statement of the repository and finds a behaviour
of the code that contradicts it.

| Run | The repository says | The code does |
|---|---|---|
| `orders_status` | `order.h:100`: asks for the status | the request goes to the cancel channel, and the order is cancelled |
| `session_stop` | `connector_ws_trade.cpp:76`: `stop` clears the waiting future when a connect is in progress | a `stop` before `start` has made its promise satisfies the old one; `start` then waits for ever |

Seen while modelling, and plain from the lines named.  Balances and orders:

* the reserve counts twice in `reserveBalance` (`exchange.cpp:95`), so that what is
  free is refused; `getBalance` returns the balance net of the reserve where
  `exchange.cpp:58` says as received;
* an accepted IOC order is not cancelled: `cancelOrder` is called before its id is
  stored (`adapter_trade.cpp:207`);
* a cancelled LIMIT order is never reported Cancelled (`adapter_trade.cpp:250`), and
  a second cancel reports it Filled (`:232`);
* `m_ordersQueue` survives a reconnection (`connector_ws_trade.cpp:323`), so that the
  first answers after a loss are taken for lost orders;
* `placeOrder` sends the price as the amount (`adapter_trade.cpp:36`); the copy
  constructor of `OrderStatus` drops the order id (`order.cpp:205`); the loop over a
  cancel's response takes its bound from the element (`adapter_trade.cpp:243`),
  which trips the assertion at `pjson.h:440`.

Connections and sessions:

* a failed handshake leaves the destroyed handle in `m_connections` and in
  `m_webSocket`; a later write, the destructor or a callback request goes to it;
* `disconnect` and the destructor of a connection use `m_webSocket` after they checked
  it, without a lock, while a close clears it (`websocket.cpp:112`, `:37`); the
  destructor of one that was never connected deletes an uninitialised pointer (`:41`);
* a late `onConnectFailed` clears `m_started` of the session after it;
* the trade connector never recognises a `pong`, so that each ping times out;
* the price connector pings only after data newer than the last ping, so that an
  exchange that answers a ping and then falls silent is never noticed; a `pong`
  that comes late stops the timer of a newer ping; `m_lastData` and `m_pingSent`
  survive sessions, and a close does not stop the ping timer.

HTTP:

* `m_timedOut`, `m_method` and `m_onReadyStateHandler` are not initialised;
* a body cut short after status 200 is reported as the answer;
* destroying the client after any request was deleted writes to freed memory
  (`http.cpp:192`); two threads may insert into `m_boundRequests` at once (`:219`);
* the table of limits is taken apart whatever the status and after a time-out
  (`adapter_trade.cpp:467`);
* `onKlineResponse` deletes the request's context and then stores the pointer as the
  interval of each candlestick (`adapter_price.cpp:64`); on an error it is never
  deleted;
* `fetchCandleSticks` leaves the type empty for intervals up to half an hour and
  divides the interval in place; `fetchStack` passes a null name for an instrument
  without one.

Books and numbers:

* `toDouble` after arithmetic returns the number before it, and of a negated number 0
  (`numeric.cpp:198`);
* an update of a listed price keeps the old amount (`mixed_orderbook.cpp:36`);
* `addInstrument` clears reservations that are held, without the lock that
  `reserveItem` takes, and `unreserveAll` gives back what others hold on the same line;
* 0.6 + 0.6 prints as 0.12 and 0.5 + 0.5 as 0.10; 3 times 1.25 is 3, when 3 is written
  without a point; "-0.5" reads as 0.5; `setAccuracy` changes the value;
  "5." has what memory held for digits;
* a number of 18 digits and one without a point can be neither added nor compared:
  aligning them asks for the 19th power of ten, and `+=` has changed `m_int` by then.

## Proofs

For every value of the constants that satisfies the modules' assumptions.  Every
safety property, action property and refinement that the passing runs check is a
theorem.  The types of the variables are part of each inductive invariant, and so
they are proved; the runs do not spend a property on them.
Each proof has an inductive invariant `IInv`, which TLC has checked on the runs'
instances as well; this section says what it adds to the properties, and why they
are not inductive without it.

**Reservation.**  `TypeCorrect`, `AccountingCorrect`, `OverReserveImpossible`
(`BalanceReserveProofs`).  The sum over clients is the number of pairs of a
client and a unit it has, so lemmas on it are about the cardinality of finite
sets (`SumUpdate`: changing one client's entry changes the sum by the
difference).  The inductive invariant adds `Consistent` to the three properties:
at each point of its call, what a client has inside the reserve, and that the
total it loaded is at most the peak and the reserve it loaded not negative.
Without it `NeverOverReserved` is not inductive: a swap is justified by values
loaded earlier.

**Ledger.**  `GrantedHalfCorrect`, `LedgerImplemented` (`BalanceReserveProofs`).
A client between the two loads of its second check has, in what it has loaded,
a witness that covers what the others were granted (`Covered`, `Vouches`).  From
it a grant takes at most half of a balance that was reported, and the step that
returns true is a `Grant` of the ledger.

**Orders.**  `ResponseIsMatched`, `PlacementIsTruthful`, `NullOrderOnlyByStatus`, and
the action property `PlacementIsReportedFirst` (`TradeOrdersProofs`).  Requests and
responses on their way are one line, the responses first.  `Queued` says that the
messages of a channel embed, in order, into its queue, and fill it as long as
nothing was lost; a request between push and write is the last entry (`Control`:
the lock is held from one to the other).  A loss removes messages and leaves
entries, so the embedding survives it and the queue is never short, which is
`NoNullOrder`.  The channel whose responses a status request takes is left out of
it from then on.  `Once` and `Answers` follow the one request that places an order
through the line: it is there once, and its answer agrees with what the exchange
did.  `First` says that until then nothing else of the order is under way.

**Session.**  `StartIsTruthful`, `FaultsAreExplained`, `TimestampsAreRight`
(`TradeSessionProofs`).  `Fresh`, `Promised` and `Kept` tie the promise to the
handshake: while one is under way, either a start waits for a promise without a
value or a stop is about to destroy its connection; a value of true was set for
the connection that start has made.  `Reported` says that a start that is over, or
about to replace the connection, has reported the one there is, and that a failed
handshake was not an established one: so it has reported false of a connection whose
destruction touches freed memory.  `Numbered`, `Current` and `Running` say which
connection is alive and which one a callback belongs to.  Each holds until a
connection is replaced under its callback, as the properties do.

**HTTP.**  `HandlersAreCalledOnce`, `FaultsAreExplained` (`HttpClientProofs`).
`Sending` and `Reporting` say where a request, its handle and its transfer are, so
that the one being reported has not been answered; `Undropped` says that while
owners keep what they have sent, a finished request is queued for removal once, and
is not the one being reported.

**Desk.**  `DeskImplemented` (`HttpClientProofs`).  `Removing` says that a handle that
is going to be removed and still points to its request is that of an answered one, and
that the handle of a deleted request points to it only when it has been cleaned up;
`Unborn`, that a request is kept or not from the moment it is made.  Critical section,
report and withdrawal are then steps of the desk, and everything else stutters.

**WebSocket client.**  `ChangesAreSeen`, `MisuseIsExplained`, `HandlesAreLive`,
`CountIsRight`, `ConnectionsAreServed` (`WebSocketClientProofs`).  The invariant is that of the types, `MisuseExplained`, and,
as long as nothing has been misused, `Sound`: its parts are the following and the other
properties.  `Mutual`, `CallbackKept` and `Pointed` relate the two pointers between a connection and its
socket, and the copy of one that a callback holds while the lock is free; `Loaded` and
`Crossing` do so for an owner between two of its unlocked accesses, and `Waiting` and
`Filled` tie `m_connectInfo` to the list of connections that wait.  `Kept`
says which handles of the loop are live and when: for the turn that has just seen
the changes, always.  `Listed` and `Counted` are about the lists: each connection
has a handle of its own there until it is removed, and the count, which is kept
apart, never falls below their size.  `Served` needs the inequality after a
disconnect has broken the equality.

**Subscriptions.**  `SubscriptionsAreAsked` (`SubscriptionProofs`).  A subscription is
in `m_subscriptions`, or in the hands of start (`Remembered`).  `Starting` ties the
place of start to the state of the connection; with it, a call that found no
connection, or an earlier one, belongs to a time before start takes the list over,
or meets no open connection (`Calling`).  So what is in the list was asked for,
unless start has yet to take it over (`Asked`).

**Writes.**  `TypeCorrect`, `FlagCorrect`, `OutboxImplemented`
(`SubscriptionProofs`).  The invariant is `FlagMatchesBuffer`: the flag is set
exactly while messages wait, and outside the loop the other buffer is empty.
The swap then leaves the concatenation of the two as it was, and each turn of the
loop takes its head.

**Order book.**  `BookFollowsFeed`, `ReserveWithinListed`, `ReserveIsHeld`
(`MarketProofs`).  `Peaks` keeps the copies of items that strategies work on,
stale ones included, within the largest amount of their line; `Holdings` gives what
is held the sign of its direction, so that the units can be counted; `Readings` says
that nobody else changes what is held between the two critical sections of
`unreserveAll`.

**Tasks.**  `NoTaskIsLost`, `FaultsAreExplained` (`TaskQueueProofs`).  A task is counted
where it is: in the two queues, on the threads, in the history.  `Once` says that it
is inserted once; the destructor, which deletes the set of what is queued, conserves
nothing without it.  `Emptied` says that the list that `run` has taken is empty when
it takes the next, `Locked` who holds the lock, and `Pushing` that a thread pushes
for its task or is a producer between its calls: two threads in the queue are then a
task's push and something else.

**Pool.**  `PoolImplemented` (`TaskQueueProofs`).  `Emptied` makes the exchange of the
two queues a stutter, and lets the run thread take the oldest task even when it
flushes: its own list is empty then.  That an accepted task is a new one follows from
the counts of `Conserved`.

**Numbers.**  `NumbersAreExact`, `NumbersLookRight` (`MarketProofs`), for any literals,
any table, any width of a long, any contents of memory, any number of operations, and
any spacings of doubles that `DoublesAssumption` and `ReachAssumption` allow: each is
twice the one before, the coarsest reaches beyond a long, and `Mantissa` is even.  (That
no double below 1 has digits that round up to 1 is `BelowOneAssumption`, of the format;
TLC evaluates it on the run's.)  The inductive invariant
`NumberIInv` adds `Sound` to the two properties: the exponent is -1 or in the table,
and a number without a point has no digits.  Without it a sum could align digits with
the power of -1, which is 0.  What an operation does follows from `Sound` alone, so
most of the proof is about the operators:

* powers: `PowerSplit` and `PowerGrows`, by the least exponent for which they fail
  (`LeastNatural`), since induction over data is out of the prover's reach;
* division toward zero: `Division` gives quotient and remainder with their signs and
  bounds, `ExactDivision` says when nothing is left;
* alignment: `AtParts` and `LiftedParts` take a number to more digits, where the sums,
  differences and comparisons of the properties are those of integers;
* normal form: `OrderParts` says that such numbers are ordered by their integer parts
  first, which is what makes the comparisons right; `CarriedNormal` goes through the
  cases of the carry; `ProductNormal` needs that the three terms of a product have one
  sign;
* text: `DigitsParts` for the width `toString` prints;
* rounding: `NearestParts` and `NearestBounds` say where the nearest multiple of a
  spacing lies, `RoundOrder` that rounding keeps the order, `RoundTwice` that what is
  rounded is a double;
* doubles: `PartBelow` and `WholeDouble` for the parts before and after the point,
  `DigitsOfDouble` and `DoubleParts` for the digits that are read, `RoundedSum` and
  `ReadDouble` for the sum that makes the double of a string.

Only model-checked: lock freedom and the other liveness properties
(`LockFree`, `PlacementReported`, `CallsReturn`, `WaitingIsSent`, `StartReturns`,
`SentIsAnswered`, `AnsweredIsDeleted`, `PushedRuns`, `StopEndsRun`,
`SilenceNoticed`), which are beyond the prover.  No module declares a recursive
operator, so each can be proved about as it stands.

## Plan

1. An action property: `wire` and `resp` of `TradeOrders` only lose what a broken
   connection loses.
2. An abstract specification of the reservation of an item, with `OrderBook`
   implementing it.
3. `BalanceReserve` with `addSymbol` and several symbols, and its proofs with it.

## Not modelled

* `addSymbol` and unknown symbols during operation: `BalanceReserve` is one entry of a
  map that is filled first.  Login, account info and `config` of the trade adapter.
* The logger: a queue and a thread like those of `TaskQueue`, and formatting.
* The choice of a client by `instance()`, in `WebSocketClient` and `HttpClient`:
  a round robin over a set that is filled at start-up.
* Fragments of WebSocket messages, prices with fees and best prices, commission
  formulas, constraints: data that no property here depends on.  The snapshot
  functions of `mixed_orderbook.h` (lines 167 to 172) would not compile if they
  were used.
* The registry, the dictionary and the factories: maps filled at start-up and
  then read; `PriceAdapter` has the translation tables.
* The JSON parser, which is vendored; request signing, profiling and performance
  logs, which are computation and I/O; the build files, and the tests, which talk to a
  live exchange.
