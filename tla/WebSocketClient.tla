---------------------------- MODULE WebSocketClient ----------------------------
(***************************************************************************)
(* WebSocketClient and the life of its connections (platform/websocket.cpp). *)
(* Each connection object has an owner, the thread that creates, connects    *)
(* and destroys it; the service thread turns the requests of the owners into  *)
(* sockets and runs the callbacks of libwebsockets.                          *)
(*                                                                         *)
(* A handle is an address: when its socket is destroyed, the address          *)
(* is free and a later socket may get it.  The model stops when a destroyed   *)
(* object is used, and remembers in mishaps what has gone wrong so far.      *)
(***************************************************************************)
EXTENDS Integers, FiniteSets

CONSTANTS Connections,  \* connection objects
          Handles,      \* addresses of sockets
          NULL,
          MaxSockets    \* bound: sockets made

ASSUME NullAssumption == NULL \notin Connections \union Handles
ASSUME FiniteAssumption == IsFiniteSet(Connections) /\ IsFiniteSet(Handles)
ASSUME BoundAssumption == MaxSockets \in Nat

VARIABLES
  life,               \* where each owner is with its connection
  webSocket,          \* m_webSocket of each connection
  info,               \* m_connectInfo: "garbage" until connect fills it, "used", "zero"
  addConnections,     \* m_addConnections
  removeConnections,  \* m_removeConnections
  connections,        \* m_connections
  numConnections,     \* m_numConnections
  changed,            \* m_changed
  running,            \* m_running; "done" when the client is destroyed
  pc,                 \* where the service thread is
  callback,           \* the callback it is in: handle, connection, reason
  socket,             \* external: the state of the socket at each address
  user,               \* *(WebSocketConnection**) of each socket
  cell,               \* the socket whose user pointer an owner is about to clear
  made,               \* sockets made so far
  mishaps,            \* what has happened that the client does not recover from
  crashed             \* a destroyed object was used

owners == <<life, webSocket, info>>
lists == <<addConnections, removeConnections, connections, numConnections, changed>>
sockets == <<socket, user, cell, made>>
vars == <<owners, lists, running, pc, callback, sockets, mishaps, crashed>>

NoCallback == [handle |-> NULL, conn |-> NULL, reason |-> "none"]

Init ==
  /\ life = [c \in Connections |-> "unborn"]
  /\ webSocket = [c \in Connections |-> NULL]
  /\ info = [c \in Connections |-> "garbage"]
  /\ addConnections = {} /\ removeConnections = {} /\ connections = {}
  /\ numConnections = 0
  /\ changed = FALSE
  /\ running = "yes"
  /\ pc = "top"
  /\ callback = NoCallback
  /\ socket = [h \in Handles |-> "free"]
  /\ user = [h \in Handles |-> NULL]
  /\ cell = [c \in Connections |-> NULL]
  /\ made = 0
  /\ mishaps = {}
  /\ crashed = FALSE

Live(h) == socket[h] # "free"

-----------------------------------------------------------------------------
\* The owners.  The client is not being destroyed while they make calls.

Move(c, from, to) ==
  /\ running = "yes"
  /\ life[c] = from
  /\ life' = [life EXCEPT ![c] = to]

\* createConnection: the insertion into m_boundConnections takes no lock.
BeginCreate(c) ==
  /\ Move(c, "unborn", "creating")
  /\ UNCHANGED <<webSocket, info, lists, running, pc, callback, sockets, mishaps,
                 crashed>>

EndCreate(c) ==
  /\ Move(c, "creating", "idle")
  /\ UNCHANGED <<webSocket, info, lists, running, pc, callback, sockets, mishaps,
                 crashed>>

\* connect and reconnect: without a lock, nothing to do when there is a socket.
\* m_connectInfo is written, though an earlier call may still wait in m_addConnections.
BeginConnect(c) ==
  /\ Move(c, "idle", "connecting")
  /\ webSocket[c] = NULL
  /\ info' = [info EXCEPT ![c] = "filled"]
  /\ mishaps' = mishaps \union (IF c \in addConnections THEN {"twice"} ELSE {})
  /\ UNCHANGED <<webSocket, lists, running, pc, callback, sockets, crashed>>

\* add
EndConnect(c) ==
  /\ Move(c, "connecting", "idle")
  /\ addConnections' = addConnections \union {c}
  /\ changed' = TRUE
  /\ UNCHANGED <<webSocket, info, removeConnections, connections, numConnections,
                 running, pc, callback, sockets, mishaps, crashed>>

\* lws_wsi_user(m_webSocket): m_webSocket is read anew, and the socket is used.
LoadUser(c) ==
  IF webSocket[c] # NULL /\ Live(webSocket[c])
  THEN cell' = [cell EXCEPT ![c] = webSocket[c]] /\ UNCHANGED crashed
  ELSE crashed' = TRUE /\ UNCHANGED cell

\* *wsc = NULL, unless the socket has gone and its user pointer with it.
ClearUser(c) ==
  /\ IF cell[c] # NULL
     THEN user' = [user EXCEPT ![cell[c]] = NULL] /\ UNCHANGED crashed
     ELSE crashed' = TRUE /\ UNCHANGED user
  /\ cell' = [cell EXCEPT ![c] = NULL]

\* disconnect takes no lock and tells the client nothing: m_webSocket is checked,
\* read again and used, and set to NULL at the end.
BeginDisconnect(c) ==
  /\ Move(c, "idle", "leaving")
  /\ webSocket[c] # NULL
  /\ UNCHANGED <<webSocket, info, lists, running, pc, callback, sockets, mishaps,
                 crashed>>

DisconnectLoad(c) ==
  /\ Move(c, "leaving", "letting")
  /\ LoadUser(c)
  /\ UNCHANGED <<webSocket, info, lists, running, pc, callback, socket, user, made,
                 mishaps>>

DisconnectStore(c) ==
  /\ Move(c, "letting", "dropping")
  /\ ClearUser(c)
  /\ mishaps' = mishaps \union {"dropped"}
  /\ UNCHANGED <<webSocket, info, lists, running, pc, callback, socket, made>>

EndDisconnect(c) ==
  /\ Move(c, "dropping", "idle")
  /\ info' = [info EXCEPT ![c] = "zero"]
  /\ webSocket' = [webSocket EXCEPT ![c] = NULL]
  /\ UNCHANGED <<lists, running, pc, callback, sockets, mishaps, crashed>>

\* The destructor: m_closing is set; detach begins with m_boundConnections.erase,
\* again without a lock.
BeginDestroy(c) ==
  /\ Move(c, "idle", "erasing")
  /\ UNCHANGED <<webSocket, info, lists, running, pc, callback, sockets, mishaps,
                 crashed>>

EndErase(c) ==
  /\ Move(c, "erasing", "removing")
  /\ UNCHANGED <<webSocket, info, lists, running, pc, callback, sockets, mishaps,
                 crashed>>

\* The critical section of remove.
Removed(c) ==
  /\ addConnections' = addConnections \ {c}
  /\ IF webSocket[c] = NULL
     THEN UNCHANGED <<removeConnections, changed>>
     ELSE /\ removeConnections' = removeConnections \union {webSocket[c]}
          /\ changed' = TRUE

DestroyRemove(c) ==
  /\ Move(c, "removing", "clearing")
  /\ Removed(c)
  /\ UNCHANGED <<webSocket, info, connections, numConnections, running, pc, callback,
                 sockets, mishaps, crashed>>

\* The rest of the destructor, as in disconnect: m_webSocket is checked,
DestroyCheck(c) ==
  /\ Move(c, "clearing", IF webSocket[c] = NULL THEN "freeing" ELSE "unhooking")
  /\ UNCHANGED <<webSocket, info, lists, running, pc, callback, sockets, mishaps,
                 crashed>>

\* read again and used,
DestroyLoad(c) ==
  /\ Move(c, "unhooking", "storing")
  /\ LoadUser(c)
  /\ UNCHANGED <<webSocket, info, lists, running, pc, callback, socket, user, made,
                 mishaps>>

DestroyStore(c) ==
  /\ Move(c, "storing", "freeing")
  /\ ClearUser(c)
  /\ UNCHANGED <<webSocket, info, lists, running, pc, callback, socket, made, mishaps>>

\* and m_connectInfo.userdata deleted, whatever it is.
DestroyFree(c) ==
  /\ Move(c, "freeing", "destroyed")
  /\ crashed' \in {FALSE, info[c] = "garbage"}
  /\ mishaps' = mishaps \union (IF callback.conn = c THEN {"destroyed"} ELSE {})
                         \union (IF info[c] = "garbage" THEN {"unconnected"} ELSE {})
  /\ UNCHANGED <<webSocket, info, lists, running, pc, callback, sockets>>

\* Two owners are inside m_boundConnections at once: undefined behaviour.
BoundSetRace ==
  /\ Cardinality({c \in Connections : life[c] \in {"creating", "erasing"}}) > 1
  /\ crashed' = TRUE
  /\ mishaps' = mishaps \union {"bound"}
  /\ UNCHANGED <<owners, lists, running, pc, callback, sockets>>

Owner(c) ==
  \/ BeginCreate(c) \/ EndCreate(c)
  \/ BeginConnect(c) \/ EndConnect(c)
  \/ BeginDisconnect(c) \/ DisconnectLoad(c) \/ DisconnectStore(c) \/ EndDisconnect(c)
  \/ BeginDestroy(c) \/ EndErase(c) \/ DestroyRemove(c)
  \/ DestroyCheck(c) \/ DestroyLoad(c) \/ DestroyStore(c) \/ DestroyFree(c)

-----------------------------------------------------------------------------
\* The service thread: run().

\* Which handle each connection gets: none when lws_client_connect_via_info fails,
\* and then onConnectFailed is called with m_connectionsSync held.
Results(A) ==
  {r \in [A -> Handles \union {NULL}] :
     /\ \A c \in A : r[c] # NULL => ~Live(r[c])
     /\ \A c, d \in A : c # d /\ r[c] # NULL => r[c] # r[d]}

\* The connections that are to get a socket.
Due == {c \in addConnections : webSocket[c] = NULL}

\* run() reads m_connectInfo while its owner writes it: undefined behaviour.
ConnectInfoRace ==
  /\ pc = "top" /\ running = "yes" /\ changed
  /\ \E c \in Due : life[c] = "connecting"
  /\ crashed' = TRUE
  /\ UNCHANGED <<owners, lists, running, pc, callback, sockets, mishaps>>

\* The critical section at the top of the loop, which takes the user data out of the
\* m_connectInfo it has used.  One that disconnect has zeroed has no address to connect
\* to; one used before has no user data, and that which libwebsockets then allocates is
\* freed twice.
RunChanges ==
  /\ pc = "top" /\ running = "yes" /\ changed
  /\ \E r \in Results(Due) :
       LET got == {c \in DOMAIN r : r[c] # NULL}
           new == {r[c] : c \in got}
           owner == [h \in new |-> CHOOSE c \in got : r[c] = h]
       IN /\ made + Cardinality(new) <= MaxSockets
          /\ made' = made + Cardinality(new)
          /\ webSocket' = [c \in Connections |-> IF c \in got THEN r[c] ELSE webSocket[c]]
          /\ socket' = [h \in Handles |-> IF h \in new THEN "connecting" ELSE socket[h]]
          /\ user' = [h \in Handles |-> IF h \in new THEN owner[h] ELSE user[h]]
          /\ connections' = (connections \union new) \ removeConnections
          /\ numConnections' =
               numConnections + Cardinality(new) - Cardinality(removeConnections)
          /\ mishaps' = mishaps \union
               (IF new \intersect removeConnections # {} THEN {"reused"} ELSE {})
  /\ addConnections' = {}
  /\ removeConnections' = {}
  /\ changed' = FALSE
  /\ crashed' = \E c \in Due : info[c] # "filled"
  /\ info' = [c \in Connections |-> IF c \in Due THEN "used" ELSE info[c]]
  /\ pc' = IF numConnections' = 0 THEN "top" ELSE "service"
  /\ UNCHANGED <<life, cell, running, callback>>

\* Nothing has changed.  With no connections the loop sleeps and starts again.
Serve ==
  /\ pc = "top" /\ running = "yes" /\ ~changed
  /\ numConnections # 0
  /\ pc' = "service"
  /\ UNCHANGED <<owners, lists, running, callback, sockets, mishaps, crashed>>

\* lws_service returns.
EndService ==
  /\ pc = "service" /\ callback = NoCallback
  /\ pc' = "ask"
  /\ UNCHANGED <<owners, lists, running, callback, sockets, mishaps, crashed>>

\* Mutant: the error of lws_callback_on_writable is noted without m_changed.
MutForgetChanged ==
  /\ pc = "ask"
  /\ \E failed \in SUBSET connections :
       /\ removeConnections' = removeConnections \union failed
       /\ mishaps' = mishaps \union (IF failed # {} THEN {"unwritable"} ELSE {})
  /\ crashed' = \E h \in connections : ~Live(h)
  /\ pc' = "top"
  /\ UNCHANGED <<owners, addConnections, connections, numConnections, changed,
                 running, callback, sockets>>

\* lws_callback_on_writable for every handle; the failed ones are to be removed.
AskWritable ==
  /\ pc = "ask"
  /\ \E failed \in SUBSET connections :
       /\ removeConnections' = removeConnections \union failed
       /\ changed' = (changed \/ failed # {})
       /\ mishaps' = mishaps \union (IF failed # {} THEN {"unwritable"} ELSE {})
  /\ crashed' = \E h \in connections : ~Live(h)
  /\ pc' = "top"
  /\ UNCHANGED <<owners, addConnections, connections, numConnections, running,
                 callback, sockets>>

-----------------------------------------------------------------------------
\* Callbacks (wsCallback), from inside lws_service.  The connection is read from
\* the socket first and used afterwards.

Reasons(s) == CASE s = "connecting" -> {"ESTABLISHED", "CONNECTION_ERROR"}
                [] s = "open"       -> {"WRITEABLE", "CLOSED"}
                [] s = "closing"    -> {"CLOSED"}
                [] OTHER            -> {}

BeginCallback(h) ==
  /\ pc = "service" /\ callback = NoCallback
  /\ \E r \in Reasons(socket[h]) :
       callback' = [handle |-> h, conn |-> user[h], reason |-> r]
  /\ UNCHANGED <<owners, lists, running, pc, sockets, mishaps, crashed>>

EndCallback == pc = "service" /\ callback' = NoCallback

\* wsc is NULL: -1 is returned and libwebsockets closes the socket.
OrphanCallback ==
  /\ EndCallback
  /\ callback.reason \in {"ESTABLISHED", "WRITEABLE"} /\ callback.conn = NULL
  /\ socket' = [socket EXCEPT ![callback.handle] = "closing"]
  /\ UNCHANGED <<owners, lists, running, pc, user, cell, made, mishaps, crashed>>

\* m_closing
Closing == {"erasing", "removing", "clearing", "unhooking", "storing", "freeing"}

\* onConnected, onDataReady, checkTimers, onWrite: the handler's business.  A
\* closing connection returns -1 from the ones that look at m_closing.
HandlerCallback ==
  /\ EndCallback
  /\ callback.reason \in {"ESTABLISHED", "WRITEABLE"} /\ callback.conn # NULL
  /\ crashed' = (life[callback.conn] = "destroyed")
  /\ \E s \in IF life[callback.conn] \in Closing THEN {"open", "closing"} ELSE {"open"} :
       socket' = [socket EXCEPT ![callback.handle] = s]
  /\ UNCHANGED <<owners, lists, running, pc, user, cell, made, mishaps>>

\* The socket is destroyed: its address is free, its user pointer is deleted
\* (WSI_DESTROY), also for an owner about to write it.
Freed(h) ==
  /\ socket' = [socket EXCEPT ![h] = "free"]
  /\ user' = [user EXCEPT ![h] = NULL]
  /\ cell' = [c \in Connections |-> IF cell[c] = h THEN NULL ELSE cell[c]]

\* What a close means for an owner: it has taken the handle off the lists before, or
\* it has checked m_webSocket and is about to use it.
Meets(c) ==
  (IF life[c] \in {"clearing", "unhooking", "storing", "freeing", "destroyed"}
   THEN {"raced"} ELSE {})
  \union
  (IF life[c] \in {"leaving", "letting", "unhooking", "storing"} THEN {"crossed"} ELSE {})

\* The handshake failed: onConnectFailed, and no list is told.
ErrorCallback ==
  /\ EndCallback
  /\ callback.reason = "CONNECTION_ERROR"
  /\ crashed' = (callback.conn # NULL /\ life[callback.conn] = "destroyed")
  /\ Freed(callback.handle)
  /\ mishaps' = mishaps \union {"failed"}
  /\ UNCHANGED <<owners, lists, running, pc, made>>

\* CLOSED for a socket that no connection has: the user of the context is not
\* set, and so no client is found.
OrphanClosed ==
  /\ EndCallback
  /\ callback.reason = "CLOSED" /\ callback.conn = NULL
  /\ Freed(callback.handle)
  /\ mishaps' = mishaps \union
       (IF callback.handle \in connections THEN {"orphaned"} ELSE {})
  /\ UNCHANGED <<owners, lists, running, pc, made, crashed>>

\* Mutant: onClose clears m_webSocket before it calls remove.
MutClearFirst ==
  /\ pc = "service"
  /\ callback.reason = "CLOSED" /\ callback.conn # NULL
  /\ LET c == callback.conn
     IN /\ crashed' = (life[c] = "destroyed")
        /\ addConnections' = addConnections \ {c}
        /\ webSocket' = [webSocket EXCEPT ![c] = NULL]
        /\ mishaps' = mishaps \union Meets(c)
  /\ callback' = [handle |-> callback.handle, conn |-> callback.conn, reason |-> "LEFT"]
  /\ UNCHANGED <<life, info, removeConnections, connections, numConnections, changed,
                 running, pc, sockets>>

\* onClose: remove, and m_webSocket is cleared.
CloseCallback ==
  /\ pc = "service"
  /\ callback.reason = "CLOSED" /\ callback.conn # NULL
  /\ LET c == callback.conn
     IN /\ crashed' = (life[c] = "destroyed")
        /\ Removed(c)
        /\ webSocket' = [webSocket EXCEPT ![c] = NULL]
        /\ mishaps' = mishaps \union Meets(c)
  /\ callback' = [handle |-> callback.handle, conn |-> callback.conn, reason |-> "LEFT"]
  /\ UNCHANGED <<life, info, connections, numConnections, running, pc, sockets>>

\* Mutant: the closed handle stays in m_connections.
MutKeepHandle ==
  /\ EndCallback
  /\ callback.reason = "LEFT"
  /\ crashed' = (life[callback.conn] = "destroyed")
  /\ Freed(callback.handle)
  /\ UNCHANGED <<owners, lists, running, pc, made, mishaps>>

\* Mutant: removeHandle takes the handle off the count as well.
MutCountTwice ==
  /\ EndCallback
  /\ callback.reason = "LEFT"
  /\ crashed' = (life[callback.conn] = "destroyed")
  /\ connections' = connections \ {callback.handle}
  /\ numConnections' = numConnections - 1
  /\ Freed(callback.handle)
  /\ UNCHANGED <<owners, addConnections, removeConnections, changed, running, pc,
                 made, mishaps>>

\* The handler of the connection is told, then removeHandle.
EndClose ==
  /\ EndCallback
  /\ callback.reason = "LEFT"
  /\ crashed' = (life[callback.conn] = "destroyed")
  /\ connections' = connections \ {callback.handle}
  /\ Freed(callback.handle)
  /\ UNCHANGED <<owners, addConnections, removeConnections, numConnections, changed,
                 running, pc, made, mishaps>>

Callback ==
  \/ OrphanCallback \/ HandlerCallback \/ ErrorCallback
  \/ OrphanClosed \/ CloseCallback \/ EndClose

-----------------------------------------------------------------------------
\* ~WebSocketClient.  No owner is in the middle of a call.

Stop ==
  /\ running = "yes"
  /\ \A c \in Connections : life[c] \in {"unborn", "idle", "destroyed"}
  /\ running' = "stopping"
  /\ UNCHANGED <<owners, lists, pc, callback, sockets, mishaps, crashed>>

\* The thread has left its loop: the connections are unbound, and destroying the
\* context closes what is open.
Join ==
  /\ running = "stopping" /\ pc = "top"
  /\ running' = "done"
  /\ webSocket' = [c \in Connections |-> NULL]
  /\ crashed' = \E h \in Handles : user[h] # NULL /\ life[user[h]] = "destroyed"
  /\ socket' = [h \in Handles |-> "free"]
  /\ user' = [h \in Handles |-> NULL]
  /\ cell' = [c \in Connections |-> NULL]
  /\ UNCHANGED <<life, info, lists, pc, callback, made, mishaps>>

Service ==
  \/ RunChanges \/ Serve \/ EndService
  \/ AskWritable
  \/ \E h \in Handles : BeginCallback(h)
  \/ Callback

Next ==
  /\ ~crashed
  /\ \/ \E c \in Connections : Owner(c)
     \/ BoundSetRace \/ ConnectInfoRace
     \/ Service
     \/ Stop \/ Join

Spec == Init /\ [][Next]_vars

-----------------------------------------------------------------------------

\* Something has happened that the client does not recover from.
Excused(kinds) == mishaps \intersect kinds # {}

\* m_numConnections, which is counted apart from the set, is the number of handles
\* that are in m_connections or on their way out of it.  What breaks it: an
\* address used again while its removal is pending, a disconnect during the close
\* callback, an error of lws_callback_on_writable followed by the close, and a
\* close that meets the destructor.
CountMatches ==
  ~crashed /\ running = "yes" /\ ~Excused({"dropped", "reused", "unwritable", "raced"})
    => numConnections = Cardinality(connections \union removeConnections)

\* Every handle that run() is about to pass to lws_callback_on_writable is that
\* of a socket that exists, unless a handshake failed or a socket was closed that
\* its connection had left.
HandlesLive ==
  ~crashed /\ running = "yes" /\ ~Excused({"failed", "orphaned"})
    => \A h \in connections : Live(h)

\* The connection at the other end of the socket still has its owner.
Wanted(h) == user[h] # NULL /\ life[user[h]] \in {"idle", "connecting"}

\* A connection in use is served: run() does not sleep, and asks for writable
\* callbacks of it, from which writes and pings start.
Served ==
  ~crashed /\ running = "yes" /\ ~Excused({"reused", "unwritable", "raced"})
    => \A h \in Handles : Wanted(h) => h \in connections /\ numConnections # 0

\* A destroyed object, or memory that was never set, is used only after: a failed
\* handshake, or a socket closed after its connection left it, whose handle stays
\* behind; a close while the owner, in disconnect or in the destructor, is between
\* its check of m_webSocket and the last use of it; the destruction of a connection
\* while its callback runs; the destruction of one that connect was never called
\* for; a connect before the last one got its socket; two owners inside
\* m_boundConnections.
MisuseExplained ==
  crashed => Excused({"failed", "orphaned", "crossed", "destroyed", "unconnected",
                      "twice", "bound"})

\* m_changed, read without the lock and reset under it, is never lost: while
\* anything waits to be added or removed, the next turn of the loop will see it.
PendingIsSeen ==
  ~crashed /\ addConnections \union removeConnections # {} => changed
================================================================================
