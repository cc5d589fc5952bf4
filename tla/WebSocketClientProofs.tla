------------------------- MODULE WebSocketClientProofs -------------------------
(***************************************************************************)
(* The life of the connections of WebSocketClient, for any connections and  *)
(* any addresses of sockets: how its handles, its count of them and its      *)
(* flag agree, and what leads to the use of a destroyed object.              *)
(***************************************************************************)
EXTENDS WebSocketClient, FiniteSetTheorems, TLAPS

Lives == {"unborn", "creating", "idle", "connecting", "leaving", "letting", "dropping",
          "erasing", "removing", "clearing", "unhooking", "storing", "freeing",
          "destroyed"}

Types ==
  /\ life \in [Connections -> Lives]
  /\ webSocket \in [Connections -> Handles \union {NULL}]
  /\ info \in [Connections -> {"garbage", "filled", "used", "zero"}]
  /\ addConnections \subseteq Connections
  /\ removeConnections \subseteq Handles /\ connections \subseteq Handles
  /\ numConnections \in Int
  /\ changed \in BOOLEAN /\ crashed \in BOOLEAN
  /\ running \in {"yes", "stopping", "done"} /\ pc \in {"top", "service", "ask"}
  /\ socket \in [Handles -> {"free", "connecting", "open", "closing"}]
  /\ user \in [Handles -> Connections \union {NULL}]
  /\ cell \in [Connections -> Handles \union {NULL}]

\* Before the destructor has called remove.
Removing == {"clearing", "unhooking", "storing", "freeing", "destroyed"}
Held(c) == life[c] \notin Removing

\* After disconnect or the destructor has cleared the user pointer of the socket.
Unhooked == {"dropping", "freeing", "destroyed"}

\* Between the check of m_webSocket and its last use.
Loading == {"leaving", "unhooking"}
Storing == {"letting", "storing"}

\* The close callback of the socket has called onClose's remove.
Left(h) == callback.handle = h /\ callback.reason = "LEFT"

\* No owner is in the middle of a call once the client is being destroyed.
Quiet == running # "yes" => \A c \in Connections : life[c] \in {"unborn", "idle", "destroyed"}

\* Between the checks of m_webSocket in disconnect and its end.
Leaving == {"leaving", "letting", "dropping"}

\* A connection waits for a socket only before it is removed, and a close takes it
\* off the list.
Waiting ==
  \A c \in addConnections : Held(c) /\ (life[c] \in Leaving => webSocket[c] # NULL)

\* Until connect is called twice, a connection that waits, or is about to, has none,
\* and says where to connect to.
Filled ==
  ~Excused({"twice"}) =>
    \A c \in Connections :
      /\ c \in addConnections =>
           life[c] \notin {"connecting"} \union Leaving
      /\ c \in addConnections \/ life[c] = "connecting" =>
           webSocket[c] = NULL /\ info[c] = "filled"

\* A socket that points to a connection exists; unless it is being closed, its
\* connection points back and has not let go of it.
Mutual ==
  \A h \in Handles : user[h] # NULL =>
    /\ Live(h)
    /\ Left(h) \/ (webSocket[user[h]] = h /\ life[user[h]] \notin Unhooked)

\* The callback's socket exists; its connection, read when the callback began, may
\* have lost it since.
CallbackKept ==
  callback # NoCallback =>
    /\ pc = "service"
    /\ callback.handle \in Handles /\ Live(callback.handle)
    /\ callback.conn \in Connections \union {NULL}
    /\ user[callback.handle] \in {callback.conn, NULL}
    /\ callback.reason = "LEFT" => callback.conn # NULL /\ webSocket[callback.conn] = NULL
    /\ callback.conn # NULL =>
         /\ webSocket[callback.conn] \in {callback.handle, NULL}
         /\ webSocket[callback.conn] = NULL =>
              callback.reason = "LEFT" \/ Excused({"dropped"})
         /\ life[callback.conn] = "destroyed" => Excused({"destroyed"})

\* Until a handshake fails a connection's handle is that of its own socket.
Pointed ==
  ~Excused({"failed"}) =>
    \A c \in Connections : life[c] \notin Unhooked /\ webSocket[c] # NULL =>
      Live(webSocket[c]) /\ user[webSocket[c]] = c

\* The user pointer that an owner is about to clear exists and is its own, unless a
\* handshake failed.
Loaded ==
  \A c \in Connections : cell[c] # NULL =>
    /\ life[c] \in Storing
    /\ Live(cell[c])
    /\ webSocket[c] = cell[c] \/ (webSocket[c] = NULL /\ Left(cell[c]))
    /\ ~Excused({"failed"}) => user[cell[c]] = c

\* The socket that an owner has checked is there until it has used it, unless a close
\* has crossed it or a handshake failed; and an owner about to clear m_webSocket in
\* disconnect has let go of its socket.
Crossing ==
  \A c \in Connections :
    /\ life[c] \in Loading \union Storing /\ webSocket[c] = NULL => Excused({"crossed"})
    /\ life[c] \in Storing /\ cell[c] = NULL => Excused({"crossed", "failed"})
    /\ life[c] = "dropping" => Excused({"dropped"})

\* Until the service thread has ended the handles it keeps are live, as it has just
\* seen at the top of its loop.
Kept ==
  /\ running = "done" => pc = "top"
  /\ running # "done" /\ (~Excused({"failed", "orphaned"}) \/ pc = "top")
       => \A h \in connections : Live(h)

\* While nothing disturbs the lists, each connection has a handle of its own, which
\* is kept until the connection is removed; and the count is never too small.
Undisturbed ==
  running # "done" /\ ~Excused({"reused", "unwritable", "raced"})

Listed ==
  Undisturbed =>
    /\ \A c \in Connections : Held(c) /\ webSocket[c] # NULL =>
         webSocket[c] \in connections \ removeConnections
    /\ \A c, d \in Connections :
         Held(c) /\ Held(d) /\ webSocket[c] # NULL /\ webSocket[c] = webSocket[d] => c = d
    /\ callback # NoCallback /\ callback.conn # NULL /\ callback.reason # "LEFT" =>
         /\ Held(callback.conn) => callback.handle \in connections
         /\ \A d \in Connections : Held(callback.conn) /\ Held(d) /\ d # callback.conn =>
              webSocket[d] # callback.handle
    /\ callback.reason = "LEFT" =>
         /\ callback.handle \in connections
         /\ callback.handle \in removeConnections \/ Excused({"dropped"})
         /\ \A d \in Connections : Held(d) => webSocket[d] # callback.handle

Counted ==
  Undisturbed =>
    LET n == Cardinality(connections \union removeConnections)
    IN numConnections >= n /\ (~Excused({"dropped"}) => numConnections = n)

Sound == /\ Quiet /\ Waiting /\ Filled /\ Mutual /\ CallbackKept /\ Pointed /\ Loaded
         /\ Crossing /\ Kept /\ Listed /\ Counted /\ PendingIsSeen

IInv == Types /\ MisuseExplained /\ (~crashed => Sound)

USE NullAssumption DEF NullAssumption

-----------------------------------------------------------------------------

(* Nothing is made yet.                                                      *)
LEMMA InitIInv == Init => IInv
<1> SUFFICES ASSUME Init PROVE IInv
  OBVIOUS
<1> USE DEF Init
<1>1. Types
  <2>1. /\ life \in [Connections -> Lives]
        /\ webSocket \in [Connections -> Handles \union {NULL}]
        /\ info \in [Connections -> {"garbage", "filled", "used", "zero"}]
        /\ socket \in [Handles -> {"free", "connecting", "open", "closing"}]
        /\ user \in [Handles -> Connections \union {NULL}]
        /\ cell \in [Connections -> Handles \union {NULL}]
    BY DEF Lives
  <2>2. changed \in BOOLEAN /\ crashed \in BOOLEAN
    BY Zenon
  <2>3. addConnections \subseteq Connections /\ removeConnections \subseteq Handles
          /\ connections \subseteq Handles
    OBVIOUS
  <2> QED
    BY <2>1, <2>2, <2>3 DEF Types
<1>2. /\ Quiet /\ Waiting /\ Filled /\ Mutual /\ CallbackKept
      /\ Pointed /\ Loaded /\ Crossing /\ Kept
  BY DEF Quiet, Waiting, Filled, Mutual, CallbackKept, Pointed, Loaded, Crossing, Kept,
         Loading, Storing
<1>3. Listed
  BY DEF Listed, NoCallback
<1>4. Counted
  <2>1. connections \union removeConnections = {}
    OBVIOUS
  <2>2. Cardinality(connections \union removeConnections) = 0
    BY <2>1, FS_EmptySet
  <2> QED
    BY <2>2 DEF Counted
<1>5. PendingIsSeen /\ MisuseExplained
  BY DEF PendingIsSeen, MisuseExplained
<1> QED
  BY <1>1, <1>2, <1>3, <1>4, <1>5 DEF IInv, Sound

(* What has gone wrong is not forgotten.                                     *)
LEMMA ExcusedGrows ==
  ASSUME mishaps \subseteq mishaps'
  PROVE  \A kinds : Excused(kinds) => Excused(kinds)'
BY DEF Excused

(* A step that moves an owner, and nothing else but m_connectInfo, outside of *)
(* the uses of m_webSocket.                                                  *)
LEMMA MoveIInv ==
  ASSUME IInv, ~crashed, NEW c \in Connections, NEW from, NEW to, Move(c, from, to),
         to \in Lives \ (Storing \union {"dropping", "destroyed"}),
         from \notin Storing \union Unhooked,
         from \in Removing <=> to \in Removing,
         to = "freeing" => webSocket[c] = NULL,
         to \in Loading => webSocket[c] # NULL,
         info' \in [Connections -> {"garbage", "filled", "used", "zero"}],
         mishaps \subseteq mishaps', Filled',
         UNCHANGED <<webSocket, lists, running, pc, callback, sockets, crashed>>
  PROVE  IInv'
<1> USE DEF Storing, Loading, Unhooked, Leaving, Removing
<1>1. /\ life' \in [Connections -> Lives] /\ life[c] = from /\ life'[c] = to
      /\ \A d \in Connections \ {c} : life'[d] = life[d]
      /\ running = "yes"
  BY DEF Move, IInv, Types, Lives
<1>2. \A kinds : Excused(kinds) => Excused(kinds)'
  BY ExcusedGrows
<1>3. \A d \in Connections : Held(d)' <=> Held(d)
  BY <1>1 DEF Held
<1>4. \A h : Live(h)' <=> Live(h)
  BY DEF Live, sockets
<1>5. Types'
  BY <1>1 DEF IInv, Types, lists, sockets
<1>6. Quiet' /\ Waiting'
  BY <1>1, <1>3 DEF IInv, Sound, Quiet, Types, Waiting, lists
<1>7. Mutual'
  <2> SUFFICES ASSUME NEW h \in Handles, user[h] # NULL
               PROVE  /\ Live(h)
                      /\ Left(h) \/ (webSocket[user[h]] = h /\ life'[user[h]] \notin Unhooked)
    BY <1>4 DEF Mutual, Left, sockets
  <2>1. /\ user[h] \in Connections /\ Live(h)
        /\ Left(h) \/ (webSocket[user[h]] = h /\ life[user[h]] \notin Unhooked)
    BY DEF IInv, Sound, Types, Mutual
  <2> QED
    BY <1>1, <2>1
<1>8. CallbackKept'
  <2>1. \A d \in Connections : life'[d] = "destroyed" => life[d] = "destroyed"
    BY <1>1
  <2> QED
    BY <1>2, <1>4, <2>1 DEF IInv, Sound, CallbackKept, sockets
<1>9. Pointed'
  <2>1. \A d \in Connections : life'[d] \notin Unhooked => life[d] \notin Unhooked
    BY <1>1
  <2> QED
    BY <1>2, <1>4, <2>1 DEF IInv, Sound, Pointed, sockets
<1>10. Loaded'
  <2>1. cell[c] = NULL
    BY <1>1 DEF IInv, Sound, Loaded
  <2> QED
    BY <1>1, <1>2, <1>4, <2>1 DEF IInv, Sound, Loaded, Left, sockets
<1>11. Crossing'
  BY <1>1, <1>2 DEF IInv, Sound, Crossing, sockets
<1>12. Kept'
  BY <1>2, <1>4 DEF IInv, Sound, Kept, lists
<1>13. Undisturbed' => Undisturbed
  BY <1>2 DEF Undisturbed
<1>14. Listed'
  BY <1>2, <1>3, <1>13 DEF IInv, Sound, CallbackKept, Listed, lists
<1>15. Counted' /\ PendingIsSeen' /\ MisuseExplained'
  BY <1>2, <1>13 DEF IInv, Sound, Counted, PendingIsSeen, MisuseExplained, lists
<1> QED
  BY <1>5, <1>6, <1>7, <1>8, <1>9, <1>10, <1>11, <1>12, <1>14, <1>15 DEF IInv, Sound

(* The moves outside of the uses of m_webSocket.                             *)
LEMMA MovesIInv ==
  ASSUME IInv, ~crashed, NEW c \in Connections,
         \/ BeginCreate(c) \/ EndCreate(c) \/ BeginConnect(c) \/ BeginDisconnect(c)
         \/ BeginDestroy(c) \/ EndErase(c) \/ DestroyCheck(c)
  PROVE  IInv'
<1> USE DEF Storing, Loading, Unhooked, Leaving, Removing, Lives
<1>0. info \in [Connections -> {"garbage", "filled", "used", "zero"}] /\ Filled
  BY DEF IInv, Sound, Types
<1>1. ASSUME NEW from, NEW to, Move(c, from, to), to # "connecting",
             to \in {"leaving", "letting", "dropping"} => webSocket[c] # NULL,
             UNCHANGED <<webSocket, info, lists, mishaps>>
      PROVE  Filled' /\ info' \in [Connections -> {"garbage", "filled", "used", "zero"}]
  <2>1. /\ life'[c] = to /\ \A d \in Connections \ {c} : life'[d] = life[d]
    BY <1>1 DEF Move, IInv, Types
  <2> QED
    BY <1>0, <1>1, <2>1 DEF Filled, Excused, lists
<1>2. CASE BeginCreate(c)
  BY <1>1, <1>2, MoveIInv DEF BeginCreate
<1>3. CASE EndCreate(c)
  BY <1>1, <1>3, MoveIInv DEF EndCreate
<1>4. CASE BeginConnect(c)
  <2>1. /\ Move(c, "idle", "connecting") /\ webSocket[c] = NULL
        /\ info' = [info EXCEPT ![c] = "filled"]
        /\ mishaps \subseteq mishaps' /\ (c \in addConnections => "twice" \in mishaps')
        /\ UNCHANGED <<webSocket, lists, running, pc, callback, sockets, crashed>>
    BY <1>4 DEF BeginConnect
  <2>2. info' \in [Connections -> {"garbage", "filled", "used", "zero"}]
    BY <1>0, <2>1
  <2>3. Filled'
    <3>1. life'[c] = "connecting" /\ \A d \in Connections \ {c} : life'[d] = life[d]
      BY <2>1 DEF Move, IInv, Types
    <3>2. Excused({"twice"}) => Excused({"twice"})'
      BY <2>1, ExcusedGrows
    <3>3. c \in addConnections => Excused({"twice"})'
      BY <2>1 DEF Excused
    <3> QED
      BY <1>0, <2>1, <3>1, <3>2, <3>3 DEF Filled, lists
  <2> QED
    BY <2>1, <2>2, <2>3, MoveIInv
<1>5. CASE BeginDisconnect(c)
  BY <1>1, <1>5, MoveIInv DEF BeginDisconnect
<1>6. CASE BeginDestroy(c)
  BY <1>1, <1>6, MoveIInv DEF BeginDestroy
<1>7. CASE EndErase(c)
  BY <1>1, <1>7, MoveIInv DEF EndErase
<1>8. CASE DestroyCheck(c)
  BY <1>1, <1>8, MoveIInv DEF DestroyCheck
<1> QED
  BY <1>2, <1>3, <1>4, <1>5, <1>6, <1>7, <1>8

(* connect queues the connection.                                            *)
LEMMA EndConnectIInv ==
  ASSUME IInv, ~crashed, NEW c \in Connections, EndConnect(c)
  PROVE  IInv'
<1> USE DEF Storing, Loading, Unhooked, Leaving, Removing
<1>1. /\ life[c] = "connecting" /\ life' = [life EXCEPT ![c] = "idle"] /\ running = "yes"
      /\ addConnections' = addConnections \union {c} /\ changed' = TRUE
      /\ UNCHANGED <<webSocket, info, removeConnections, connections, numConnections,
                     running, pc, callback, sockets, mishaps, crashed>>
  BY DEF EndConnect, Move
<1>2. /\ life' \in [Connections -> Lives] /\ life'[c] = "idle"
      /\ \A d \in Connections \ {c} : life'[d] = life[d]
  BY <1>1 DEF IInv, Types, Lives
<1>3. \A kinds : Excused(kinds)' <=> Excused(kinds)
  BY <1>1 DEF Excused
<1>4. /\ \A d \in Connections : life'[d] \in Unhooked <=> life[d] \in Unhooked
      /\ \A d \in Connections : life'[d] = "destroyed" <=> life[d] = "destroyed"
      /\ \A d \in Connections : Held(d)' <=> Held(d)
  BY <1>1, <1>2 DEF Held
<1>5. \A h : Live(h)' <=> Live(h)
  BY <1>1 DEF Live, sockets
<1>6. Types'
  BY <1>1, <1>2 DEF IInv, Types, sockets
<1>7. Quiet' /\ Waiting'
  BY <1>1, <1>2, <1>4 DEF IInv, Sound, Types, Quiet, Waiting, Held
<1>8. Filled'
  BY <1>1, <1>2, <1>3 DEF IInv, Sound, Filled
<1>9. Mutual'
  BY <1>1, <1>4, <1>5 DEF IInv, Sound, Types, Mutual, Left, sockets
<1>10. CallbackKept'
  BY <1>1, <1>3, <1>4, <1>5 DEF IInv, Sound, CallbackKept, sockets
<1>11. Pointed' /\ Kept'
  BY <1>1, <1>3, <1>4, <1>5 DEF IInv, Sound, Pointed, Kept, sockets
<1>12. Loaded' /\ Crossing'
  BY <1>1, <1>2, <1>3, <1>5 DEF IInv, Sound, Loaded, Crossing, Left, sockets
<1>13. Undisturbed' <=> Undisturbed
  BY <1>1, <1>3 DEF Undisturbed
<1>14. Listed'
  BY <1>1, <1>3, <1>4, <1>13 DEF IInv, Sound, CallbackKept, Listed
<1>15. Counted' /\ PendingIsSeen' /\ MisuseExplained'
  BY <1>1, <1>3, <1>13 DEF IInv, Sound, Counted, PendingIsSeen, MisuseExplained
<1> QED
  BY <1>6, <1>7, <1>8, <1>9, <1>10, <1>11, <1>12, <1>14, <1>15 DEF IInv, Sound

(* The socket that an owner has checked is used: it is there, unless a close *)
(* has crossed it or a handshake failed.                                     *)
LEMMA LoadIInv ==
  ASSUME IInv, ~crashed, NEW c \in Connections, DisconnectLoad(c) \/ DestroyLoad(c)
  PROVE  IInv'
<1> USE DEF Storing, Loading, Unhooked, Leaving, Removing
<1> DEFINE w == webSocket[c]
<1>1. /\ \/ life[c] = "leaving" /\ life' = [life EXCEPT ![c] = "letting"]
         \/ life[c] = "unhooking" /\ life' = [life EXCEPT ![c] = "storing"]
      /\ \/ w # NULL /\ Live(w) /\ cell' = [cell EXCEPT ![c] = w] /\ crashed' = crashed
         \/ ~(w # NULL /\ Live(w)) /\ cell' = cell /\ crashed' = TRUE
      /\ running = "yes"
      /\ UNCHANGED <<webSocket, info, lists, running, pc, callback, socket, user, made,
                     mishaps>>
  BY DEF DisconnectLoad, DestroyLoad, LoadUser, Move
<1>2. /\ life' \in [Connections -> Lives] /\ life[c] \in Loading /\ life'[c] \in Storing
      /\ life[c] = "leaving" <=> life'[c] = "letting"
      /\ life[c] = "unhooking" <=> life'[c] = "storing"
      /\ \A d \in Connections \ {c} : life'[d] = life[d]
  BY <1>1 DEF IInv, Types, Lives
<1>3. \A kinds : Excused(kinds)' <=> Excused(kinds)
  BY <1>1 DEF Excused
<1>4. w \in Handles \union {NULL}
  BY DEF IInv, Types
<1>5. Types'
  <2>1. crashed' \in BOOLEAN
    BY <1>1, Zenon DEF IInv, Types
  <2>2. cell' \in [Connections -> Handles \union {NULL}]
    BY <1>1, <1>4 DEF IInv, Types
  <2> QED
    BY <1>1, <1>2, <2>1, <2>2 DEF IInv, Types, lists
<1>6. CASE ~(w # NULL /\ Live(w))
  <2>1. w = NULL => Excused({"crossed"})
    BY <1>2 DEF IInv, Sound, Crossing
  <2>2. w # NULL => Excused({"failed"})
    BY <1>2, <1>6 DEF IInv, Sound, Pointed
  <2>3. MisuseExplained'
    BY <1>3, <2>1, <2>2 DEF MisuseExplained, Excused
  <2> QED
    BY <1>1, <1>5, <1>6, <2>3 DEF IInv
<1>7. CASE w # NULL /\ Live(w)
  <2>1. /\ cell'[c] = w /\ \A d \in Connections \ {c} : cell'[d] = cell[d]
        /\ crashed' = crashed
    BY <1>1, <1>7 DEF IInv, Types
  <2>2. /\ \A d \in Connections : life'[d] \in Unhooked <=> life[d] \in Unhooked
        /\ \A d \in Connections : life'[d] = "destroyed" <=> life[d] = "destroyed"
        /\ \A d \in Connections : Held(d)' <=> Held(d)
    BY <1>1, <1>2 DEF Held
  <2>3. \A h : Live(h)' <=> Live(h)
    BY <1>1 DEF Live
  <2>4. Quiet' /\ Waiting'
    BY <1>1, <2>2 DEF IInv, Sound, Types, Quiet, Waiting, lists
  <2>5. Filled'
    BY <1>1, <1>2, <1>3 DEF IInv, Sound, Filled, lists
  <2>6. Mutual'
    BY <1>1, <2>2, <2>3 DEF IInv, Sound, Types, Mutual, Left
  <2>7. CallbackKept'
    BY <1>1, <1>3, <2>2, <2>3 DEF IInv, Sound, CallbackKept
  <2>8. Pointed' /\ Kept'
    BY <1>1, <1>3, <2>2, <2>3 DEF IInv, Sound, Pointed, Kept, lists
  <2>9. Loaded'
    <3>1. ~Excused({"failed"}) => user[w] = c
      BY <1>2, <1>7 DEF IInv, Sound, Pointed
    <3> QED
      BY <1>1, <1>2, <1>3, <1>7, <2>1, <2>3, <3>1 DEF IInv, Sound, Loaded, Left
  <2>10. Crossing'
    BY <1>1, <1>2, <1>3, <1>7, <2>1 DEF IInv, Sound, Crossing
  <2>11. Undisturbed' <=> Undisturbed
    BY <1>1, <1>3 DEF Undisturbed
  <2>12. Listed'
    BY <1>1, <1>3, <2>2, <2>11 DEF IInv, Sound, CallbackKept, Listed, lists
  <2>13. Counted' /\ PendingIsSeen' /\ MisuseExplained'
    BY <1>1, <1>3, <2>1, <2>11 DEF IInv, Sound, Counted, PendingIsSeen, MisuseExplained, lists
  <2> QED
    BY <1>5, <2>4, <2>5, <2>6, <2>7, <2>8, <2>9, <2>10, <2>12, <2>13 DEF IInv, Sound
<1> QED
  BY <1>6, <1>7

(* The user pointer is cleared: the socket and the connection are apart.     *)
LEMMA StoreIInv ==
  ASSUME IInv, ~crashed, NEW c \in Connections, DisconnectStore(c) \/ DestroyStore(c)
  PROVE  IInv'
<1> USE DEF Storing, Loading, Unhooked, Leaving, Removing
<1> DEFINE w == cell[c]
<1>1. /\ \/ life[c] = "letting" /\ life' = [life EXCEPT ![c] = "dropping"]
         \/ life[c] = "storing" /\ life' = [life EXCEPT ![c] = "freeing"]
      /\ \/ w # NULL /\ user' = [user EXCEPT ![w] = NULL] /\ crashed' = crashed
         \/ w = NULL /\ user' = user /\ crashed' = TRUE
      /\ cell' = [cell EXCEPT ![c] = NULL]
      /\ running = "yes" /\ mishaps \subseteq mishaps'
      /\ life[c] = "letting" => "dropped" \in mishaps'
      /\ UNCHANGED <<webSocket, info, lists, running, pc, callback, socket, made>>
  BY DEF DisconnectStore, DestroyStore, ClearUser, Move
<1>2. /\ life' \in [Connections -> Lives] /\ life[c] \in Storing
      /\ life'[c] \in {"dropping", "freeing"}
      /\ life[c] = "letting" <=> life'[c] = "dropping"
      /\ \A d \in Connections \ {c} : life'[d] = life[d]
  BY <1>1 DEF IInv, Types, Lives
<1>3. \A kinds : Excused(kinds) => Excused(kinds)'
  BY <1>1, ExcusedGrows
<1>4. /\ w \in Handles \union {NULL}
      /\ cell'[c] = NULL /\ \A d \in Connections \ {c} : cell'[d] = cell[d]
      /\ cell' \in [Connections -> Handles \union {NULL}]
  BY <1>1 DEF IInv, Types
<1>5. /\ \A h \in Handles : user'[h] = user[h] \/ (h = w /\ user'[h] = NULL)
      /\ w # NULL => user'[w] = NULL
      /\ user' \in [Handles -> Connections \union {NULL}]
  BY <1>1, <1>4 DEF IInv, Types
<1>6. Types'
  <2>1. crashed' \in BOOLEAN
    BY <1>1, Zenon DEF IInv, Types
  <2> QED
    BY <1>1, <1>2, <1>4, <1>5, <2>1 DEF IInv, Types, lists
<1>7. CASE w = NULL
  <2>1. Excused({"crossed", "failed"})
    BY <1>2, <1>7 DEF IInv, Sound, Crossing
  <2>2. MisuseExplained'
    BY <1>3, <2>1 DEF MisuseExplained, Excused
  <2> QED
    BY <1>1, <1>6, <1>7, <2>2 DEF IInv
<1>8. CASE w # NULL
  <2>1. crashed' = crashed /\ user'[w] = NULL /\ w \in Handles
    BY <1>1, <1>4, <1>5, <1>8
  <2>2. /\ Live(w) /\ (webSocket[c] = w \/ (webSocket[c] = NULL /\ Left(w)))
        /\ ~Excused({"failed"}) => user[w] = c
    BY <1>8 DEF IInv, Sound, Loaded
  <2>3. /\ \A d \in Connections : life'[d] = "destroyed" <=> life[d] = "destroyed"
        /\ \A d \in Connections : Held(d)' <=> Held(d)
    BY <1>1, <1>2 DEF Held
  <2>4. \A h : Live(h)' <=> Live(h)
    BY <1>1 DEF Live
  <2>5. Quiet' /\ Waiting'
    BY <1>1, <2>3 DEF IInv, Sound, Types, Quiet, Waiting, lists
  <2>6. Filled'
    BY <1>1, <1>2, <1>3 DEF IInv, Sound, Filled, lists
  <2>7. Mutual'
    <3> SUFFICES ASSUME NEW h \in Handles, user'[h] # NULL
                 PROVE  /\ Live(h)
                        /\ Left(h) \/ (webSocket[user'[h]] = h /\ life'[user'[h]] \notin Unhooked)
      BY <1>1, <2>4 DEF Mutual, Left
    <3>1. /\ user'[h] = user[h] /\ user[h] \in Connections /\ h # w
          /\ Live(h)
          /\ Left(h) \/ (webSocket[user[h]] = h /\ life[user[h]] \notin Unhooked)
      BY <1>5, <2>1 DEF IInv, Sound, Types, Mutual
    <3>2. CASE user[h] = c
      BY <2>2, <3>1, <3>2
    <3>3. CASE user[h] # c
      BY <1>2, <3>1, <3>3
    <3> QED
      BY <3>2, <3>3
  <2>8. CallbackKept'
    BY <1>1, <1>3, <1>5, <2>3, <2>4 DEF IInv, Sound, CallbackKept
  <2>9. Pointed'
    <3> SUFFICES ASSUME ~Excused({"failed"})', NEW d \in Connections,
                        life'[d] \notin Unhooked, webSocket[d] # NULL
                 PROVE  Live(webSocket[d]) /\ user'[webSocket[d]] = d
      BY <1>1, <2>4 DEF Pointed
    <3>1. d # c /\ Live(webSocket[d]) /\ user[webSocket[d]] = d
      BY <1>2, <1>3 DEF IInv, Sound, Pointed
    <3>2. webSocket[d] \in Handles /\ webSocket[d] # w
      BY <1>3, <2>2, <3>1 DEF IInv, Types
    <3> QED
      BY <1>5, <3>1, <3>2
  <2>10. Loaded'
    <3> SUFFICES ASSUME NEW d \in Connections, cell'[d] # NULL
                 PROVE  /\ life'[d] \in Storing
                        /\ Live(cell'[d])
                        /\ webSocket[d] = cell'[d] \/ (webSocket[d] = NULL /\ Left(cell'[d]))
                        /\ ~Excused({"failed"})' => user'[cell'[d]] = d
      BY <1>1, <2>4 DEF Loaded, Left
    <3>1. /\ d # c /\ cell'[d] = cell[d] /\ cell[d] \in Handles /\ life[d] \in Storing
          /\ Live(cell[d])
          /\ webSocket[d] = cell[d] \/ (webSocket[d] = NULL /\ Left(cell[d]))
          /\ ~Excused({"failed"}) => user[cell[d]] = d
      BY <1>4 DEF IInv, Sound, Types, Loaded
    <3>2. ~Excused({"failed"}) => cell[d] # w
      BY <2>2, <3>1
    <3> QED
      BY <1>2, <1>3, <1>5, <3>1, <3>2
  <2>11. Crossing'
    <3>1. life'[c] = "dropping" => Excused({"dropped"})'
      BY <1>1, <1>2 DEF Excused
    <3> QED
      BY <1>1, <1>2, <1>3, <1>4, <3>1 DEF IInv, Sound, Crossing
  <2>12. Kept'
    BY <1>1, <1>3, <2>4 DEF IInv, Sound, Kept, lists
  <2>13. Undisturbed' => Undisturbed
    BY <1>1, <1>3 DEF Undisturbed
  <2>14. Listed'
    BY <1>1, <1>3, <2>3, <2>13 DEF IInv, Sound, CallbackKept, Listed, lists
  <2>15. Counted' /\ PendingIsSeen' /\ MisuseExplained'
    BY <1>1, <1>3, <2>1, <2>13 DEF IInv, Sound, Counted, PendingIsSeen, MisuseExplained, lists
  <2> QED
    BY <1>6, <2>5, <2>6, <2>7, <2>8, <2>9, <2>10, <2>11, <2>12, <2>14, <2>15 DEF IInv, Sound
<1> QED
  BY <1>7, <1>8

(* disconnect lets go of the socket, whose user pointer it has cleared.      *)
LEMMA EndDisconnectIInv ==
  ASSUME IInv, ~crashed, NEW c \in Connections, EndDisconnect(c)
  PROVE  IInv'
<1> USE DEF Storing, Loading, Unhooked, Leaving, Removing
<1>1. /\ life[c] = "dropping" /\ life' = [life EXCEPT ![c] = "idle"]
      /\ info' = [info EXCEPT ![c] = "zero"]
      /\ webSocket' = [webSocket EXCEPT ![c] = NULL]
      /\ running = "yes"
      /\ UNCHANGED <<lists, running, pc, callback, sockets, mishaps, crashed>>
  BY DEF EndDisconnect, Move
<1>2. /\ life' \in [Connections -> Lives] /\ life'[c] = "idle"
      /\ webSocket' \in [Connections -> Handles \union {NULL}] /\ webSocket'[c] = NULL
      /\ info' \in [Connections -> {"garbage", "filled", "used", "zero"}]
      /\ \A d \in Connections \ {c} : /\ life'[d] = life[d] /\ webSocket'[d] = webSocket[d]
                                      /\ info'[d] = info[d]
  BY <1>1 DEF IInv, Types, Lives
<1>3. \A kinds : Excused(kinds)' <=> Excused(kinds)
  BY <1>1 DEF Excused
<1>4. /\ \A d \in Connections : Held(d)' <=> Held(d)
      /\ \A d \in Connections : life'[d] = "destroyed" <=> life[d] = "destroyed"
  BY <1>1, <1>2 DEF Held
<1>5. \A h : Live(h)' <=> Live(h)
  BY <1>1 DEF Live, sockets
<1>6. Excused({"dropped"})
  BY <1>1 DEF IInv, Sound, Crossing
<1>7. Types'
  BY <1>1, <1>2 DEF IInv, Types, lists, sockets
<1>8. Quiet' /\ Waiting'
  BY <1>1, <1>4 DEF IInv, Sound, Types, Quiet, Waiting, lists
<1>9. Filled'
  <2>1. ~Excused({"twice"}) => c \notin addConnections
    BY <1>1 DEF IInv, Sound, Filled
  <2> QED
    BY <1>1, <1>2, <1>3, <2>1 DEF IInv, Sound, Filled, lists
<1>10. Mutual'
  <2> SUFFICES ASSUME NEW h \in Handles, user[h] # NULL
               PROVE  /\ Live(h)
                      /\ Left(h) \/ (webSocket'[user[h]] = h /\ life'[user[h]] \notin Unhooked)
    BY <1>1, <1>5 DEF Mutual, Left, sockets
  <2>1. /\ user[h] \in Connections /\ Live(h)
        /\ Left(h) \/ (webSocket[user[h]] = h /\ life[user[h]] \notin Unhooked)
    BY DEF IInv, Sound, Types, Mutual
  <2> QED
    BY <1>1, <1>2, <2>1
<1>11. CallbackKept'
  <2> SUFFICES ASSUME callback # NoCallback
               PROVE  CallbackKept'
    BY <1>1 DEF CallbackKept
  <2>1. callback.conn \in Connections \union {NULL}
    BY DEF IInv, Sound, CallbackKept
  <2>2. callback.conn # NULL => webSocket'[callback.conn] \in {callback.handle, NULL}
    BY <1>2, <2>1 DEF IInv, Sound, CallbackKept
  <2>3. callback.reason = "LEFT" => callback.conn # NULL /\ webSocket'[callback.conn] = NULL
    BY <1>2, <2>1 DEF IInv, Sound, CallbackKept
  <2> QED
    BY <1>1, <1>3, <1>4, <1>5, <1>6, <2>1, <2>2, <2>3 DEF IInv, Sound, CallbackKept, sockets
<1>12. Pointed'
  BY <1>1, <1>2, <1>3, <1>5 DEF IInv, Sound, Pointed, sockets
<1>13. Loaded'
  BY <1>1, <1>2, <1>3, <1>5 DEF IInv, Sound, Loaded, Left, sockets
<1>14. Crossing'
  BY <1>1, <1>2, <1>3 DEF IInv, Sound, Crossing, sockets
<1>15. Kept'
  BY <1>1, <1>3, <1>5 DEF IInv, Sound, Kept, lists
<1>16. Undisturbed' <=> Undisturbed
  BY <1>1, <1>3 DEF Undisturbed
<1>17. Listed'
  <2> SUFFICES ASSUME Undisturbed PROVE Listed'
    BY <1>16 DEF Listed
  <2>1. callback # NoCallback => callback.handle # NULL
    BY DEF IInv, Sound, CallbackKept
  <2>2. callback.reason = "LEFT" => callback # NoCallback
    BY DEF NoCallback
  <2>3. callback # NoCallback /\ callback.conn # NULL => callback.conn \in Connections
    BY DEF IInv, Sound, CallbackKept
  <2> QED
    BY <1>1, <1>2, <1>3, <1>4, <2>1, <2>2, <2>3 DEF IInv, Sound, Listed, lists
<1>18. Counted' /\ PendingIsSeen' /\ MisuseExplained'
  BY <1>1, <1>3, <1>16 DEF IInv, Sound, Counted, PendingIsSeen, MisuseExplained, lists
<1> QED
  BY <1>7, <1>8, <1>9, <1>10, <1>11, <1>12, <1>13, <1>14, <1>15, <1>17, <1>18
  DEF IInv, Sound

(* remove takes the connection's handle off the lists.                       *)
LEMMA DestroyRemoveIInv ==
  ASSUME IInv, ~crashed, NEW c \in Connections, DestroyRemove(c)
  PROVE  IInv'
<1> USE DEF Storing, Loading, Unhooked, Leaving, Removing
<1> DEFINE w == webSocket[c]
<1>1. /\ running = "yes" /\ life[c] = "removing" /\ life' = [life EXCEPT ![c] = "clearing"]
      /\ addConnections' = addConnections \ {c}
      /\ \/ w = NULL /\ removeConnections' = removeConnections /\ changed' = changed
         \/ /\ w # NULL /\ removeConnections' = removeConnections \union {w}
            /\ changed' = TRUE
      /\ UNCHANGED <<webSocket, info, connections, numConnections, running, pc, callback,
                     sockets, mishaps, crashed>>
  BY DEF DestroyRemove, Removed, Move
<1>2. /\ life' \in [Connections -> Lives] /\ life'[c] = "clearing"
      /\ \A d \in Connections \ {c} : life'[d] = life[d]
  BY <1>1 DEF IInv, Types, Lives
<1>3. \A kinds : Excused(kinds)' <=> Excused(kinds)
  BY <1>1 DEF Excused
<1>4. /\ \A d \in Connections : life'[d] = "destroyed" <=> life[d] = "destroyed"
      /\ \A d \in Connections : life'[d] \in Unhooked <=> life[d] \in Unhooked
      /\ \A d \in Connections : Held(d)' <=> Held(d) /\ d # c
      /\ Held(c)
  BY <1>1, <1>2 DEF Held
<1>5. \A h : Live(h)' <=> Live(h)
  BY <1>1 DEF Live, sockets
<1>6. w \in Handles \union {NULL} /\ removeConnections' \subseteq Handles
  BY <1>1 DEF IInv, Types
<1>7. Types'
  BY <1>1, <1>2, <1>6 DEF IInv, Types, sockets
<1>8. Quiet' /\ Waiting'
  BY <1>1, <1>4 DEF IInv, Sound, Types, Quiet, Waiting
<1>9. Filled'
  BY <1>1, <1>2, <1>3 DEF IInv, Sound, Filled
<1>10. Mutual'
  BY <1>1, <1>4, <1>5 DEF IInv, Sound, Types, Mutual, Left, sockets
<1>11. CallbackKept'
  BY <1>1, <1>3, <1>4, <1>5 DEF IInv, Sound, CallbackKept, sockets
<1>12. Pointed' /\ Kept'
  BY <1>1, <1>3, <1>4, <1>5 DEF IInv, Sound, Pointed, Kept, sockets
<1>13. Loaded' /\ Crossing'
  BY <1>1, <1>2, <1>3, <1>5 DEF IInv, Sound, Loaded, Crossing, Left, sockets
<1>14. Undisturbed' <=> Undisturbed
  BY <1>1, <1>3 DEF Undisturbed
<1>15. Listed'
  <2> SUFFICES ASSUME Undisturbed PROVE Listed'
    BY <1>14 DEF Listed
  <2>1. \A d \in Connections : Held(d)' /\ webSocket[d] # NULL =>
          webSocket[d] \in connections \ removeConnections'
    BY <1>1, <1>4 DEF IInv, Sound, Listed
  <2>2. removeConnections \subseteq removeConnections'
    BY <1>1
  <2>3. callback # NoCallback /\ callback.conn # NULL => callback.conn \in Connections
    BY DEF IInv, Sound, CallbackKept
  <2> QED
    BY <1>1, <1>3, <1>4, <2>1, <2>2, <2>3 DEF IInv, Sound, Listed
<1>16. Counted'
  <2> SUFFICES ASSUME Undisturbed PROVE Counted'
    BY <1>14 DEF Counted
  <2>1. w # NULL => w \in connections
    BY <1>4 DEF IInv, Sound, Listed
  <2>2. connections' \union removeConnections' = connections \union removeConnections
    BY <1>1, <2>1
  <2> QED
    BY <1>1, <1>3, <1>14, <2>2 DEF IInv, Sound, Counted
<1>17. PendingIsSeen' /\ MisuseExplained'
  BY <1>1, <1>3 DEF IInv, Sound, PendingIsSeen, MisuseExplained
<1> QED
  BY <1>7, <1>8, <1>9, <1>10, <1>11, <1>12, <1>13, <1>15, <1>16, <1>17 DEF IInv, Sound

(* The end of the destructor: the connection is gone.                        *)
LEMMA DestroyFreeIInv ==
  ASSUME IInv, ~crashed, NEW c \in Connections, DestroyFree(c)
  PROVE  IInv'
<1> USE DEF Storing, Loading, Unhooked, Leaving, Removing
<1>1. /\ running = "yes" /\ life[c] = "freeing" /\ life' = [life EXCEPT ![c] = "destroyed"]
      /\ crashed' \in {FALSE, info[c] = "garbage"}
      /\ mishaps \subseteq mishaps'
      /\ callback.conn = c => "destroyed" \in mishaps'
      /\ info[c] = "garbage" => "unconnected" \in mishaps'
      /\ UNCHANGED <<webSocket, lists, info, running, pc, callback, sockets>>
  BY DEF DestroyFree, Move
<1>2. /\ life' \in [Connections -> Lives] /\ life'[c] = "destroyed"
      /\ \A d \in Connections \ {c} : life'[d] = life[d]
  BY <1>1 DEF IInv, Types, Lives
<1>3. \A kinds : Excused(kinds) => Excused(kinds)'
  BY <1>1, ExcusedGrows
<1>4. /\ \A d \in Connections : life'[d] \in Unhooked <=> life[d] \in Unhooked
      /\ \A d \in Connections : Held(d)' <=> Held(d)
  BY <1>1, <1>2 DEF Held
<1>5. \A h : Live(h)' <=> Live(h)
  BY <1>1 DEF Live, sockets
<1>6. Types'
  <2>1. crashed' \in BOOLEAN
    BY <1>1, Zenon
  <2> QED
    BY <1>1, <1>2, <2>1 DEF IInv, Types, lists, sockets
<1>7. Quiet' /\ Waiting'
  BY <1>1, <1>4 DEF IInv, Sound, Types, Quiet, Waiting, lists
<1>8. Filled'
  BY <1>1, <1>2, <1>3 DEF IInv, Sound, Filled, lists
<1>9. Mutual'
  BY <1>1, <1>4, <1>5 DEF IInv, Sound, Types, Mutual, Left, sockets
<1>10. CallbackKept'
  <2> SUFFICES ASSUME callback # NoCallback
               PROVE  CallbackKept'
    BY <1>1 DEF CallbackKept
  <2>1. ASSUME callback.conn # NULL, life'[callback.conn] = "destroyed"
        PROVE  Excused({"destroyed"})'
    <3>1. CASE callback.conn = c
      BY <1>1, <3>1 DEF Excused
    <3>2. CASE callback.conn # c
      BY <1>2, <1>3, <2>1, <3>2 DEF IInv, Sound, CallbackKept
    <3> QED
      BY <3>1, <3>2
  <2> QED
    BY <1>1, <1>3, <1>5, <2>1 DEF IInv, Sound, CallbackKept, sockets
<1>11. Pointed' /\ Kept'
  BY <1>1, <1>3, <1>4, <1>5 DEF IInv, Sound, Pointed, Kept, lists, sockets
<1>12. Loaded' /\ Crossing'
  BY <1>1, <1>2, <1>3, <1>5 DEF IInv, Sound, Loaded, Crossing, Left, sockets
<1>13. Undisturbed' => Undisturbed
  BY <1>1, <1>3 DEF Undisturbed
<1>14. Listed'
  <2> SUFFICES ASSUME Undisturbed PROVE Listed'
    BY <1>13 DEF Listed
  <2>1. callback # NoCallback /\ callback.conn # NULL => callback.conn \in Connections
    BY DEF IInv, Sound, CallbackKept
  <2> QED
    BY <1>1, <1>3, <1>4, <2>1 DEF IInv, Sound, Listed, lists
<1>15. Counted' /\ PendingIsSeen'
  BY <1>1, <1>3, <1>13 DEF IInv, Sound, Counted, PendingIsSeen, lists
<1>16. MisuseExplained'
  BY <1>1 DEF MisuseExplained, Excused
<1> QED
  BY <1>6, <1>7, <1>8, <1>9, <1>10, <1>11, <1>12, <1>14, <1>15, <1>16 DEF IInv, Sound

(* Two owners inside m_boundConnections, or m_connectInfo read by run()      *)
(* while a second connect writes it.                                         *)
LEMMA RacesIInv ==
  ASSUME IInv, ~crashed, BoundSetRace \/ ConnectInfoRace
  PROVE  IInv'
<1>1. /\ crashed' = TRUE /\ mishaps \subseteq mishaps'
      /\ UNCHANGED <<owners, lists, running, pc, callback, sockets>>
  BY DEF BoundSetRace, ConnectInfoRace
<1>2. \A kinds : Excused(kinds) => Excused(kinds)'
  BY <1>1, ExcusedGrows
<1>3. Types'
  <2>1. crashed' \in BOOLEAN
    BY <1>1, Zenon
  <2> QED
    BY <1>1, <2>1 DEF IInv, Types, owners, lists, sockets
<1>4. MisuseExplained'
  <2>1. CASE BoundSetRace
    BY <2>1 DEF BoundSetRace, MisuseExplained, Excused
  <2>2. CASE ConnectInfoRace
    <3>1. Excused({"twice"})
      BY <2>2 DEF ConnectInfoRace, Due, IInv, Sound, Types, Filled
    <3> QED
      BY <1>2, <3>1 DEF MisuseExplained, Excused
  <2> QED
    BY <2>1, <2>2
<1> QED
  BY <1>1, <1>3, <1>4 DEF IInv

-----------------------------------------------------------------------------

(* What the loop adds to the handles it keeps, and what it takes off them.   *)
LEMMA Recounted ==
  ASSUME NEW K \in SUBSET Handles, NEW N \in SUBSET Handles, NEW R \in SUBSET Handles,
         N \intersect K = {}, N \intersect R = {}
  PROVE  /\ Cardinality(N) \in Int /\ Cardinality(R) \in Int
         /\ Cardinality(K \union R) \in Int
         /\ Cardinality((K \union N) \ R)
              = Cardinality(K \union R) + Cardinality(N) - Cardinality(R)
<1>1. /\ IsFiniteSet(N) /\ IsFiniteSet(R) /\ IsFiniteSet(K \ R) /\ IsFiniteSet(K \union R)
      /\ IsFiniteSet((K \ R) \intersect N) /\ IsFiniteSet((K \ R) \intersect R)
  BY FiniteAssumption, FS_Subset DEF FiniteAssumption
<1>2. /\ Cardinality(N) \in Nat /\ Cardinality(R) \in Nat /\ Cardinality(K \ R) \in Nat
      /\ Cardinality(K \union R) \in Nat
  BY <1>1, FS_CardinalityType
<1>3. (K \ R) \intersect N = {} /\ (K \ R) \intersect R = {}
  OBVIOUS
<1>4. Cardinality((K \ R) \union N) = Cardinality(K \ R) + Cardinality(N) - Cardinality({})
  BY <1>1, <1>3, FS_Union
<1>5. Cardinality((K \ R) \union R) = Cardinality(K \ R) + Cardinality(R) - Cardinality({})
  BY <1>1, <1>3, FS_Union
<1>6. (K \ R) \union N = (K \union N) \ R /\ (K \ R) \union R = K \union R
  OBVIOUS
<1>7. Cardinality({}) = 0
  BY FS_EmptySet
<1>8. Cardinality((K \union N) \ R) = Cardinality(K \ R) + Cardinality(N) - 0
  BY <1>4, <1>6, <1>7
<1>9. Cardinality(K \union R) = Cardinality(K \ R) + Cardinality(R) - 0
  BY <1>5, <1>6, <1>7
<1> QED
  BY <1>2, <1>8, <1>9

(* The critical section at the top of the loop: new sockets for the          *)
(* connections that wait, and removed handles forgotten.                     *)
LEMMA RunChangesIInv ==
  ASSUME IInv, ~crashed, RunChanges
  PROVE  IInv'
<1> USE DEF Storing, Loading, Unhooked, Leaving, Removing
<1>1. PICK r \in Results(Due) :
       LET got == {c \in DOMAIN r : r[c] # NULL}
           new == {r[c] : c \in got}
           owner == [h \in new |-> CHOOSE c \in got : r[c] = h]
       IN /\ made' = made + Cardinality(new)
          /\ webSocket' = [c \in Connections |-> IF c \in got THEN r[c] ELSE webSocket[c]]
          /\ socket' = [h \in Handles |-> IF h \in new THEN "connecting" ELSE socket[h]]
          /\ user' = [h \in Handles |-> IF h \in new THEN owner[h] ELSE user[h]]
          /\ connections' = (connections \union new) \ removeConnections
          /\ numConnections' =
               numConnections + Cardinality(new) - Cardinality(removeConnections)
          /\ mishaps' = mishaps \union
               (IF new \intersect removeConnections # {} THEN {"reused"} ELSE {})
  BY DEF RunChanges
<1>2. /\ pc = "top" /\ running = "yes" /\ changed
      /\ addConnections' = {} /\ removeConnections' = {} /\ changed' = FALSE
      /\ pc' \in {"top", "service"}
      /\ crashed' = (\E c \in Due : info[c] # "filled")
      /\ info' = [c \in Connections |-> IF c \in Due THEN "used" ELSE info[c]]
      /\ UNCHANGED <<life, cell, running, callback>>
  BY DEF RunChanges
<1> DEFINE got == {c \in DOMAIN r : r[c] # NULL}
           new == {r[c] : c \in got}
<1>3. /\ got \subseteq Connections
      /\ \A c \in got : /\ c \in addConnections /\ webSocket[c] = NULL
                        /\ r[c] \in Handles /\ ~Live(r[c])
      /\ \A c, d \in got : c # d => r[c] # r[d]
  BY DEF Results, Due, IInv, Sound, Types
<1>4. \A c \in got : life[c] \notin Unhooked
  BY <1>3 DEF IInv, Sound, Waiting, Held
<1>5. new \subseteq Handles /\ \A h \in new : ~Live(h)
  BY <1>3
<1>6. \A h \in new : \E c \in got : r[c] = h /\ user'[h] = c
  <2> SUFFICES ASSUME NEW h \in new PROVE \E c \in got : r[c] = h /\ user'[h] = c
    OBVIOUS
  <2>1. user'[h] = (CHOOSE c \in got : r[c] = h)
    BY <1>1, <1>5
  <2>2. \E c \in got : r[c] = h
    OBVIOUS
  <2> HIDE DEF got, new
  <2> QED
    BY <2>1, <2>2
<1>7. /\ \A h \in Handles \ new : user'[h] = user[h] /\ socket'[h] = socket[h]
      /\ \A h \in new : socket'[h] = "connecting"
      /\ \A c \in got : webSocket'[c] = r[c] /\ r[c] \in new /\ user'[r[c]] = c
      /\ \A c \in Connections \ got : webSocket'[c] = webSocket[c]
  <2>1. \A c \in got : user'[r[c]] = c
    BY <1>3, <1>6
  <2> QED
    BY <1>1, <1>3, <1>5, <2>1
<1>8. /\ connections' = (connections \union new) \ removeConnections
      /\ numConnections' = numConnections + Cardinality(new) - Cardinality(removeConnections)
      /\ mishaps \subseteq mishaps'
      /\ new \intersect removeConnections # {} => "reused" \in mishaps'
  BY <1>1
<1>9. callback = NoCallback
  BY <1>2 DEF IInv, Sound, CallbackKept
<1>10. \A h \in connections : Live(h)
  BY <1>2 DEF IInv, Sound, Kept
<1>11. \A kinds : Excused(kinds) => Excused(kinds)'
  BY <1>8, ExcusedGrows
<1>12. Types'
  <2>0. crashed' \in BOOLEAN
    BY <1>2, Zenon
  <2>1. webSocket' \in [Connections -> Handles \union {NULL}]
    BY <1>1, <1>3 DEF IInv, Sound, Types
  <2>2. socket' \in [Handles -> {"free", "connecting", "open", "closing"}]
    BY <1>1 DEF IInv, Sound, Types
  <2>3. user' \in [Handles -> Connections \union {NULL}]
    <3>1. \A h \in Handles : user'[h] \in Connections \union {NULL}
      BY <1>3, <1>6, <1>7 DEF IInv, Sound, Types
    <3>2. user' = [h \in Handles |-> user'[h]]
      BY <1>1
    <3> QED
      BY <3>1, <3>2
  <2>4. numConnections' \in Int
    <3>1. IsFiniteSet(new) /\ IsFiniteSet(removeConnections)
      BY <1>5, FiniteAssumption, FS_Subset DEF FiniteAssumption, IInv, Sound, Types
    <3>2. Cardinality(new) \in Nat /\ Cardinality(removeConnections) \in Nat
      BY <3>1, FS_CardinalityType
    <3> QED
      BY <1>8, <3>2 DEF IInv, Sound, Types
  <2>5. connections' \subseteq Handles
    BY <1>5, <1>8 DEF IInv, Sound, Types
  <2> QED
    BY <1>2, <2>0, <2>1, <2>2, <2>3, <2>4, <2>5 DEF IInv, Sound, Types
<1> HIDE DEF got, new
<1>13. \A h \in Handles : Live(h)' <=> Live(h) \/ h \in new
  BY <1>5, <1>7 DEF Live
<1>14. Quiet' /\ Waiting' /\ Filled'
  <2>1. Quiet' /\ Waiting'
    BY <1>2 DEF Quiet, Waiting
  <2>2. Filled'
    <3> SUFFICES ASSUME ~Excused({"twice"})', NEW c \in Connections, life[c] = "connecting"
                 PROVE  webSocket'[c] = NULL /\ info'[c] = "filled"
      BY <1>2 DEF Filled
    <3>1. c \notin addConnections /\ webSocket[c] = NULL /\ info[c] = "filled"
      BY <1>11 DEF IInv, Sound, Filled
    <3> QED
      BY <1>2, <1>3, <1>7, <3>1 DEF Due
  <2> QED
    BY <2>1, <2>2
<1>15. Mutual'
  <2> SUFFICES ASSUME NEW h \in Handles, user'[h] # NULL
               PROVE  Live(h)' /\ webSocket'[user'[h]] = h /\ life[user'[h]] \notin Unhooked
    BY <1>2 DEF Mutual
  <2>1. CASE h \in new
    BY <1>4, <1>6, <1>7, <1>13, <2>1
  <2>2. CASE h \notin new
    <3>1. /\ user'[h] = user[h] /\ user[h] \in Connections
          /\ Live(h) /\ webSocket[user[h]] = h /\ life[user[h]] \notin Unhooked
      BY <1>7, <1>9, <2>2 DEF IInv, Sound, Types, Mutual, Left, NoCallback
    <3>2. user[h] \notin got
      BY <1>3, <3>1
    <3> QED
      BY <1>7, <1>13, <3>1, <3>2
  <2> QED
    BY <2>1, <2>2
<1>16. CallbackKept'
  BY <1>2, <1>9 DEF CallbackKept
<1>17. Pointed' /\ Loaded' /\ Crossing'
  <2>1. Pointed'
    <3> SUFFICES ASSUME ~Excused({"failed"})', NEW c \in Connections,
                        life[c] \notin Unhooked, webSocket'[c] # NULL
                 PROVE  socket'[webSocket'[c]] # "free" /\ user'[webSocket'[c]] = c
      BY <1>2 DEF Pointed, Live
    <3>1. CASE c \in got
      BY <1>7, <3>1
    <3>2. CASE c \notin got
      <4>1. /\ webSocket'[c] = webSocket[c] /\ webSocket[c] \in Handles
            /\ Live(webSocket[c]) /\ user[webSocket[c]] = c
        BY <1>7, <1>11, <3>2 DEF IInv, Sound, Types, Pointed
      <4> QED
        BY <1>5, <1>7, <4>1 DEF Live
    <3> QED
      BY <3>1, <3>2
  <2>2. Loaded'
    <3> SUFFICES ASSUME NEW c \in Connections, cell[c] # NULL
                 PROVE  /\ life[c] \in Storing /\ socket'[cell[c]] # "free"
                        /\ webSocket'[c] = cell[c]
                        /\ ~Excused({"failed"})' => user'[cell[c]] = c
      BY <1>2 DEF Loaded, Live
    <3>1. /\ life[c] \in Storing /\ cell[c] \in Handles /\ Live(cell[c])
          /\ webSocket[c] = cell[c]
          /\ ~Excused({"failed"}) => user[cell[c]] = c
      BY <1>9 DEF IInv, Sound, Types, Loaded, Left, NoCallback
    <3>2. cell[c] \notin new /\ c \notin got
      BY <1>3, <1>5, <3>1
    <3> QED
      BY <1>7, <1>11, <3>1, <3>2 DEF Live
  <2>3. Crossing'
    <3>1. \A c \in Connections : webSocket'[c] = NULL => webSocket[c] = NULL
      BY <1>3, <1>7
    <3> QED
      BY <1>2, <1>11, <3>1 DEF IInv, Sound, Crossing
  <2> QED
    BY <2>1, <2>2, <2>3
<1>18. \A h \in connections' : Live(h)'
  BY <1>5, <1>8, <1>10, <1>13 DEF IInv, Sound, Types
<1>19. Kept'
  BY <1>2, <1>18 DEF Kept
<1>20. ASSUME Undisturbed'
       PROVE  Undisturbed /\ new \intersect removeConnections = {}
  BY <1>2, <1>8, <1>11, <1>20 DEF Undisturbed, Excused
<1>21. Listed'
  <2> SUFFICES ASSUME Undisturbed' PROVE Listed'
    BY DEF Listed
  <2>1. \A c \in Connections : Held(c)' <=> Held(c)
    BY <1>2 DEF Held
  <2>2. \A c \in Connections \ got : Held(c) /\ webSocket[c] # NULL =>
          webSocket[c] \in connections \ removeConnections /\ webSocket[c] \notin new
    BY <1>5, <1>10, <1>20 DEF IInv, Sound, Listed
  <2>3. \A c \in Connections : Held(c) /\ webSocket'[c] # NULL =>
          webSocket'[c] \in connections' \ removeConnections'
    BY <1>2, <1>7, <1>8, <1>20, <2>2
  <2>4. \A c, d \in Connections :
          Held(c) /\ Held(d) /\ webSocket'[c] # NULL /\ webSocket'[c] = webSocket'[d] => c = d
    <3> SUFFICES ASSUME NEW c \in Connections, NEW d \in Connections, Held(c), Held(d),
                        webSocket'[c] # NULL, webSocket'[c] = webSocket'[d], c # d
                 PROVE  FALSE
      OBVIOUS
    <3>1. CASE c \in got /\ d \in got
      BY <1>3, <1>7, <3>1
    <3>2. CASE c \in got /\ d \notin got
      BY <1>7, <2>2, <3>2
    <3>3. CASE c \notin got /\ d \in got
      BY <1>7, <2>2, <3>3
    <3>4. CASE c \notin got /\ d \notin got
      BY <1>7, <1>20, <3>4 DEF IInv, Sound, Listed
    <3> QED
      BY <3>1, <3>2, <3>3, <3>4
  <2> QED
    BY <1>2, <1>9, <2>1, <2>3, <2>4 DEF Listed, NoCallback
<1>22. Counted'
  <2> SUFFICES ASSUME Undisturbed' PROVE Counted'
    BY DEF Counted
  <2>1. new \intersect connections = {}
    BY <1>5, <1>10
  <2>2. /\ Cardinality(new) \in Int /\ Cardinality(removeConnections) \in Int
        /\ Cardinality(connections \union removeConnections) \in Int
        /\ Cardinality((connections \union new) \ removeConnections)
             = Cardinality(connections \union removeConnections)
                 + Cardinality(new) - Cardinality(removeConnections)
    <3>1. connections \in SUBSET Handles
      BY DEF IInv, Sound, Types
    <3>2. removeConnections \in SUBSET Handles
      BY DEF IInv, Sound, Types
    <3>3. new \in SUBSET Handles
      BY <1>5
    <3>4. new \intersect removeConnections = {}
      BY <1>20
    <3> QED
      BY <2>1, <3>1, <3>2, <3>3, <3>4, Recounted, Zenon
  <2>3. Cardinality(connections' \union removeConnections') 
          = Cardinality((connections \union new) \ removeConnections)
    <3>1. connections' \union removeConnections' = (connections \union new) \ removeConnections
      BY <1>2, <1>8
    <3> QED
      BY <3>1
  <2>4. LET n == Cardinality(connections \union removeConnections)
        IN numConnections >= n /\ (~Excused({"dropped"})' => numConnections = n)
    BY <1>11, <1>20 DEF IInv, Sound, Counted
  <2>5. numConnections \in Int
    BY DEF IInv, Sound, Types
  <2> QED
    BY <1>8, <2>2, <2>3, <2>4, <2>5 DEF Counted
<1>23. PendingIsSeen'
  BY <1>2 DEF PendingIsSeen
<1>24. MisuseExplained'
  <2>1. crashed' => Excused({"twice"})
    BY <1>2 DEF Due, IInv, Sound, Types, Filled
  <2> QED
    BY <1>11, <2>1 DEF MisuseExplained, Excused
<1> QED
  BY <1>12, <1>14, <1>15, <1>16, <1>17, <1>19, <1>21, <1>22, <1>23, <1>24
  DEF IInv, Sound

(* The loop goes from one part to the next, or libwebsockets begins a        *)
(* callback of a socket that exists.                                         *)
LEMMA TurnIInv ==
  ASSUME IInv, ~crashed, Serve \/ EndService \/ \E h \in Handles : BeginCallback(h)
  PROVE  IInv'
<1>1. /\ UNCHANGED <<owners, lists, running, sockets, mishaps, crashed>>
      /\ callback = NoCallback /\ pc' \in {"top", "service", "ask"}
      /\ (pc' = "top" => pc = "top") /\ running # "done"
  BY DEF Serve, EndService, BeginCallback, IInv, Sound, CallbackKept, Kept
<1>2. \A kinds : Excused(kinds)' <=> Excused(kinds)
  BY <1>1 DEF Excused
<1>3. (\A h : Live(h)' <=> Live(h)) /\ (\A c : Held(c)' <=> Held(c)) /\ \A h : ~Left(h)
  BY <1>1 DEF Live, Held, Left, NoCallback, owners, sockets
<1>4. Types' /\ Quiet' /\ Waiting'
  BY <1>1, <1>3 DEF IInv, Sound, Types, Quiet, Waiting, owners, lists, sockets
<1>5. Filled' /\ Crossing' /\ Kept'
  BY <1>1, <1>2, <1>3 DEF IInv, Sound, Filled, Crossing, Kept, owners, lists, sockets
<1>6. Mutual' /\ Pointed' /\ Loaded'
  BY <1>1, <1>2, <1>3 DEF IInv, Sound, Mutual, Pointed, Loaded, owners, lists, sockets
<1>7. \/ callback' = NoCallback
      \/ \E h \in Handles : /\ Live(h) /\ pc' = "service" /\ callback'.reason # "LEFT"
                            /\ callback'.handle = h /\ callback'.conn = user[h]
  BY <1>1 DEF Serve, EndService, BeginCallback, Reasons, Live
<1>8. CallbackKept'
  <2> SUFFICES ASSUME callback' # NoCallback PROVE CallbackKept'
    BY DEF CallbackKept
  <2>1. PICK h \in Handles : /\ Live(h) /\ pc' = "service" /\ callback'.reason # "LEFT"
                             /\ callback'.handle = h /\ callback'.conn = user[h]
    BY <1>7
  <2>2. /\ user[h] \in Connections \union {NULL}
        /\ user[h] # NULL => webSocket[user[h]] = h /\ life[user[h]] # "destroyed"
    BY <1>3 DEF IInv, Sound, Types, Mutual, Unhooked
  <2>3. Live(callback.handle)'
    BY <1>1, <2>1 DEF Live, sockets
  <2> QED
    BY <1>1, <2>1, <2>2, <2>3 DEF CallbackKept, owners, sockets
<1>9. Undisturbed' <=> Undisturbed
  BY <1>1, <1>2 DEF Undisturbed
<1>10. Listed'
  <2> SUFFICES ASSUME Undisturbed PROVE Listed'
    BY <1>9 DEF Listed
  <2>1. /\ \A c \in Connections : Held(c) /\ webSocket[c] # NULL =>
             webSocket[c] \in connections \ removeConnections
        /\ \A c, d \in Connections :
             Held(c) /\ Held(d) /\ webSocket[c] # NULL /\ webSocket[c] = webSocket[d] => c = d
    BY DEF IInv, Sound, Listed
  <2>2. ASSUME callback' # NoCallback, callback'.conn # NULL, Held(callback'.conn)
        PROVE  /\ callback'.handle \in connections
               /\ \A d \in Connections : Held(d) /\ d # callback'.conn =>
                    webSocket[d] # callback'.handle
    <3>1. PICK h \in Handles : /\ Live(h) /\ pc' = "service"
                               /\ callback'.handle = h /\ callback'.conn = user[h]
      BY <1>7, <2>2
    <3>2. user[h] \in Connections /\ webSocket[user[h]] = h
      BY <1>3, <2>2, <3>1 DEF IInv, Sound, Types, Mutual
    <3> QED
      BY <2>1, <2>2, <3>1, <3>2
  <2>3. Held(callback.conn)' <=> Held(callback'.conn)
    BY <1>1 DEF Held, owners
  <2>4. callback'.reason # "LEFT"
    BY <1>7 DEF NoCallback
  <2> QED
    BY <1>1, <1>3, <2>1, <2>2, <2>3, <2>4 DEF Listed, owners, lists
<1>11. Counted' /\ PendingIsSeen' /\ MisuseExplained'
  BY <1>1, <1>2, <1>9 DEF IInv, Sound, Counted, PendingIsSeen, MisuseExplained, lists
<1> QED
  BY <1>4, <1>5, <1>6, <1>8, <1>10, <1>11 DEF IInv, Sound

(* Writable callbacks are asked for, of every handle that is kept.           *)
LEMMA AskWritableIInv ==
  ASSUME IInv, ~crashed, AskWritable
  PROVE  IInv'
<1>1. PICK failed \in SUBSET connections :
        /\ removeConnections' = removeConnections \union failed
        /\ changed' = (changed \/ failed # {})
        /\ mishaps' = mishaps \union (IF failed # {} THEN {"unwritable"} ELSE {})
  BY DEF AskWritable
<1>2. /\ crashed' = (\E h \in connections : ~Live(h))
      /\ pc = "ask" /\ pc' = "top"
      /\ UNCHANGED <<owners, addConnections, connections, numConnections, running,
                     callback, sockets>>
  BY DEF AskWritable
<1>3. /\ mishaps \subseteq mishaps' /\ callback = NoCallback
      /\ failed # {} => "unwritable" \in mishaps'
      /\ failed = {} => mishaps' = mishaps
  BY <1>1, <1>2 DEF IInv, Sound, CallbackKept
<1>4. \A kinds : Excused(kinds) => Excused(kinds)'
  BY <1>3, ExcusedGrows
<1>5. (\A h : Live(h)' <=> Live(h)) /\ (\A c : Held(c)' <=> Held(c)) /\ \A h : ~Left(h)
  BY <1>2, <1>3 DEF Live, Held, Left, NoCallback, owners, sockets
<1>6. Types'
  <2>1. crashed' \in BOOLEAN /\ changed' \in BOOLEAN
    BY <1>1, <1>2, Zenon
  <2>2. removeConnections' \subseteq Handles
    BY <1>1 DEF IInv, Types
  <2> QED
    BY <1>2, <2>1, <2>2 DEF IInv, Types, owners, sockets
<1>7. Quiet' /\ Waiting' /\ Mutual'
  BY <1>2, <1>5 DEF IInv, Sound, Types, Quiet, Waiting, Mutual, owners, sockets
<1>8. Filled' /\ CallbackKept' /\ Pointed'
  BY <1>2, <1>3, <1>4, <1>5 DEF IInv, Sound, Filled, CallbackKept, Pointed, owners, sockets
<1>9. Loaded' /\ Crossing'
  BY <1>2, <1>4, <1>5 DEF IInv, Sound, Loaded, Crossing, owners, sockets
<1>10. MisuseExplained' /\ (~crashed' => Kept')
  <2>1. running # "done"
    BY <1>2 DEF IInv, Sound, Kept
  <2>2. crashed' => Excused({"failed", "orphaned"})
    BY <1>2, <2>1 DEF IInv, Sound, Kept
  <2>3. MisuseExplained'
    BY <1>4, <2>2 DEF MisuseExplained, Excused
  <2>4. ~crashed' => Kept'
    BY <1>2, <1>5, <2>1 DEF Kept
  <2> QED
    BY <2>3, <2>4
<1>11. Undisturbed' => Undisturbed /\ failed = {}
  BY <1>2, <1>3, <1>4 DEF Undisturbed, Excused
<1>12. Listed' /\ Counted'
  <2> SUFFICES ASSUME Undisturbed' PROVE Listed' /\ Counted'
    BY DEF Listed, Counted
  <2>1. removeConnections' = removeConnections /\ Undisturbed
    BY <1>1, <1>11
  <2> QED
    BY <1>2, <1>3, <1>4, <1>5, <2>1 DEF IInv, Sound, Listed, Counted, owners
<1>13. PendingIsSeen'
  BY <1>1, <1>2 DEF IInv, Sound, PendingIsSeen
<1> QED
  BY <1>6, <1>7, <1>8, <1>9, <1>10, <1>12, <1>13 DEF IInv, Sound

-----------------------------------------------------------------------------

(* A callback that closes a socket or leaves it open.                        *)
LEMMA LiveCallbackIInv ==
  ASSUME IInv, ~crashed, OrphanCallback \/ HandlerCallback
  PROVE  IInv'
<1> DEFINE h == callback.handle
<1>1. /\ callback # NoCallback /\ callback' = NoCallback /\ pc = "service"
      /\ callback.reason # "LEFT"
      /\ \E s \in {"open", "closing"} : socket' = [socket EXCEPT ![h] = s]
      /\ UNCHANGED <<owners, lists, running, pc, user, cell, made, mishaps>>
      /\ \/ crashed' = crashed
         \/ callback.conn # NULL /\ crashed' = (life[callback.conn] = "destroyed")
  BY DEF OrphanCallback, HandlerCallback, EndCallback, NoCallback
<1>2. h \in Handles /\ Live(h)
  BY <1>1 DEF IInv, Sound, CallbackKept
<1>3. /\ \A g \in Handles : Live(g)' <=> Live(g)
      /\ socket' \in [Handles -> {"free", "connecting", "open", "closing"}]
  BY <1>1, <1>2 DEF Live, IInv, Types
<1>4. \A kinds : Excused(kinds)' <=> Excused(kinds)
  BY <1>1 DEF Excused
<1>5. (\A c : Held(c)' <=> Held(c)) /\ \A g : ~Left(g)
  BY <1>1 DEF Held, Left, owners
<1>6. Types'
  <2>1. crashed' \in BOOLEAN
    BY <1>1, Zenon DEF IInv, Types
  <2> QED
    BY <1>1, <1>3, <2>1 DEF IInv, Types, owners, lists
<1>7. Quiet' /\ Waiting' /\ Filled' /\ CallbackKept'
  BY <1>1, <1>4, <1>5 DEF IInv, Sound, Quiet, Waiting, Filled, CallbackKept, owners, lists
<1>8. Mutual' /\ Pointed'
  BY <1>1, <1>3, <1>4, <1>5 DEF IInv, Sound, Types, Mutual, Pointed, owners
<1>9. Loaded' /\ Crossing'
  BY <1>1, <1>3, <1>4, <1>5 DEF IInv, Sound, Types, Loaded, Crossing, owners
<1>10. Kept'
  BY <1>1, <1>3, <1>4 DEF IInv, Sound, Types, Kept, lists
<1>11. Undisturbed' => Undisturbed
  BY <1>1, <1>4 DEF Undisturbed
<1>12. Listed' /\ Counted'
  BY <1>1, <1>4, <1>5, <1>11 DEF IInv, Sound, Listed, Counted, NoCallback, owners, lists
<1>13. PendingIsSeen'
  BY <1>1 DEF IInv, Sound, PendingIsSeen, lists
<1>14. MisuseExplained'
  <2>1. crashed' => Excused({"destroyed"})
    BY <1>1 DEF IInv, Sound, CallbackKept
  <2> QED
    BY <1>4, <2>1 DEF MisuseExplained, Excused
<1> QED
  BY <1>6, <1>7, <1>8, <1>9, <1>10, <1>12, <1>13, <1>14 DEF IInv, Sound

(* The socket of the callback is destroyed, and its address is free.         *)
LEMMA FreedFacts ==
  ASSUME IInv, ~crashed, callback # NoCallback, Freed(callback.handle)
  PROVE  /\ callback.handle \in Handles
         /\ socket' \in [Handles -> {"free", "connecting", "open", "closing"}]
         /\ user' \in [Handles -> Connections \union {NULL}]
         /\ cell' \in [Connections -> Handles \union {NULL}]
         /\ \A h \in Handles \ {callback.handle} : socket'[h] = socket[h] /\ user'[h] = user[h]
         /\ \A h \in Handles : Live(h)' <=> Live(h) /\ h # callback.handle
         /\ user'[callback.handle] = NULL
         /\ \A c \in Connections : /\ cell[c] # callback.handle => cell'[c] = cell[c]
                                   /\ cell[c] = callback.handle => cell'[c] = NULL
BY DEF Freed, IInv, Sound, Types, CallbackKept, Live

(* The handshake has failed.                                                 *)
LEMMA ErrorCallbackIInv ==
  ASSUME IInv, ~crashed, ErrorCallback
  PROVE  IInv'
<1> DEFINE h == callback.handle
<1>1. /\ callback # NoCallback /\ callback' = NoCallback /\ pc = "service"
      /\ callback.reason # "LEFT"
      /\ Freed(h) /\ mishaps \subseteq mishaps' /\ "failed" \in mishaps'
      /\ UNCHANGED <<owners, lists, running, pc, made>>
      /\ crashed' = (callback.conn # NULL /\ life[callback.conn] = "destroyed")
  BY DEF ErrorCallback, EndCallback, NoCallback
<1>2. /\ h \in Handles
      /\ socket' \in [Handles -> {"free", "connecting", "open", "closing"}]
      /\ user' \in [Handles -> Connections \union {NULL}]
      /\ cell' \in [Connections -> Handles \union {NULL}]
      /\ \A g \in Handles \ {h} : socket'[g] = socket[g] /\ user'[g] = user[g]
      /\ \A g \in Handles : Live(g)' <=> Live(g) /\ g # h
      /\ user'[h] = NULL
      /\ \A c \in Connections : /\ cell[c] # h => cell'[c] = cell[c]
                                /\ cell[c] = h => cell'[c] = NULL
  BY <1>1, FreedFacts
<1>3. \A kinds : Excused(kinds) => Excused(kinds)'
  BY <1>1, ExcusedGrows
<1>4. Excused({"failed"})' /\ Excused({"failed", "orphaned"})' /\ Excused({"crossed", "failed"})'
  BY <1>1 DEF Excused
<1>5. (\A c : Held(c)' <=> Held(c)) /\ \A g : ~Left(g)
  BY <1>1 DEF Held, Left, owners
<1>6. Types'
  <2>1. crashed' \in BOOLEAN
    BY <1>1, Zenon
  <2> QED
    BY <1>1, <1>2, <2>1 DEF IInv, Types, owners, lists
<1>7. Quiet' /\ Waiting' /\ Filled' /\ CallbackKept'
  BY <1>1, <1>3, <1>5 DEF IInv, Sound, Quiet, Waiting, Filled, CallbackKept, owners, lists
<1>8. Mutual'
  BY <1>1, <1>2, <1>5 DEF IInv, Sound, Types, Mutual, owners
<1>9. Loaded'
  BY <1>1, <1>2, <1>4, <1>5 DEF IInv, Sound, Types, Loaded, owners
<1>10. Crossing'
  BY <1>1, <1>2, <1>3, <1>4 DEF IInv, Sound, Crossing, owners
<1>11. Pointed' /\ Kept'
  BY <1>1, <1>4 DEF IInv, Sound, Pointed, Kept
<1>12. Undisturbed' => Undisturbed
  BY <1>1, <1>3 DEF Undisturbed
<1>13. Listed' /\ Counted'
  BY <1>1, <1>3, <1>5, <1>12 DEF IInv, Sound, Listed, Counted, NoCallback, owners, lists
<1>14. PendingIsSeen' /\ MisuseExplained'
  BY <1>1 DEF IInv, Sound, PendingIsSeen, MisuseExplained, Excused, lists
<1> QED
  BY <1>6, <1>7, <1>8, <1>9, <1>10, <1>11, <1>13, <1>14 DEF IInv, Sound

(* A socket that no connection has is closed.                                *)
LEMMA OrphanClosedIInv ==
  ASSUME IInv, ~crashed, OrphanClosed
  PROVE  IInv'
<1> DEFINE h == callback.handle
<1>1. /\ callback # NoCallback /\ callback' = NoCallback /\ pc = "service"
      /\ callback.conn = NULL /\ callback.reason # "LEFT"
      /\ Freed(h) /\ mishaps \subseteq mishaps'
      /\ h \in connections => "orphaned" \in mishaps'
      /\ UNCHANGED <<owners, lists, running, pc, made, crashed>>
  BY DEF OrphanClosed, EndCallback, NoCallback
<1>2. /\ h \in Handles
      /\ socket' \in [Handles -> {"free", "connecting", "open", "closing"}]
      /\ user' \in [Handles -> Connections \union {NULL}]
      /\ cell' \in [Connections -> Handles \union {NULL}]
      /\ \A g \in Handles \ {h} : socket'[g] = socket[g] /\ user'[g] = user[g]
      /\ \A g \in Handles : Live(g)' <=> Live(g) /\ g # h
      /\ user'[h] = NULL
      /\ \A c \in Connections : /\ cell[c] # h => cell'[c] = cell[c]
                                /\ cell[c] = h => cell'[c] = NULL
  BY <1>1, FreedFacts
<1>3. \A kinds : Excused(kinds) => Excused(kinds)'
  BY <1>1, ExcusedGrows
<1>4. h \in connections => Excused({"failed", "orphaned"})'
  BY <1>1 DEF Excused
<1>5. (\A c : Held(c)' <=> Held(c)) /\ \A g : ~Left(g)
  BY <1>1 DEF Held, Left, owners
<1>6. user[h] = NULL
  BY <1>1 DEF IInv, Sound, CallbackKept
<1>7. Types'
  BY <1>1, <1>2 DEF IInv, Types, owners, lists
<1>8. Quiet' /\ Waiting' /\ Filled' /\ CallbackKept'
  BY <1>1, <1>3, <1>5 DEF IInv, Sound, Quiet, Waiting, Filled, CallbackKept, owners, lists
<1>9. Mutual'
  BY <1>1, <1>2, <1>5 DEF IInv, Sound, Types, Mutual, owners
<1>10. Pointed'
  <2> SUFFICES ASSUME ~Excused({"failed"})', NEW c \in Connections,
                      life[c] \notin Unhooked, webSocket[c] # NULL
               PROVE  socket'[webSocket[c]] # "free" /\ user'[webSocket[c]] = c
    BY <1>1 DEF Pointed, Live, owners
  <2>1. webSocket[c] \in Handles /\ Live(webSocket[c]) /\ user[webSocket[c]] = c
    BY <1>3 DEF IInv, Sound, Types, Pointed
  <2>2. webSocket[c] # h
    BY <1>6, <2>1
  <2> QED
    BY <1>2, <2>1, <2>2 DEF Live
<1>11. Loaded'
  <2> SUFFICES ASSUME NEW c \in Connections, cell'[c] # NULL
               PROVE  /\ life[c] \in Storing /\ socket'[cell'[c]] # "free"
                      /\ webSocket[c] = cell'[c]
                      /\ ~Excused({"failed"})' => user'[cell'[c]] = c
    BY <1>1 DEF Loaded, Live, owners
  <2>1. cell'[c] = cell[c] /\ cell[c] \in Handles /\ cell[c] # h
    BY <1>2 DEF IInv, Types
  <2> QED
    BY <1>2, <1>3, <1>5, <2>1 DEF IInv, Sound, Loaded, Live
<1>12. Crossing'
  <2>1. \A c \in Connections : cell[c] = h => Excused({"failed"})
    BY <1>2, <1>6 DEF IInv, Sound, Loaded
  <2>2. \A c \in Connections : cell'[c] = NULL => cell[c] = NULL \/ Excused({"crossed", "failed"})
    BY <1>2, <2>1 DEF Excused
  <2> QED
    BY <1>1, <1>3, <2>2 DEF IInv, Sound, Crossing, owners
<1>13. Kept'
  BY <1>1, <1>2, <1>3, <1>4 DEF IInv, Sound, Types, Kept, lists
<1>14. Undisturbed' => Undisturbed
  BY <1>1, <1>3 DEF Undisturbed
<1>15. Listed' /\ Counted'
  BY <1>1, <1>3, <1>5, <1>14 DEF IInv, Sound, Listed, Counted, NoCallback, owners, lists
<1>16. PendingIsSeen' /\ MisuseExplained'
  BY <1>1, <1>3 DEF IInv, Sound, PendingIsSeen, MisuseExplained, lists
<1> QED
  BY <1>7, <1>8, <1>9, <1>10, <1>11, <1>12, <1>13, <1>15, <1>16 DEF IInv, Sound

(* onClose: the connection is off the lists and has no socket.               *)
LEMMA CloseCallbackIInv ==
  ASSUME IInv, ~crashed, CloseCallback
  PROVE  IInv'
<1> DEFINE h == callback.handle
           c == callback.conn
           w == webSocket[c]
<1>1. /\ callback # NoCallback /\ callback' # NoCallback
      /\ pc = "service" /\ c # NULL /\ callback.reason = "CLOSED"
      /\ crashed' = (life[c] = "destroyed")
      /\ addConnections' = addConnections \ {c}
      /\ \/ w = NULL /\ removeConnections' = removeConnections /\ changed' = changed
         \/ /\ w # NULL /\ removeConnections' = removeConnections \union {w}
            /\ changed' = TRUE
      /\ webSocket' = [webSocket EXCEPT ![c] = NULL]
      /\ mishaps \subseteq mishaps'
      /\ life[c] \in Removing => "raced" \in mishaps'
      /\ life[c] \in Loading \union Storing => "crossed" \in mishaps'
      /\ UNCHANGED <<life, info, connections, numConnections, running, pc, sockets>>
  BY DEF CloseCallback, Removed, Meets, NoCallback, Removing, Loading, Storing
<1>2. callback'.handle = h /\ callback'.conn = c /\ callback'.reason = "LEFT"
  BY DEF CloseCallback
<1>3. /\ c \in Connections /\ h \in Handles /\ Live(h) /\ user[h] \in {c, NULL}
      /\ w \in {h, NULL}
      /\ w = NULL => Excused({"dropped"})
      /\ life[c] = "destroyed" => Excused({"destroyed"})
  BY <1>1 DEF IInv, Sound, CallbackKept
<1>4. /\ \A g : ~Left(g)
      /\ \A g : Left(g)' <=> g = h
  BY <1>1, <1>2 DEF Left
<1> HIDE DEF c, h
<1>5. /\ webSocket' \in [Connections -> Handles \union {NULL}] /\ webSocket'[c] = NULL
      /\ \A d \in Connections \ {c} : webSocket'[d] = webSocket[d]
  BY <1>1, <1>3 DEF IInv, Types
<1>6. \A kinds : Excused(kinds) => Excused(kinds)'
  BY <1>1, ExcusedGrows
<1>7. (\A d : Held(d)' <=> Held(d)) /\ \A g : Live(g)' <=> Live(g)
  BY <1>1 DEF Held, Live, sockets
<1>8. Types'
  <2>1. crashed' \in BOOLEAN /\ changed' \in BOOLEAN
    BY <1>1, Zenon DEF IInv, Types
  <2>2. removeConnections' \subseteq Handles
    BY <1>1, <1>3 DEF IInv, Types
  <2> QED
    BY <1>1, <1>3, <1>5, <2>1, <2>2 DEF IInv, Types, sockets
<1>9. Quiet' /\ Waiting' /\ Filled'
  <2>1. Quiet'
    BY <1>1 DEF IInv, Sound, Quiet
  <2>2. Waiting'
    BY <1>1, <1>5, <1>7 DEF IInv, Sound, Types, Waiting
  <2>3. Filled'
    BY <1>1, <1>5, <1>6 DEF IInv, Sound, Types, Filled
  <2> QED
    BY <2>1, <2>2, <2>3
<1>10. Mutual'
  <2> SUFFICES ASSUME NEW g \in Handles, user[g] # NULL
               PROVE  /\ Live(g)
                      /\ Left(g)' \/ (webSocket'[user[g]] = g /\ life[user[g]] \notin Unhooked)
    BY <1>1, <1>7 DEF Mutual, Left, sockets
  <2>1. /\ user[g] \in Connections /\ Live(g)
        /\ webSocket[user[g]] = g /\ life[user[g]] \notin Unhooked
    BY <1>4 DEF IInv, Sound, Types, Mutual
  <2>2. user[g] = c => g = h
    BY <1>3, <2>1
  <2> QED
    BY <1>4, <1>5, <2>1, <2>2
<1>11. CallbackKept'
  <2>1. /\ callback'.handle \in Handles /\ socket'[callback'.handle] # "free"
        /\ callback'.conn \in Connections /\ user'[callback'.handle] \in {callback'.conn, NULL}
        /\ webSocket'[callback'.conn] = NULL
        /\ life'[callback'.conn] = "destroyed" => Excused({"destroyed"})'
        /\ pc' = "service"
    BY <1>1, <1>2, <1>3, <1>5, <1>6 DEF Live, sockets
  <2> QED
    BY <1>2, <2>1 DEF CallbackKept, Live
<1>12. Pointed'
  BY <1>1, <1>5, <1>6, <1>7 DEF IInv, Sound, Pointed, sockets
<1>13. Loaded'
  <2> SUFFICES ASSUME NEW d \in Connections, cell[d] # NULL
               PROVE  /\ life[d] \in Storing /\ Live(cell[d])
                      /\ \/ webSocket'[d] = cell[d]
                         \/ webSocket'[d] = NULL /\ cell[d] = h
                      /\ ~Excused({"failed"})' => user[cell[d]] = d
    BY <1>1, <1>4, <1>7 DEF Loaded, Left, sockets
  <2>1. /\ life[d] \in Storing /\ Live(cell[d]) /\ webSocket[d] = cell[d]
        /\ ~Excused({"failed"}) => user[cell[d]] = d
    BY <1>4 DEF IInv, Sound, Loaded
  <2> QED
    BY <1>3, <1>5, <1>6, <2>1
<1>14. Crossing'
  <2>1. life[c] \in Loading \union Storing => Excused({"crossed"})'
    BY <1>1 DEF Excused
  <2> QED
    BY <1>1, <1>3, <1>5, <1>6, <2>1 DEF IInv, Sound, Crossing, sockets
<1>15. Kept'
  BY <1>1, <1>6, <1>7 DEF IInv, Sound, Kept
<1>16. ASSUME Undisturbed'
       PROVE  /\ Undisturbed /\ Held(c) /\ h \in connections
              /\ \A d \in Connections : Held(d) /\ d # c => webSocket[d] # h
  <2>1. Undisturbed
    BY <1>1, <1>6, <1>16 DEF Undisturbed
  <2>2. Held(c)
    BY <1>1, <1>16 DEF Undisturbed, Held, Excused
  <2> QED
    BY <1>1, <2>1, <2>2 DEF IInv, Sound, Listed, c, h
<1>17. Listed'
  <2> SUFFICES ASSUME Undisturbed' PROVE Listed'
    BY DEF Listed
  <2>1. \A d \in Connections : Held(d) /\ webSocket'[d] # NULL =>
          /\ d # c /\ webSocket'[d] = webSocket[d] /\ webSocket[d] # h
          /\ webSocket[d] \in connections \ removeConnections
    BY <1>5, <1>16 DEF IInv, Sound, Listed
  <2>2. \A d \in Connections : Held(d) /\ webSocket'[d] # NULL =>
          webSocket'[d] \in connections' \ removeConnections'
    BY <1>1, <1>3, <2>1
  <2>3. \A d, e \in Connections :
          Held(d) /\ Held(e) /\ webSocket'[d] # NULL /\ webSocket'[d] = webSocket'[e] => d = e
    BY <1>16, <2>1 DEF IInv, Sound, Listed
  <2>4. h \in connections' /\ (h \in removeConnections' \/ Excused({"dropped"})')
    BY <1>1, <1>3, <1>6, <1>16
  <2>5. \A d \in Connections : Held(d) => webSocket'[d] # h
    BY <1>3, <2>1
  <2> QED
    BY <1>2, <1>7, <2>2, <2>3, <2>4, <2>5 DEF Listed
<1>18. Counted'
  <2> SUFFICES ASSUME Undisturbed' PROVE Counted'
    BY DEF Counted
  <2>1. connections' \union removeConnections' = connections \union removeConnections
    BY <1>1, <1>3, <1>16
  <2> QED
    BY <1>1, <1>6, <1>16, <2>1 DEF IInv, Sound, Counted
<1>19. PendingIsSeen'
  BY <1>1 DEF IInv, Sound, PendingIsSeen
<1>20. MisuseExplained'
  <2>1. crashed' => Excused({"destroyed"})
    BY <1>1, <1>3
  <2> QED
    BY <1>6, <2>1 DEF MisuseExplained, Excused
<1> QED
  BY <1>8, <1>9, <1>10, <1>11, <1>12, <1>13, <1>14, <1>15, <1>17, <1>18, <1>19, <1>20
  DEF IInv, Sound

(* removeHandle, and the socket is destroyed.                                *)
LEMMA EndCloseIInv ==
  ASSUME IInv, ~crashed, EndClose
  PROVE  IInv'
<1> DEFINE h == callback.handle
           c == callback.conn
<1>1. /\ callback # NoCallback /\ callback' = NoCallback /\ pc = "service"
      /\ callback.reason = "LEFT"
      /\ crashed' = (life[c] = "destroyed")
      /\ connections' = connections \ {h}
      /\ Freed(h)
      /\ UNCHANGED <<owners, addConnections, removeConnections, numConnections, changed,
                     running, pc, made, mishaps>>
  BY DEF EndClose, EndCallback, NoCallback
<1>2. /\ h \in Handles
      /\ socket' \in [Handles -> {"free", "connecting", "open", "closing"}]
      /\ user' \in [Handles -> Connections \union {NULL}]
      /\ cell' \in [Connections -> Handles \union {NULL}]
      /\ \A g \in Handles \ {h} : socket'[g] = socket[g] /\ user'[g] = user[g]
      /\ \A g \in Handles : Live(g)' <=> Live(g) /\ g # h
      /\ user'[h] = NULL
      /\ \A d \in Connections : /\ cell[d] # h => cell'[d] = cell[d]
                                /\ cell[d] = h => cell'[d] = NULL
  BY <1>1, FreedFacts
<1>3. /\ c \in Connections /\ user[h] \in {c, NULL} /\ webSocket[c] = NULL
      /\ life[c] = "destroyed" => Excused({"destroyed"})
  BY <1>1 DEF IInv, Sound, CallbackKept
<1>4. \A g : Left(g) <=> g = h
  BY <1>1 DEF Left
<1>5. \A kinds : Excused(kinds)' <=> Excused(kinds)
  BY <1>1 DEF Excused
<1>6. \A d : Held(d)' <=> Held(d)
  BY <1>1 DEF Held, owners
<1>7. Undisturbed' <=> Undisturbed
  BY <1>1, <1>5 DEF Undisturbed
<1>8. Undisturbed => /\ h \in removeConnections \/ Excused({"dropped"})
                     /\ \A d \in Connections : Held(d) => webSocket[d] # h
  BY <1>1 DEF IInv, Sound, Listed
<1> HIDE DEF c, h
<1>9. Types'
  <2>1. crashed' \in BOOLEAN
    BY <1>1, Zenon
  <2> QED
    BY <1>1, <1>2, <2>1 DEF IInv, Types, owners
<1>10. Quiet' /\ Waiting' /\ Filled' /\ CallbackKept'
  BY <1>1, <1>5, <1>6 DEF IInv, Sound, Quiet, Waiting, Filled, CallbackKept, owners
<1>11. Mutual'
  <2> SUFFICES ASSUME NEW g \in Handles, user'[g] # NULL
               PROVE  Live(g)' /\ webSocket[user'[g]] = g /\ life[user'[g]] \notin Unhooked
    BY <1>1 DEF Mutual, owners
  <2>1. g # h /\ user'[g] = user[g]
    BY <1>2
  <2> QED
    BY <1>2, <1>4, <2>1 DEF IInv, Sound, Mutual
<1>12. Pointed'
  <2> SUFFICES ASSUME ~Excused({"failed"}), NEW d \in Connections,
                      life[d] \notin Unhooked, webSocket[d] # NULL
               PROVE  socket'[webSocket[d]] # "free" /\ user'[webSocket[d]] = d
    BY <1>1, <1>5 DEF Pointed, Live, owners
  <2>1. webSocket[d] \in Handles /\ Live(webSocket[d]) /\ user[webSocket[d]] = d
    BY DEF IInv, Sound, Types, Pointed
  <2>2. webSocket[d] # h
    BY <1>3, <2>1
  <2> QED
    BY <1>2, <2>1, <2>2 DEF Live
<1>13. Loaded'
  <2> SUFFICES ASSUME NEW d \in Connections, cell'[d] # NULL
               PROVE  /\ life[d] \in Storing /\ socket'[cell'[d]] # "free"
                      /\ webSocket[d] = cell'[d]
                      /\ ~Excused({"failed"}) => user'[cell'[d]] = d
    BY <1>1, <1>5 DEF Loaded, Live, owners
  <2>1. cell'[d] = cell[d] /\ cell[d] \in Handles /\ cell[d] # h
    BY <1>2 DEF IInv, Types
  <2> QED
    BY <1>2, <1>4, <2>1 DEF IInv, Sound, Loaded, Live
<1>14. Crossing'
  <2>1. \A d \in Connections : cell[d] = h => Excused({"crossed", "failed"})
    <3> SUFFICES ASSUME NEW d \in Connections, cell[d] = h, ~Excused({"crossed", "failed"})
                 PROVE  FALSE
      OBVIOUS
    <3>1. ~Excused({"crossed"}) /\ ~Excused({"failed"})
      BY DEF Excused
    <3>2. life[d] \in Storing /\ user[h] = d
      BY <1>2, <3>1 DEF IInv, Sound, Loaded
    <3> QED
      BY <1>3, <3>1, <3>2 DEF IInv, Sound, Crossing
  <2>2. \A d \in Connections : cell'[d] = NULL => cell[d] = NULL \/ cell[d] = h
    BY <1>2
  <2> QED
    BY <1>1, <1>5, <2>1, <2>2 DEF IInv, Sound, Crossing, owners
<1>15. Kept'
  BY <1>1, <1>2, <1>5 DEF IInv, Sound, Types, Kept
<1>16. Listed'
  <2> SUFFICES ASSUME Undisturbed PROVE Listed'
    BY <1>7 DEF Listed
  <2> QED
    BY <1>1, <1>6, <1>8 DEF IInv, Sound, Listed, NoCallback, owners
<1>17. Counted'
  <2> SUFFICES ASSUME Undisturbed PROVE Counted'
    BY <1>7 DEF Counted
  <2> DEFINE all == connections \union removeConnections
             left == (connections \ {h}) \union removeConnections
  <2>1. /\ numConnections >= Cardinality(all) /\ numConnections \in Int
        /\ ~Excused({"dropped"}) => numConnections = Cardinality(all)
    BY DEF IInv, Sound, Types, Counted
  <2>2. /\ left \subseteq all /\ all \subseteq Handles
        /\ ~Excused({"dropped"}) => left = all
    BY <1>8 DEF IInv, Types
  <2>3. IsFiniteSet(all)
    BY <2>2, FiniteAssumption, FS_Subset DEF FiniteAssumption
  <2>4. /\ Cardinality(all) \in Nat /\ Cardinality(left) \in Nat
        /\ Cardinality(left) <= Cardinality(all)
    BY <2>2, <2>3, FS_Subset, FS_CardinalityType
  <2>5. ~Excused({"dropped"}) => Cardinality(left) = Cardinality(all)
    BY <2>2
  <2>6. /\ numConnections >= Cardinality(left)
        /\ ~Excused({"dropped"}) => numConnections = Cardinality(left)
    BY <2>1, <2>4, <2>5
  <2>7. connections' \union removeConnections' = left
    BY <1>1
  <2> HIDE DEF left
  <2> QED
    BY <1>1, <1>5, <2>6, <2>7 DEF Counted
<1>18. PendingIsSeen'
  BY <1>1 DEF IInv, Sound, PendingIsSeen
<1>19. MisuseExplained'
  <2>1. crashed' => Excused({"destroyed"})
    BY <1>1, <1>3
  <2> QED
    BY <1>5, <2>1 DEF MisuseExplained, Excused
<1> QED
  BY <1>9, <1>10, <1>11, <1>12, <1>13, <1>14, <1>15, <1>16, <1>17, <1>18, <1>19
  DEF IInv, Sound

-----------------------------------------------------------------------------

(* The client is destroyed.                                                  *)
LEMMA StopIInv ==
  ASSUME IInv, ~crashed, Stop
  PROVE  IInv'
<1>1. /\ running = "yes" /\ running' = "stopping"
      /\ \A c \in Connections : life[c] \in {"unborn", "idle", "destroyed"}
      /\ UNCHANGED <<owners, lists, pc, callback, sockets, mishaps, crashed>>
  BY DEF Stop
<1>2. \A kinds : Excused(kinds)' <=> Excused(kinds)
  BY <1>1 DEF Excused
<1>3. /\ \A h : Live(h)' <=> Live(h)
      /\ \A h : Left(h)' <=> Left(h)
      /\ \A c : Held(c)' <=> Held(c)
  BY <1>1 DEF Live, Left, Held, owners, sockets
<1>4. Undisturbed' <=> Undisturbed
  BY <1>1, <1>2 DEF Undisturbed
<1>5. Types' /\ Quiet' /\ Waiting' /\ Mutual'
  BY <1>1, <1>3 DEF IInv, Sound, Types, Quiet, Waiting, Mutual, owners, lists, sockets
<1>6. Filled' /\ CallbackKept' /\ Pointed'
  BY <1>1, <1>2, <1>3 DEF IInv, Sound, Filled, CallbackKept, Pointed, owners, lists, sockets
<1>7. Loaded' /\ Crossing' /\ Kept'
  BY <1>1, <1>2, <1>3 DEF IInv, Sound, Loaded, Crossing, Kept, owners, lists, sockets
<1>8. Listed'
  BY <1>1, <1>2, <1>3, <1>4 DEF IInv, Sound, CallbackKept, Listed, Held, owners, lists
<1>9. Counted' /\ PendingIsSeen' /\ MisuseExplained'
  BY <1>1, <1>2, <1>4 DEF IInv, Sound, Counted, PendingIsSeen, MisuseExplained, lists
<1> QED
  BY <1>5, <1>6, <1>7, <1>8, <1>9 DEF IInv, Sound

(* The service thread has ended, and every socket is closed.                 *)
LEMMA JoinIInv ==
  ASSUME IInv, ~crashed, Join
  PROVE  IInv'
<1>1. callback = NoCallback /\ \A h : ~Left(h)
  BY DEF Join, IInv, Sound, CallbackKept, Left, NoCallback
<1>2. /\ running' = "done" /\ running = "stopping" /\ pc = "top" /\ crashed' = FALSE
      /\ webSocket' = [c \in Connections |-> NULL]
      /\ socket' = [h \in Handles |-> "free"]
      /\ user' = [h \in Handles |-> NULL]
      /\ cell' = [c \in Connections |-> NULL]
      /\ UNCHANGED <<life, info, lists, pc, callback, made, mishaps>>
  <2>1. \A h \in Handles : user[h] # NULL => life[user[h]] # "destroyed"
    BY <1>1 DEF IInv, Sound, Mutual, Unhooked
  <2> QED
    BY <2>1 DEF Join
<1>3. \A c \in Connections : life[c] \in {"unborn", "idle", "destroyed"}
  BY <1>2 DEF IInv, Sound, Quiet
<1>4. \A kinds : Excused(kinds)' <=> Excused(kinds)
  BY <1>2 DEF Excused
<1>5. Types'
  <2>1. crashed' \in BOOLEAN
    BY <1>2, Zenon
  <2> QED
    BY <1>2, <2>1 DEF IInv, Types, lists
<1>6. Quiet' /\ Waiting' /\ Filled'
  BY <1>2, <1>3, <1>4 DEF IInv, Sound, Types, Quiet, Waiting, Held, Filled, Leaving, lists
<1>7. Mutual' /\ CallbackKept' /\ Pointed' /\ Loaded' /\ Kept'
  BY <1>1, <1>2 DEF Mutual, CallbackKept, Pointed, Loaded, Kept
<1>8. Crossing'
  BY <1>2, <1>3 DEF Crossing, Loading, Storing
<1>9. Listed' /\ Counted'
  BY <1>2 DEF Listed, Counted, Undisturbed
<1>10. PendingIsSeen' /\ MisuseExplained'
  BY <1>2 DEF IInv, Sound, PendingIsSeen, MisuseExplained, lists
<1> QED
  BY <1>5, <1>6, <1>7, <1>8, <1>9, <1>10 DEF IInv, Sound

(* Nothing happens.                                                          *)
LEMMA StutterIInv ==
  ASSUME IInv, UNCHANGED vars
  PROVE  IInv'
<1> USE DEF vars, owners, lists, sockets
<1>1. Types'
  BY DEF IInv, Types
<1>2. MisuseExplained'
  BY DEF IInv, MisuseExplained, Excused
<1>3. ASSUME ~crashed PROVE Sound'
  <2>1. \A kinds : Excused(kinds)' <=> Excused(kinds)
    BY DEF Excused
  <2>2. /\ \A h : Live(h)' <=> Live(h)
        /\ \A h : Left(h)' <=> Left(h)
        /\ \A c : Held(c)' <=> Held(c)
        /\ Undisturbed' <=> Undisturbed
    BY <2>1 DEF Live, Left, Held, Undisturbed
  <2>3. Quiet' /\ Waiting' /\ Filled' /\ Mutual'
    BY <1>3, <2>1, <2>2 DEF IInv, Sound, Quiet, Waiting, Filled, Mutual
  <2>4. CallbackKept' /\ Pointed' /\ Loaded' /\ Crossing' /\ Kept'
    BY <1>3, <2>1, <2>2 DEF IInv, Sound, CallbackKept, Pointed, Loaded, Crossing, Kept
  <2>5. Listed' /\ Counted' /\ PendingIsSeen'
    <3>1. Held(callback.conn)' <=> Held(callback.conn)
      BY DEF Held
    <3> QED
      BY <1>3, <2>1, <2>2, <3>1 DEF IInv, Sound, Listed, Counted, PendingIsSeen
  <2> QED
    BY <2>3, <2>4, <2>5 DEF Sound
<1> QED
  BY <1>1, <1>2, <1>3 DEF IInv

(* No step of an owner or of the service thread breaks it.                   *)
LEMMA NextIInv == IInv /\ [Next]_vars => IInv'
<1> SUFFICES ASSUME IInv, [Next]_vars PROVE IInv'
  OBVIOUS
<1>1. ASSUME NEW c \in Connections, Owner(c), ~crashed
      PROVE  IInv'
  BY <1>1, MovesIInv, EndConnectIInv, LoadIInv, StoreIInv, EndDisconnectIInv,
     DestroyRemoveIInv, DestroyFreeIInv
  DEF Owner
<1>2. ASSUME Service, ~crashed
      PROVE  IInv'
  BY <1>2, RunChangesIInv, TurnIInv, AskWritableIInv, LiveCallbackIInv, ErrorCallbackIInv,
     OrphanClosedIInv, CloseCallbackIInv, EndCloseIInv
  DEF Service, Callback
<1> QED
  BY <1>1, <1>2, StutterIInv, RacesIInv, StopIInv, JoinIInv DEF Next

-----------------------------------------------------------------------------

(* The flag that run() reads without the lock is set whenever a connection   *)
(* or a handle waits to be added or removed.                                 *)
THEOREM ChangesAreSeen == Spec => []PendingIsSeen
<1>1. IInv => PendingIsSeen
  BY DEF IInv, Sound, PendingIsSeen
<1> QED
  BY InitIInv, NextIInv, <1>1, PTL DEF Spec

(* Every use of a destroyed object, or of memory never set, follows a failed  *)
(* handshake or a socket closed after its connection left it; a close between *)
(* an owner's check of m_webSocket and its use; the destruction of a          *)
(* connection during its callback, or of one never connected; a second        *)
(* connect before the first got its socket; or a race for m_boundConnections. *)
THEOREM MisuseIsExplained == Spec => []MisuseExplained
<1>1. IInv => MisuseExplained
  BY DEF IInv
<1> QED
  BY InitIInv, NextIInv, <1>1, PTL DEF Spec

(* The service thread passes libwebsockets handles of existing sockets only, *)
(* but for those two ways of leaving one behind.                             *)
THEOREM HandlesAreLive == Spec => []HandlesLive
<1>1. IInv => HandlesLive
  BY DEF IInv, Sound, Kept, HandlesLive
<1> QED
  BY InitIInv, NextIInv, <1>1, PTL DEF Spec

(* m_numConnections is the number of handles kept or about to be removed,    *)
(* until one of the four mishaps it does not recover from.                   *)
THEOREM CountIsRight == Spec => []CountMatches
<1>1. IInv => CountMatches
  <2> SUFFICES ASSUME IInv, ~crashed, running = "yes",
                      ~Excused({"dropped", "reused", "unwritable", "raced"})
               PROVE  numConnections = Cardinality(connections \union removeConnections)
    BY DEF CountMatches
  <2>1. Undisturbed /\ ~Excused({"dropped"})
    BY DEF Undisturbed, Excused
  <2> QED
    BY <2>1 DEF IInv, Sound, Counted
<1> QED
  BY InitIInv, NextIInv, <1>1, PTL DEF Spec

(* A connection in use is among those run() serves, and run() does not       *)
(* sleep.                                                                    *)
THEOREM ConnectionsAreServed == Spec => []Served
<1>1. IInv => Served
  <2> SUFFICES ASSUME IInv, ~crashed, running = "yes",
                      ~Excused({"reused", "unwritable", "raced"}),
                      NEW h \in Handles, Wanted(h)
               PROVE  h \in connections /\ numConnections # 0
    BY DEF Served
  <2>1. Undisturbed
    BY DEF Undisturbed
  <2>2. user[h] \in Connections /\ Held(user[h])
    BY DEF IInv, Types, Wanted, Held, Removing
  <2>3. h \in connections
    <3>1. CASE Left(h)
      BY <2>1, <3>1 DEF IInv, Sound, Listed, Left
    <3>2. CASE ~Left(h)
      <4>1. webSocket[user[h]] = h
        BY <3>2 DEF IInv, Sound, Mutual, Wanted
      <4> QED
        BY <2>1, <2>2, <4>1 DEF IInv, Sound, Listed
    <3> QED
      BY <3>1, <3>2
  <2> DEFINE all == connections \union removeConnections
  <2>4. IsFiniteSet(all)
    <3>1. all \in SUBSET Handles
      BY DEF IInv, Sound, Types
    <3> QED
      BY <3>1, FiniteAssumption, FS_Subset DEF FiniteAssumption
  <2>5. Cardinality(all) \in Nat /\ Cardinality(all) # 0
    BY <2>3, <2>4, FS_CardinalityType, FS_EmptySet
  <2>6. numConnections >= Cardinality(all) /\ numConnections \in Int
    BY <2>1 DEF IInv, Sound, Types, Counted
  <2> HIDE DEF all
  <2> QED
    BY <2>3, <2>5, <2>6
<1> QED
  BY InitIInv, NextIInv, <1>1, PTL DEF Spec
=============================================================================
