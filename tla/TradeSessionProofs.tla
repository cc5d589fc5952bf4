-------------------------- MODULE TradeSessionProofs --------------------------
(***************************************************************************)
(* The session of the trade connector, for any number of starts, stops and  *)
(* messages: what start reports is true, the process ends only where stop   *)
(* met start or a callback or something came unasked, and the time stamps   *)
(* are those of the requests that are unanswered.                           *)
(***************************************************************************)
EXTENDS TradeSession, FiniteSetTheorems, TLAPS

Handshakes == {"onConnected", "onConnectFailed"}
Names == Handshakes \union {"clearStarted", "onClose", "tearDown"}
Links == {"none", "created", "connecting", "open", "failed", "closed", "destroyed"}

Types ==
  /\ started \in BOOLEAN /\ connection \in 0..MaxStarts
  /\ promise \in {"unset", "true", "false"}
  /\ starter \in {"idle", "reset", "promise", "connect", "wait"}
  /\ stopper \in {"idle", "promise", "reset"}
  /\ stops \in Nat /\ sent \in Nat
  /\ result \in (0..MaxStarts) \X BOOLEAN
  /\ link \in [Numbers -> Links]
  /\ callback \in {NoCallback} \union (Names \X Numbers)
  /\ established \in SUBSET Numbers
  /\ timestamps \in Nat /\ unanswered \in Nat /\ unread \in Nat
  /\ triggered \in BOOLEAN /\ pingTimer \in BOOLEAN
  /\ mishaps \in SUBSET {"interrupted", "overlap", "pushed"}
  /\ fault \in {"none", "promise", "null", "pop", "freed"}

\* The connection objects made so far are the first ones; there is one left for a
\* start that has begun.
Numbered ==
  /\ Made \in 0..MaxStarts
  /\ \A n \in Numbers : link[n] # "none" <=> n <= Made
  /\ connection <= Made
  /\ starter = "reset" => Made < MaxStarts

\* Only the connection of the connector is alive; while start is between its
\* reset and its connect, that is the new one, not connected yet, unless stop has
\* taken it.
Current ==
  /\ \A n \in Numbers : link[n] \notin {"none", "destroyed"} => n = connection
  /\ starter \in {"promise", "connect", "wait"} => connection \in {0, Made}
  /\ starter \in {"promise", "connect"} =>
       \/ connection = 0 /\ "interrupted" \in mishaps
       \/ connection # 0 /\ link[connection] = "created"

\* start and stop are inside their calls at the same time.
Met == starter # "idle" /\ stopper # "idle" => "interrupted" \in mishaps

\* The callback that runs is one of the connection, which it has left in its
\* new state, unless the connection was replaced meanwhile.
Running ==
  /\ callback # NoCallback /\ "overlap" \notin mishaps =>
       /\ callback[2] = connection
       /\ link[connection] \in {"open", "failed", "closed"}
  /\ callback # NoCallback =>
       \A n \in Numbers : link[n] = "open" => callback = <<"onConnected", n>>
  /\ callback[1] = "onConnected" => callback[2] \in established

\* A start about to connect has a promise without a value, or one that stop gave
\* a value on its way to destroy the connection.
Fresh ==
  starter = "connect" /\ "overlap" \notin mishaps =>
    \/ promise = "unset"
    \/ promise = "false" /\ connection = 0
    \/ promise = "false" /\ stopper = "reset" /\ "interrupted" \in mishaps

\* A handshake is under way.
Pending ==
  (\E n \in Numbers : link[n] = "connecting") \/ callback[1] \in Handshakes

\* Then, if no callback met a replacement, start waits for a promise without a
\* value, or stop, which gave it one, has yet to destroy the connection.
Promised ==
  Pending /\ "overlap" \notin mishaps =>
    \/ starter = "wait" /\ promise = "unset"
    \/ stopper = "reset" /\ (promise = "unset" \/ "interrupted" \in mishaps)

\* The value true that start is about to see was set for its connection.
Kept ==
  promise = "true" /\ starter = "wait" /\ "overlap" \notin mishaps =>
    Made \in established

\* Between two starts, or when the next has yet to replace the connection, the last
\* result is about that connection.  What was not open has not been established.
Reported ==
  /\ starter \in {"idle", "reset"} /\ connection # 0 => result[1] = connection
  /\ \A n \in Numbers :
       link[n] \in {"none", "created", "connecting", "failed"} => n \notin established

IInv == /\ Types /\ Numbered /\ Current /\ Met /\ Running /\ Fresh /\ Promised /\ Kept
        /\ Reported
        /\ TruthfulStart /\ FaultsExplained /\ TimestampsMatch

-----------------------------------------------------------------------------

(* The number of connection objects, when they are the first k.              *)
LEMMA CountFirst ==
  ASSUME NEW f, NEW k \in 0..MaxStarts,
         \A n \in Numbers : f[n] # "none" <=> n <= k
  PROVE  Cardinality({n \in Numbers : f[n] # "none"}) = k
<1>1. {n \in Numbers : f[n] # "none"} = 1..k
  BY BoundsAssumption DEF Numbers, BoundsAssumption
<1>2. k \in Nat /\ Cardinality(1..k) = k
  BY FS_Interval, BoundsAssumption DEF BoundsAssumption
<1> QED
  BY <1>1, <1>2, Zenon

(* What a step leaves of the numbering when it makes no connection object.   *)
LEMMA SameNumber ==
  ASSUME IInv, \A n \in Numbers : link'[n] # "none" <=> link[n] # "none"
  PROVE  Made' = Made
<1>1. {n \in Numbers : link'[n] # "none"} = {n \in Numbers : link[n] # "none"}
  OBVIOUS
<1> QED
  BY <1>1 DEF Made

(* Making the next connection object counts one more.                        *)
LEMMA NextNumber ==
  ASSUME Made + 1 \in 0..MaxStarts,
         \A n \in Numbers : link'[n] # "none" <=> n <= Made + 1
  PROVE  Made' = Made + 1
<1>1. Cardinality({n \in Numbers : link'[n] # "none"}) = Made + 1
  BY CountFirst, Zenon
<1> QED
  BY <1>1, Zenon DEF Made

(* Before the first start.                                                   *)
LEMMA InitIInv == Init => IInv
<1> SUFFICES ASSUME Init PROVE IInv
  OBVIOUS
<1> USE BoundsAssumption DEF Init, BoundsAssumption, Numbers
<1>1. \A n \in Numbers : link[n] # "none" <=> n <= 0
  OBVIOUS
<1>2. Made = 0
  BY <1>1, CountFirst DEF Made
<1>3. link \in [Numbers -> Links]
  BY DEF Links
<1>4. result \in (0..MaxStarts) \X BOOLEAN
  <2>1. 0 \in 0..MaxStarts
    OBVIOUS
  <2> QED
    BY <2>1, Zenon
<1>5. Types
  BY <1>3, <1>4 DEF Types, NoCallback
<1> QED
  BY <1>1, <1>2, <1>5
  DEF IInv, Numbered, Current, Met, Running, Fresh, Pending, Promised, Kept,
      Reported, TruthfulStart, FaultsExplained, TimestampsMatch, Serving, NoCallback, Handshakes

(* No step of start, of stop, of a callback or of a timer breaks it.         *)
LEMMA NextIInv == IInv /\ [Next]_vars => IInv'
<1> SUFFICES ASSUME IInv, [Next]_vars PROVE IInv'
  OBVIOUS
<1> USE BoundsAssumption
    DEF IInv, Types, Numbered, Current, Met, Running, Fresh, Pending, Promised, Kept,
        Reported, TruthfulStart, FaultsExplained, TimestampsMatch, Serving, NoCallback, Numbers,
        Names, Handshakes, Links, BoundsAssumption
<1>1. ASSUME fault = "none", StartBegin PROVE IInv'
  <2>1. Made' = Made
    BY <1>1, SameNumber DEF StartBegin, traffic
  <2> QED
    BY <1>1, <2>1 DEF StartBegin, traffic
<1>2. ASSUME fault = "none", StartReset PROVE IInv'
  <2>1. Made' = Made + 1
    <3>1. Made + 1 \in 0..MaxStarts
      BY <1>2 DEF StartReset
    <3>2. \A n \in Numbers : link'[n] # "none" <=> n <= Made + 1
      BY <1>2 DEF StartReset, Replace
    <3> QED
      BY <3>1, <3>2, NextNumber, Zenon
  <2>2. Types'
    BY <1>2, <2>1 DEF StartReset, Replace, traffic
  <2>3. Numbered' /\ Current'
    BY <1>2, <2>1 DEF StartReset, Replace, traffic
  <2>4. Met' /\ Running' /\ Fresh'
    BY <1>2, <2>1 DEF StartReset, Replace, traffic
  <2>5. Promised' /\ Kept' /\ Reported'
    BY <1>2, <2>1 DEF StartReset, Replace, traffic
  <2>6. TruthfulStart' /\ TimestampsMatch'
    BY <1>2, <2>1 DEF StartReset, Replace, traffic
  <2>7. FaultsExplained'
    <3>1. CASE fault' = "none"
      BY <3>1
    <3>2. CASE connection # 0 /\ link[connection] = "failed" /\ fault' = "freed"
      <4>1. starter = "reset" /\ result' = result /\ mishaps \subseteq mishaps'
        BY <1>2 DEF StartReset, Replace
      <4>2. result[1] = connection /\ connection \in Numbers /\ connection \notin established
        BY <3>2, <4>1
      <4>3. ~result[2] \/ "overlap" \in mishaps
        BY <4>2
      <4> QED
        BY <3>2, <4>1, <4>2, <4>3
    <3> QED
      BY <1>2, <3>1, <3>2 DEF StartReset, Replace
  <2> QED
    BY <2>2, <2>3, <2>4, <2>5, <2>6, <2>7
<1>3. ASSUME fault = "none", StartPromise PROVE IInv'
  <2>1. Made' = Made
    BY <1>3, SameNumber DEF StartPromise, traffic
  <2> QED
    BY <1>3, <2>1 DEF StartPromise, traffic
<1>4. ASSUME fault = "none", StartConnect PROVE IInv'
  <2>1. Made' = Made
    BY <1>4, SameNumber DEF StartConnect, traffic
  <2>2. Types'
    BY <1>4, <2>1 DEF StartConnect, traffic
  <2>3. Numbered' /\ Current'
    BY <1>4, <2>1 DEF StartConnect, traffic
  <2>4. Met' /\ Running' /\ Fresh'
    BY <1>4, <2>1 DEF StartConnect, traffic
  <2>5. Promised' /\ Kept' /\ Reported'
    BY <1>4, <2>1 DEF StartConnect, traffic
  <2>6. TruthfulStart' /\ FaultsExplained' /\ TimestampsMatch'
    BY <1>4, <2>1 DEF StartConnect, traffic
  <2> QED
    BY <2>2, <2>3, <2>4, <2>5, <2>6
<1>5. ASSUME fault = "none", StartReturn PROVE IInv'
  <2>1. Made' = Made
    BY <1>5, SameNumber DEF StartReturn, traffic
  <2>2. Types'
    BY <1>5, <2>1 DEF StartReturn, traffic
  <2>3. Numbered' /\ Current'
    BY <1>5, <2>1 DEF StartReturn, traffic
  <2>4. Met' /\ Running' /\ Fresh'
    BY <1>5, <2>1 DEF StartReturn, traffic
  <2>5. Promised' /\ Kept' /\ Reported'
    BY <1>5, <2>1 DEF StartReturn, traffic
  <2>6. TruthfulStart' /\ FaultsExplained' /\ TimestampsMatch'
    BY <1>5, <2>1 DEF StartReturn, traffic
  <2> QED
    BY <2>2, <2>3, <2>4, <2>5, <2>6
<1>6. ASSUME fault = "none", StopBegin PROVE IInv'
  <2>1. Made' = Made
    BY <1>6, SameNumber DEF StopBegin, traffic
  <2>2. mishaps' \in SUBSET {"interrupted", "overlap", "pushed"}
    BY <1>6 DEF StopBegin, traffic
  <2>3. stops' \in Nat
    BY <1>6 DEF StopBegin, traffic
  <2>4. Types'
    BY <1>6, <2>1, <2>2, <2>3 DEF StopBegin, traffic
  <2>5. Numbered' /\ Current'
    BY <1>6, <2>1 DEF StopBegin, traffic
  <2>6. Met' /\ Running' /\ Fresh'
    BY <1>6, <2>1 DEF StopBegin, traffic
  <2>7. Promised' /\ Kept' /\ Reported'
    BY <1>6, <2>1 DEF StopBegin, traffic
  <2>8. TruthfulStart' /\ FaultsExplained' /\ TimestampsMatch'
    BY <1>6, <2>1 DEF StopBegin, traffic
  <2> QED
    BY <2>4, <2>5, <2>6, <2>7, <2>8
<1>7. ASSUME fault = "none", StopPromise PROVE IInv'
  <2>1. Made' = Made
    BY <1>7, SameNumber DEF StopPromise, traffic
  <2>2. Types'
    BY <1>7, <2>1 DEF StopPromise, traffic
  <2>3. Numbered' /\ Current'
    BY <1>7, <2>1 DEF StopPromise, traffic
  <2>4. Met' /\ Running' /\ Fresh'
    BY <1>7, <2>1 DEF StopPromise, traffic
  <2>5. Promised' /\ Kept' /\ Reported'
    BY <1>7, <2>1 DEF StopPromise, traffic
  <2>6. TruthfulStart' /\ FaultsExplained' /\ TimestampsMatch'
    BY <1>7, <2>1 DEF StopPromise, traffic
  <2> QED
    BY <2>2, <2>3, <2>4, <2>5, <2>6
<1>8. ASSUME fault = "none", StopReset PROVE IInv'
  <2>1. Made' = Made
    BY <1>8, SameNumber DEF StopReset, Replace, traffic
  <2>2. Types'
    BY <1>8, <2>1 DEF StopReset, Replace, traffic
  <2>3. Numbered' /\ Current'
    BY <1>8, <2>1 DEF StopReset, Replace, traffic
  <2>4. Met' /\ Running' /\ Fresh'
    BY <1>8, <2>1 DEF StopReset, Replace, traffic
  <2>5. Promised' /\ Kept' /\ Reported'
    BY <1>8, <2>1 DEF StopReset, Replace, traffic
  <2>6. TruthfulStart' /\ TimestampsMatch'
    BY <1>8, <2>1 DEF StopReset, Replace, traffic
  <2>7. FaultsExplained'
    <3>1. CASE fault' = "none"
      BY <3>1
    <3>2. CASE connection # 0 /\ link[connection] = "failed" /\ fault' = "freed"
      <4>1. stopper = "reset" /\ result' = result /\ mishaps \subseteq mishaps'
        BY <1>8 DEF StopReset, Replace
      <4>2. CASE starter # "idle"
        BY <3>2, <4>1, <4>2
      <4>3. CASE starter = "idle"
        <5>1. /\ result[1] = connection /\ connection \in Numbers
              /\ connection \notin established
          BY <3>2, <4>3
        <5>2. ~result[2] \/ "overlap" \in mishaps
          BY <5>1
        <5> QED
          BY <3>2, <4>1, <5>1, <5>2
      <4> QED
        BY <4>2, <4>3
    <3> QED
      BY <1>8, <3>1, <3>2 DEF StopReset, Replace
  <2> QED
    BY <2>2, <2>3, <2>4, <2>5, <2>6, <2>7
<1>9. ASSUME fault = "none", NEW n \in Numbers, Connected(n) PROVE IInv'
  <2>1. Made' = Made
    BY <1>9, SameNumber DEF Connected, Begin, callers, traffic
  <2>2. Types'
    BY <1>9, <2>1 DEF Connected, Begin, callers, traffic
  <2>3. Numbered' /\ Current'
    BY <1>9, <2>1 DEF Connected, Begin, callers, traffic
  <2>4. Met' /\ Running' /\ Fresh'
    BY <1>9, <2>1 DEF Connected, Begin, callers, traffic
  <2>5. Promised' /\ Kept' /\ Reported'
    BY <1>9, <2>1 DEF Connected, Begin, callers, traffic
  <2>6. TruthfulStart' /\ FaultsExplained' /\ TimestampsMatch'
    BY <1>9, <2>1 DEF Connected, Begin, callers, traffic
  <2> QED
    BY <2>2, <2>3, <2>4, <2>5, <2>6
<1>10. ASSUME fault = "none", NEW n \in Numbers, ConnectFailed(n) PROVE IInv'
  <2>1. Made' = Made
    BY <1>10, SameNumber DEF ConnectFailed, Begin, callers, traffic
  <2>2. Types'
    BY <1>10, <2>1 DEF ConnectFailed, Begin, callers, traffic
  <2>3. Numbered' /\ Current'
    BY <1>10, <2>1 DEF ConnectFailed, Begin, callers, traffic
  <2>4. Met' /\ Running' /\ Fresh'
    BY <1>10, <2>1 DEF ConnectFailed, Begin, callers, traffic
  <2>5. Promised' /\ Kept' /\ Reported'
    BY <1>10, <2>1 DEF ConnectFailed, Begin, callers, traffic
  <2>6. TruthfulStart' /\ FaultsExplained' /\ TimestampsMatch'
    BY <1>10, <2>1 DEF ConnectFailed, Begin, callers, traffic
  <2> QED
    BY <2>2, <2>3, <2>4, <2>5, <2>6
<1>11. ASSUME fault = "none", NEW n \in Numbers, Closed(n) PROVE IInv'
  <2>1. Made' = Made
    BY <1>11, SameNumber DEF Closed, Begin, callers, traffic
  <2>2. Types'
    BY <1>11, <2>1 DEF Closed, Begin, callers, traffic
  <2>3. Numbered' /\ Current'
    BY <1>11, <2>1 DEF Closed, Begin, callers, traffic
  <2>4. Met' /\ Running' /\ Fresh'
    BY <1>11, <2>1 DEF Closed, Begin, callers, traffic
  <2>5. Promised' /\ Kept' /\ Reported'
    BY <1>11, <2>1 DEF Closed, Begin, callers, traffic
  <2>6. TruthfulStart' /\ FaultsExplained' /\ TimestampsMatch'
    BY <1>11, <2>1 DEF Closed, Begin, callers, traffic
  <2> QED
    BY <2>2, <2>3, <2>4, <2>5, <2>6
<1>12. ASSUME fault = "none", OnConnected PROVE IInv'
  <2>1. Made' = Made
    BY <1>12, SameNumber DEF OnConnected, SetValue
  <2>2. Types'
    BY <1>12, <2>1 DEF OnConnected, SetValue
  <2>3. Numbered' /\ Current'
    BY <1>12, <2>1 DEF OnConnected, SetValue
  <2>4. Met' /\ Running' /\ Fresh'
    BY <1>12, <2>1 DEF OnConnected, SetValue
  <2>5. Promised' /\ Kept' /\ Reported'
    BY <1>12, <2>1 DEF OnConnected, SetValue
  <2>6. TruthfulStart' /\ TimestampsMatch'
    BY <1>12, <2>1 DEF OnConnected, SetValue
  <2>7. FaultsExplained'
    BY <1>12, <2>1 DEF OnConnected, SetValue
  <2> QED
    BY <2>2, <2>3, <2>4, <2>5, <2>6, <2>7
<1>13. ASSUME fault = "none", OnConnectFailed PROVE IInv'
  <2>1. Made' = Made
    BY <1>13, SameNumber DEF OnConnectFailed, SetValue, traffic
  <2>2. Types'
    BY <1>13, <2>1 DEF OnConnectFailed, SetValue, traffic
  <2>3. Numbered' /\ Current'
    BY <1>13, <2>1 DEF OnConnectFailed, SetValue, traffic
  <2>4. Met' /\ Running' /\ Fresh'
    BY <1>13, <2>1 DEF OnConnectFailed, SetValue, traffic
  <2>5. Promised' /\ Kept' /\ Reported'
    BY <1>13, <2>1 DEF OnConnectFailed, SetValue, traffic
  <2>6. TruthfulStart' /\ FaultsExplained' /\ TimestampsMatch'
    BY <1>13, <2>1 DEF OnConnectFailed, SetValue, traffic
  <2> QED
    BY <2>2, <2>3, <2>4, <2>5, <2>6
<1>14. ASSUME fault = "none", ClearStarted PROVE IInv'
  <2>1. Made' = Made
    BY <1>14, SameNumber DEF ClearStarted, traffic
  <2>2. Types'
    BY <1>14, <2>1 DEF ClearStarted, traffic
  <2>3. Numbered' /\ Current'
    BY <1>14, <2>1 DEF ClearStarted, traffic
  <2>4. Met' /\ Running' /\ Fresh'
    BY <1>14, <2>1 DEF ClearStarted, traffic
  <2>5. Promised' /\ Kept' /\ Reported'
    BY <1>14, <2>1 DEF ClearStarted, traffic
  <2>6. TruthfulStart' /\ FaultsExplained' /\ TimestampsMatch'
    BY <1>14, <2>1 DEF ClearStarted, traffic
  <2> QED
    BY <2>2, <2>3, <2>4, <2>5, <2>6
<1>15. ASSUME fault = "none", OnClose PROVE IInv'
  <2>1. Made' = Made
    BY <1>15, SameNumber DEF OnClose, callers, traffic
  <2> QED
    BY <1>15, <2>1 DEF OnClose, callers, traffic
<1>16. ASSUME fault = "none", TearDown PROVE IInv'
  <2>1. Made' = Made
    BY <1>16, SameNumber DEF TearDown
  <2>2. fault' \in {"none", "null"}
    BY <1>16 DEF TearDown
  <2>3. timestamps' \in Nat
    BY <1>16 DEF TearDown
  <2>4. started' \in BOOLEAN
    BY <1>16, Zenon DEF TearDown
  <2>5. Types'
    BY <1>16, <2>1, <2>2, <2>3, <2>4 DEF TearDown
  <2>6. Numbered' /\ Current'
    BY <1>16, <2>1 DEF TearDown
  <2>7. Met' /\ Running' /\ Fresh'
    BY <1>16, <2>1 DEF TearDown
  <2>8. Promised' /\ Kept' /\ Reported'
    BY <1>16, <2>1 DEF TearDown
  <2>9. TruthfulStart' /\ TimestampsMatch'
    BY <1>16, <2>1 DEF TearDown
  <2>10. FaultsExplained'
    BY <1>16, <2>1 DEF TearDown
  <2> QED
    BY <2>5, <2>6, <2>7, <2>8, <2>9, <2>10
<1>17. ASSUME fault = "none", MessageSent PROVE IInv'
  <2>1. Made' = Made
    BY <1>17, SameNumber DEF MessageSent, callers
  <2> QED
    BY <1>17, <2>1 DEF MessageSent, callers
<1>18. ASSUME fault = "none", Response PROVE IInv'
  <2>1. Made' = Made
    BY <1>18, SameNumber DEF Response, Pop, callers
  <2>2. Types'
    BY <1>18, <2>1 DEF Response, Pop, callers
  <2>3. Numbered' /\ Current' /\ Met' /\ Running' /\ Fresh'
    BY <1>18, <2>1 DEF Response, Pop, callers
  <2>4. Promised' /\ Kept' /\ Reported' /\ TruthfulStart'
    BY <1>18, <2>1 DEF Response, Pop, callers
  <2>5. FaultsExplained' /\ TimestampsMatch'
    BY <1>18, <2>1 DEF Response, Pop, callers
  <2> QED
    BY <2>2, <2>3, <2>4, <2>5
<1>19. ASSUME fault = "none", Unread PROVE IInv'
  <2>1. Made' = Made
    BY <1>19, SameNumber DEF Unread, callers
  <2> QED
    BY <1>19, <2>1 DEF Unread, callers
<1>20. ASSUME fault = "none", Push PROVE IInv'
  <2>1. Made' = Made
    BY <1>20, SameNumber DEF Push, Pop, callers
  <2>2. Types'
    BY <1>20, <2>1 DEF Push, Pop, callers
  <2>3. Numbered' /\ Current' /\ Met' /\ Running' /\ Fresh'
    BY <1>20, <2>1 DEF Push, Pop, callers
  <2>4. Promised' /\ Kept' /\ Reported' /\ TruthfulStart'
    BY <1>20, <2>1 DEF Push, Pop, callers
  <2>5. FaultsExplained' /\ TimestampsMatch'
    BY <1>20, <2>1 DEF Push, Pop, callers
  <2> QED
    BY <2>2, <2>3, <2>4, <2>5
<1>21. ASSUME fault = "none", Ping PROVE IInv'
  <2>1. Made' = Made
    BY <1>21, SameNumber DEF Ping, callers
  <2> QED
    BY <1>21, <2>1 DEF Ping, callers
<1>22. ASSUME fault = "none", CheckResponse PROVE IInv'
  <2>1. Made' = Made
    BY <1>22, SameNumber DEF CheckResponse, callers
  <2> QED
    BY <1>22, <2>1 DEF CheckResponse, callers
<1>23. ASSUME fault = "none", PingTimeout PROVE IInv'
  <2>1. Made' = Made
    BY <1>23, SameNumber DEF PingTimeout, callers
  <2>2. Types'
    BY <1>23, <2>1 DEF PingTimeout, callers
  <2>3. Numbered' /\ Current'
    BY <1>23, <2>1 DEF PingTimeout, callers
  <2>4. Met' /\ Running' /\ Fresh'
    BY <1>23, <2>1 DEF PingTimeout, callers
  <2>5. Promised' /\ Kept' /\ Reported'
    BY <1>23, <2>1 DEF PingTimeout, callers
  <2>6. TruthfulStart' /\ FaultsExplained' /\ TimestampsMatch'
    BY <1>23, <2>1 DEF PingTimeout, callers
  <2> QED
    BY <2>2, <2>3, <2>4, <2>5, <2>6
<1>24. CASE UNCHANGED vars
  <2>1. Made' = Made
    BY <1>24, SameNumber DEF vars, callers, traffic
  <2>2. Types'
    BY <1>24, <2>1 DEF vars, callers, traffic
  <2>3. Numbered' /\ Current'
    BY <1>24, <2>1 DEF vars, callers, traffic
  <2>4. Met' /\ Running' /\ Fresh'
    BY <1>24, <2>1 DEF vars, callers, traffic
  <2>5. Promised' /\ Kept' /\ Reported'
    BY <1>24, <2>1 DEF vars, callers, traffic
  <2>6. TruthfulStart' /\ FaultsExplained' /\ TimestampsMatch'
    BY <1>24, <2>1 DEF vars, callers, traffic
  <2> QED
    BY <2>2, <2>3, <2>4, <2>5, <2>6
<1> QED
  BY <1>1, <1>2, <1>3, <1>4, <1>5, <1>6, <1>7, <1>8, <1>9, <1>10, <1>11, <1>12, <1>13,
     <1>14, <1>15, <1>16, <1>17, <1>18, <1>19, <1>20, <1>21, <1>22, <1>23, <1>24
  DEF Next, Start, Stop, Handshake, Handler

(* A start that reports success was given a connection whose handshake was   *)
(* completed, unless a callback met the replacement of its connection.       *)
THEOREM StartIsTruthful == Spec => []TruthfulStart
<1>1. IInv => TruthfulStart
  BY DEF IInv
<1> QED
  BY InitIInv, NextIInv, <1>1, PTL DEF Spec

(* The process ends only where stop met start or a callback, or where a      *)
(* message came that nobody had asked for.                                   *)
THEOREM FaultsAreExplained == Spec => []FaultsExplained
<1>1. IInv => FaultsExplained
  BY DEF IInv
<1> QED
  BY InitIInv, NextIInv, <1>1, PTL DEF Spec

(* An open connection has a time stamp for each of its unanswered requests   *)
(* and for nothing else, as long as nothing comes unasked.                   *)
THEOREM TimestampsAreRight == Spec => []TimestampsMatch
<1>1. IInv => TimestampsMatch
  BY DEF IInv
<1> QED
  BY InitIInv, NextIInv, <1>1, PTL DEF Spec
===============================================================================
