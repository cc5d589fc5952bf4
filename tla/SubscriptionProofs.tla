-------------------------- MODULE SubscriptionProofs --------------------------
(***************************************************************************)
(* Proofs that what a client subscribes to reaches the exchange, in two parts  *)
(* with variables of their own:                                               *)
(*                                                                         *)
(* PriceAdapter, for any instruments and dictionary and any number of starts:  *)
(* a start that has returned has written a request for everything clients      *)
(* subscribed to, whatever subscribe, stop, failed handshakes and closings     *)
(* meet it.                                                                   *)
(*                                                                         *)
(* WebSocketWrite, for any set of threads and any bounds: the write side of a  *)
(* connection is a FIFO queue, by types, the agreement of flag and buffer, and *)
(* the refinement of Outbox.                                                  *)
(***************************************************************************)
EXTENDS PriceAdapter, WebSocketWrite, SequenceTheorems, FiniteSetTheorems, TLAPS

-----------------------------------------------------------------------------
\* PriceAdapter: the inductive invariant.

Links == {"none", "created", "queued", "connecting", "open", "closed", "failed",
          "destroyed"}

Types ==
  /\ to \in {<<>>, First(2, 1)}
  /\ connection \in 0..MaxStarts
  /\ link \in [Numbers -> Links]
  /\ list \subseteq Instruments /\ swapped \subseteq Instruments
  /\ made \subseteq Instruments
  /\ call \in [by : {"nobody", "owner", "client"}, todo : SUBSET Instruments,
               item : Instruments \union {NoInstrument}, conn : 0..MaxStarts,
               stamp : {"none", "fresh", "old"}]

\* Only m_wsConnection is in use.
Linked ==
  /\ connection # 0 => link[connection] \notin {"none", "destroyed"}
  /\ \A n \in Numbers \ {connection} : link[n] \in {"none", "destroyed"}

\* How far the connection is, by where the owner is: only the thread in start waits
\* for a handshake, and it leaves with the promise that the handshake made.
Starting ==
  /\ owner \in {"idle", "connect", "wait", "again", "subscribe"}
  /\ owner # "idle" => connection # 0
  /\ owner = "connect" => link[connection] = "created"
  /\ owner = "wait" =>
       \/ promise = "unset" /\ link[connection] \in {"queued", "connecting"}
       \/ promise = "true" /\ link[connection] \in {"open", "closed"}
       \/ promise = "false" /\ link[connection] = "failed"
  /\ owner \in {"again", "subscribe"} => link[connection] \in {"open", "closed"}
  /\ owner = "idle" /\ connection # 0 => link[connection] \in {"open", "closed", "failed"}

\* A start that has yet to take over the list.
BeforeSwap == owner \in {"connect", "wait"}

\* The call of subscribe in progress, and the connection it has looked at.
Calling ==
  /\ call.by = "nobody" <=> call = NoCall
  /\ call.by = "owner" <=> owner = "subscribe"
  /\ call.item = NoInstrument => call.conn = 0 /\ call.stamp = "none"
  /\ call.item # NoInstrument => call.item \in DOMAIN to
  /\ call.conn # 0 => call.conn = connection \/ link[call.conn] = "destroyed"
  /\ call.item # NoInstrument /\ call.conn = 0 => BeforeSwap \/ ~Open
  /\ call.stamp # "none" => BeforeSwap \/ ~Open \/ to[call.item] \in asked

\* What is in m_subscriptions was asked for on the open connection, unless a start
\* is still to take it over.
Asked == BeforeSwap \/ ~Open \/ \A i \in list : to[i] \in asked

\* A subscription is in m_subscriptions, or in the hands of start.
Remembered ==
  /\ made \subseteq DOMAIN to
  /\ swapped # {} => owner = "again"
  /\ made \subseteq list \union swapped \union
       (IF call.by = "owner" THEN call.todo \union {call.item} ELSE {})

IInv == Types /\ Linked /\ Starting /\ Calling /\ Asked /\ Remembered

-----------------------------------------------------------------------------

\* The type of a call; nobody's is NoCall.
CallType == [by : {"nobody", "owner", "client"}, todo : SUBSET Instruments,
             item : Instruments \union {NoInstrument}, conn : 0..MaxStarts,
             stamp : {"none", "fresh", "old"}]

LEMMA NoCallType ==
  /\ NoCall \in CallType
  /\ NoCall.by = "nobody" /\ NoCall.todo = {} /\ NoCall.item = NoInstrument
  /\ NoCall.conn = 0 /\ NoCall.stamp = "none"
BY BoundsAssumption DEF NoCall, CallType, BoundsAssumption

\* Connections are numbered in the order of the starts.
LEMMA MadeType == Made \in Nat
<1>1. IsFiniteSet(Numbers)
  BY BoundsAssumption, FS_Interval DEF Numbers, BoundsAssumption
<1>2. IsFiniteSet({n \in Numbers : link[n] # "none"})
  BY <1>1, FS_Subset
<1> QED
  BY <1>2, FS_CardinalityType DEF Made

LEMMA InitIInv == Init => IInv
<1> SUFFICES ASSUME Init
             PROVE  IInv
  OBVIOUS
<1>1. Types
  BY NoCallType, BoundsAssumption DEF Init, Types, Links, CallType, BoundsAssumption
<1>2. Linked /\ Starting /\ Asked /\ Remembered
  BY DEF Init, Linked, Starting, Asked, Remembered, Open
<1>3. Calling
  BY NoCallType DEF Init, Calling
<1> QED
  BY <1>1, <1>2, <1>3 DEF IInv

\* The steps of the watch, of messages and of REST answers touch none of it.
LEMMA Frame ==
  ASSUME IInv, UNCHANGED <<to, connection, link, asked, promise, owner, list, swapped,
                           call, made>>
  PROVE  IInv'
BY DEF IInv, Types, Linked, Starting, Calling, Asked, Remembered, BeforeSwap, Open

\* The subscriptions in hand are what they were.
LEMMA RememberedFrame ==
  ASSUME Remembered, UNCHANGED <<to, list, swapped, call, made>>,
         swapped # {} => owner' = owner
  PROVE  Remembered'
BY DEF Remembered

-----------------------------------------------------------------------------
\* The owner thread.

LEMMA ConfigIInv == ASSUME IInv, Config PROVE IInv'
<1>1. /\ connection = 0 /\ call = NoCall /\ to' = First(2, 1)
      /\ UNCHANGED <<session, subscriptions, watch, observer, fault>>
  BY DEF Config
<1> USE DEF IInv, session, subscriptions
<1>2. Types' /\ Linked' /\ Starting'
  BY <1>1 DEF Types, Linked, Starting
<1>3. Calling'
  BY <1>1, NoCallType DEF Calling, Open
<1>4. Asked'
  BY <1>1 DEF Asked, Open
<1>5. Remembered'
  <2>1. made \subseteq DOMAIN to'
    BY <1>1 DEF Types, Remembered
  <2> QED
    BY <1>1, <2>1 DEF Remembered
<1> QED
  BY <1>2, <1>3, <1>4, <1>5

LEMMA StartBeginIInv == ASSUME IInv, StartBegin PROVE IInv'
<1>1. /\ owner = "idle" /\ Made < MaxStarts
      /\ connection' = Made + 1
      /\ link' = [n \in Numbers |-> IF n = Made + 1 THEN "created"
                                    ELSE IF n = connection THEN "destroyed" ELSE link[n]]
      /\ owner' = "connect"
      /\ UNCHANGED <<to, list, swapped, call, made>>
  BY DEF StartBegin, dictionary
<1> USE DEF IInv
<1>2. Made + 1 \in Numbers /\ Made + 1 \in 0..MaxStarts /\ Made + 1 # 0
  BY <1>1, MadeType, BoundsAssumption DEF Numbers, BoundsAssumption
<1> DEFINE new == Made + 1
<1>3. /\ connection' = new /\ new \in Numbers /\ new \in 0..MaxStarts /\ new # 0
      /\ link' = [n \in Numbers |-> IF n = new THEN "created"
                                    ELSE IF n = connection THEN "destroyed" ELSE link[n]]
  BY <1>1, <1>2
<1> HIDE DEF new
<1>4. Types'
  BY <1>1, <1>3 DEF Types, Links
<1>5. Linked' /\ Starting'
  BY <1>1, <1>3 DEF Linked, Starting
<1>6. Calling'
  <2>1. call.conn # 0 => call.conn = new \/ link'[call.conn] = "destroyed"
    <3>1. call.conn \in 0..MaxStarts
      BY DEF Types
    <3>2. call.conn # 0 => call.conn \in Numbers
      BY <3>1, BoundsAssumption DEF Numbers, BoundsAssumption
    <3> QED
      BY <1>3, <3>2 DEF Calling
  <2>2. call.by # "owner"
    BY <1>1 DEF Calling
  <2> QED
    BY <1>1, <1>3, <2>1, <2>2 DEF Calling, BeforeSwap
<1>7. Asked'
  BY <1>1 DEF Asked, BeforeSwap
<1>8. Remembered'
  <2>1. swapped = {}
    BY <1>1 DEF Remembered
  <2> QED
    BY <1>1, <2>1, RememberedFrame
<1> QED
  BY <1>4, <1>5, <1>6, <1>7, <1>8

LEMMA StartConnectIInv == ASSUME IInv, StartConnect PROVE IInv'
<1>1. /\ owner = "connect" /\ promise' = "unset"
      /\ link' = [link EXCEPT ![connection] = "queued"]
      /\ owner' = "wait"
      /\ UNCHANGED <<to, connection, asked, list, swapped, call, made>>
  BY DEF StartConnect, dictionary, subscriptions
<1> USE DEF IInv
<1>2. connection \in Numbers /\ connection # 0
  BY <1>1, BoundsAssumption DEF Types, Starting, Numbers, BoundsAssumption
<1>3. link'[connection] = "queued" /\ \A n \in Numbers \ {connection} : link'[n] = link[n]
  BY <1>1, <1>2 DEF Types
<1>4. Types'
  BY <1>1 DEF Types, Links
<1>5. Linked' /\ Starting'
  BY <1>1, <1>2, <1>3 DEF Linked, Starting
<1>6. Calling'
  <2>1. call.conn # 0 => call.conn \in Numbers
    BY BoundsAssumption DEF Types, Numbers, BoundsAssumption
  <2> QED
    BY <1>1, <1>3, <2>1 DEF Calling, BeforeSwap
<1>7. Asked'
  BY <1>1 DEF Asked, BeforeSwap
<1>8. Remembered'
  BY <1>1, RememberedFrame DEF Remembered
<1> QED
  BY <1>4, <1>5, <1>6, <1>7, <1>8

\* A handshake that failed leaves the list as it is, and nothing to ask.
LEMMA StartFailsIInv == ASSUME IInv, StartFails PROVE IInv'
<1>1. /\ owner = "wait" /\ promise = "false" /\ owner' = "idle"
      /\ UNCHANGED <<to, connection, link, promise, asked, list, swapped, call, made>>
  BY DEF StartFails, dictionary, subscriptions
<1> USE DEF IInv
<1>2. link[connection] = "failed" /\ connection # 0
  BY <1>1 DEF Starting
<1>3. Types' /\ Linked' /\ Starting'
  BY <1>1, <1>2 DEF Types, Linked, Starting
<1>4. Calling' /\ Asked'
  BY <1>1, <1>2 DEF Calling, Asked, Open
<1>5. Remembered'
  BY <1>1, RememberedFrame DEF Remembered
<1> QED
  BY <1>3, <1>4, <1>5

\* The list is taken over, under its lock: no call of subscribe is in progress, and
\* those to come find the connection.
LEMMA StartSwapIInv == ASSUME IInv, StartSwap PROVE IInv'
<1>1. /\ owner = "wait" /\ promise = "true" /\ call = NoCall
      /\ swapped' = list /\ list' = {} /\ owner' = "again"
      /\ UNCHANGED <<to, connection, link, promise, asked, call, made>>
  BY DEF StartSwap, dictionary
<1> USE DEF IInv
<1>2. Types' /\ Linked' /\ Starting'
  BY <1>1 DEF Types, Linked, Starting
<1>3. Calling'
  BY <1>1, NoCallType DEF Calling
<1>4. Asked'
  BY <1>1 DEF Asked
<1>5. Remembered'
  BY <1>1, NoCallType DEF Remembered
<1> QED
  BY <1>2, <1>3, <1>4, <1>5

LEMMA StartSubscribeIInv == ASSUME IInv, StartSubscribe PROVE IInv'
<1>1. /\ owner = "again" /\ call = NoCall
      /\ call' = [NoCall EXCEPT !.by = "owner", !.todo = swapped]
      /\ swapped' = {} /\ owner' = "subscribe"
      /\ UNCHANGED <<to, connection, link, promise, asked, list, made>>
  BY DEF StartSubscribe, dictionary
<1> USE DEF IInv
<1>2. /\ call' \in CallType /\ call'.by = "owner" /\ call'.todo = swapped
      /\ call'.item = NoInstrument /\ call'.conn = 0 /\ call'.stamp = "none"
  BY <1>1, BoundsAssumption DEF NoCall, CallType, Types, BoundsAssumption
<1>3. Types'
  BY <1>1, <1>2 DEF Types, CallType
<1>4. Linked' /\ Starting'
  BY <1>1 DEF Linked, Starting
<1>5. Calling'
  <2>1. call' # NoCall
    BY <1>2, NoCallType
  <2> QED
    BY <1>1, <1>2, <2>1 DEF Calling
<1>6. Asked'
  BY <1>1 DEF Asked, BeforeSwap, Open
<1>7. Remembered'
  BY <1>1, <1>2, NoCallType DEF Remembered
<1> QED
  BY <1>3, <1>4, <1>5, <1>6, <1>7

LEMMA StopIInv == ASSUME IInv, Stop PROVE IInv'
<1>1. /\ owner = "idle" /\ connection' = 0
      /\ link' = [link EXCEPT ![connection] = "destroyed"]
      /\ UNCHANGED <<to, promise, owner, asked, list, swapped, call, made>>
  BY DEF Stop, dictionary, subscriptions
<1> USE DEF IInv
<1>2. \A n \in Numbers : link'[n] = IF n = connection THEN "destroyed" ELSE link[n]
  BY <1>1 DEF Types
<1>3. Types'
  <2>1. link' \in [Numbers -> Links]
    BY <1>1 DEF Types, Links
  <2>2. connection' \in 0..MaxStarts
    BY <1>1, BoundsAssumption DEF BoundsAssumption
  <2> QED
    BY <1>1, <2>1, <2>2 DEF Types
<1>4. Linked' /\ Starting'
  BY <1>1, <1>2 DEF Linked, Starting
<1>5. Calling'
  <2>1. call.conn # 0 => call.conn \in Numbers
    BY BoundsAssumption DEF Types, Numbers, BoundsAssumption
  <2> QED
    BY <1>1, <1>2, <2>1 DEF Calling, Open
<1>6. Asked'
  BY <1>1 DEF Asked, Open
<1>7. Remembered'
  BY <1>1, RememberedFrame
<1> QED
  BY <1>3, <1>4, <1>5, <1>6, <1>7

-----------------------------------------------------------------------------
\* subscribe.

LEMMA SubscribeIInv ==
  ASSUME IInv, NEW instruments \in SUBSET Instruments, Subscribe(instruments)
  PROVE  IInv'
<1>1. /\ call = NoCall
      /\ call' = [NoCall EXCEPT !.by = "client", !.todo = instruments]
      /\ UNCHANGED <<to, connection, link, promise, owner, asked, list, swapped, made>>
  BY DEF Subscribe, dictionary, session
<1> USE DEF IInv
<1>2. /\ call' \in CallType /\ call'.by = "client" /\ call'.todo = instruments
      /\ call'.item = NoInstrument /\ call'.conn = 0 /\ call'.stamp = "none"
  <2>1. call' = [by |-> "client", todo |-> instruments, item |-> NoInstrument,
                 conn |-> 0, stamp |-> "none"]
    BY <1>1 DEF NoCall
  <2>2. 0 \in 0..MaxStarts
    BY BoundsAssumption DEF BoundsAssumption
  <2> QED
    BY <2>1, <2>2 DEF CallType
<1>3. Types'
  BY <1>1, <1>2 DEF Types, CallType
<1>4. Linked' /\ Starting' /\ Asked'
  BY <1>1 DEF Linked, Starting, Asked, BeforeSwap, Open
<1>5. Calling'
  <2>1. call' # NoCall
    BY <1>2, NoCallType
  <2> QED
    BY <1>1, <1>2, <2>1, NoCallType DEF Calling
<1>6. Remembered'
  BY <1>1, <1>2, NoCallType DEF Remembered
<1> QED
  BY <1>3, <1>4, <1>5, <1>6

\* An instrument that is looked at has a name, or was never subscribed to.
LEMMA LookIInv ==
  ASSUME IInv, NEW i, Look(i)
  PROVE  IInv'
<1>1. /\ i \in call.todo /\ call.item = NoInstrument
      /\ call' = [call EXCEPT !.todo = @ \ {i},
                              !.item = IF i \in DOMAIN to THEN i ELSE NoInstrument,
                              !.conn = IF i \in DOMAIN to THEN connection ELSE 0]
      /\ UNCHANGED <<to, connection, link, promise, owner, asked, list, swapped, made>>
  BY DEF Look, dictionary, session
<1> USE DEF IInv
<1>2. call \in CallType /\ i \in Instruments
  BY <1>1 DEF Types, CallType
<1>3. i # NoInstrument
  BY <1>2, DictionaryAssumption DEF DictionaryAssumption
<1>4. /\ call'.by = call.by /\ call'.todo = call.todo \ {i} /\ call'.stamp = call.stamp
      /\ call'.item = IF i \in DOMAIN to THEN i ELSE NoInstrument
      /\ call'.conn = IF i \in DOMAIN to THEN connection ELSE 0
  BY <1>1, <1>2 DEF CallType
<1>5. call' \in CallType
  <2>1. connection \in 0..MaxStarts /\ 0 \in 0..MaxStarts
    BY BoundsAssumption DEF Types, BoundsAssumption
  <2> QED
    BY <1>1, <1>2, <2>1 DEF CallType
<1>6. Types'
  BY <1>1, <1>5 DEF Types, CallType
<1>7. Linked' /\ Starting' /\ Asked'
  BY <1>1 DEF Linked, Starting, Asked, BeforeSwap, Open
<1>8. call.by # "nobody"
  BY <1>1, NoCallType DEF Calling
<1>9. Calling'
  <2>1. call'.by # "nobody" /\ call' # NoCall
    BY <1>4, <1>8, NoCallType
  <2>2. call'.stamp = "none"
    BY <1>1, <1>4 DEF Calling
  <2> QED
    BY <1>1, <1>3, <1>4, <2>1, <2>2 DEF Calling, Open
<1>10. Remembered'
  <2>1. i \in DOMAIN to \/ i \notin made
    BY DEF Remembered
  <2>2. NoInstrument \notin made
    BY DictionaryAssumption DEF Types, DictionaryAssumption
  <2> QED
    BY <1>1, <1>4, <2>1, <2>2 DEF Remembered
<1> QED
  BY <1>6, <1>7, <1>9, <1>10

\* What is written through a pointer to the open connection is asked for.
LEMMA SendIInv == ASSUME IInv, Send PROVE IInv'
<1>1. /\ call.item # NoInstrument /\ call.conn # 0 /\ call.stamp = "none"
      /\ UNCHANGED <<to, connection, link, promise, owner, list, swapped, made>>
  BY DEF Send, dictionary, session
<1>2. CASE UNCHANGED <<asked, call>>
  BY <1>1, <1>2, Frame
<1>3. CASE /\ link[call.conn] # "destroyed"
           /\ asked' = IF link[call.conn] \in {"connecting", "open"}
                       THEN asked \union {to[call.item]} ELSE asked
           /\ call' = [call EXCEPT !.stamp = "fresh"]
  <2> USE DEF IInv
  <2>1. call \in CallType
    BY DEF Types, CallType
  <2>2. /\ call'.by = call.by /\ call'.todo = call.todo /\ call'.item = call.item
        /\ call'.conn = call.conn /\ call'.stamp = "fresh" /\ call' \in CallType
    BY <1>3, <2>1 DEF CallType
  <2>3. call.conn = connection
    BY <1>1, <1>3 DEF Calling
  <2>4. Open => to[call.item] \in asked'
    BY <1>3, <2>3 DEF Open
  <2>5. Types'
    BY <1>1, <2>2 DEF Types, CallType
  <2>6. Linked' /\ Starting'
    BY <1>1 DEF Linked, Starting
  <2>7. Asked'
    <3>1. asked \subseteq asked'
      BY <1>3
    <3> QED
      BY <1>1, <3>1 DEF Asked, BeforeSwap, Open
  <2>8. Calling'
    <3>1. call.by # "nobody" /\ call' # NoCall
      BY <1>1, <2>2, NoCallType DEF Calling
    <3> QED
      BY <1>1, <2>2, <2>3, <2>4, <3>1 DEF Calling, BeforeSwap, Open
  <2>9. Remembered'
    BY <1>1, <2>2 DEF Remembered
  <2> QED
    BY <2>5, <2>6, <2>7, <2>8, <2>9
<1> QED
  BY <1>2, <1>3 DEF Send

LEMMA KeepIInv == ASSUME IInv, Keep PROVE IInv'
<1>1. /\ call.item # NoInstrument /\ (call.conn = 0 \/ call.stamp # "none")
      /\ list' = list \union {call.item} /\ made' = made \union {call.item}
      /\ call' = [NoCall EXCEPT !.by = call.by, !.todo = call.todo]
      /\ UNCHANGED <<to, connection, link, promise, owner, asked, swapped>>
  BY DEF Keep, dictionary, session
<1> USE DEF IInv
<1>2. call \in CallType /\ call.item \in Instruments
  BY <1>1 DEF Types, CallType
<1>3. /\ call'.by = call.by /\ call'.todo = call.todo /\ call'.item = NoInstrument
      /\ call'.conn = 0 /\ call'.stamp = "none" /\ call' \in CallType
  BY <1>1, <1>2, NoCallType DEF NoCall, CallType
<1>4. Types'
  BY <1>1, <1>2, <1>3 DEF Types, CallType
<1>5. Linked' /\ Starting'
  BY <1>1 DEF Linked, Starting
<1>6. Asked'
  <2>1. BeforeSwap \/ ~Open \/ to[call.item] \in asked
    BY <1>1 DEF Calling
  <2> QED
    BY <1>1, <2>1 DEF Asked, BeforeSwap, Open
<1>7. Calling'
  <2>1. call.by # "nobody" /\ call' # NoCall
    BY <1>1, <1>3, NoCallType DEF Calling
  <2> QED
    BY <1>1, <1>3, <2>1 DEF Calling
<1>8. Remembered'
  BY <1>1, <1>3 DEF Remembered, Calling
<1> QED
  BY <1>4, <1>5, <1>6, <1>7, <1>8

\* When start gives the lock back, nothing is left in its hands.
LEMMA EndSubscribeIInv == ASSUME IInv, EndSubscribe PROVE IInv'
<1>1. /\ call # NoCall /\ call.todo = {} /\ call.item = NoInstrument
      /\ call' = NoCall
      /\ owner' = IF call.by = "owner" THEN "idle" ELSE owner
      /\ UNCHANGED <<to, connection, link, promise, asked, list, swapped, made>>
  BY DEF EndSubscribe, dictionary
<1> USE DEF IInv
<1>2. call.by = "owner" => owner = "subscribe" /\ swapped = {}
  BY DEF Calling, Remembered
<1>3. Types'
  BY <1>1, NoCallType DEF Types, CallType
<1>4. Linked'
  BY <1>1 DEF Linked
<1>5. Starting'
  BY <1>1, <1>2 DEF Starting
<1>6. Asked'
  BY <1>1, <1>2 DEF Asked, BeforeSwap, Open
<1>7. Calling'
  BY <1>1, <1>2, NoCallType DEF Calling
<1>8. Remembered'
  <2>1. NoInstrument \notin made
    BY DictionaryAssumption DEF Types, DictionaryAssumption
  <2> QED
    BY <1>1, <1>2, <2>1, NoCallType DEF Remembered
<1> QED
  BY <1>3, <1>4, <1>5, <1>6, <1>7, <1>8

-----------------------------------------------------------------------------
\* The service thread.

\* A step of the connection that does not open it, or opens it before the thread in
\* start goes on.
LEMMA LinkIInv ==
  ASSUME IInv, NEW s \in Links \ {"none", "destroyed"}, connection # 0,
         link' = [link EXCEPT ![connection] = s],
         s = "open" => owner = "wait",
         Starting',
         UNCHANGED <<to, connection, owner, asked, list, swapped, call, made>>
  PROVE  IInv'
<1> USE DEF IInv
<1>1. connection \in Numbers
  BY BoundsAssumption DEF Types, Numbers, BoundsAssumption
<1>2. link'[connection] = s /\ \A n \in Numbers \ {connection} : link'[n] = link[n]
  BY <1>1 DEF Types
<1>3. Types'
  BY DEF Types, Links
<1>4. Linked'
  BY <1>2 DEF Linked
<1>5. BeforeSwap' = BeforeSwap /\ (Open' => BeforeSwap)
  BY <1>2 DEF Open, BeforeSwap
<1>6. Calling'
  <2>1. call.conn # 0 => call.conn \in Numbers
    BY BoundsAssumption DEF Types, Numbers, BoundsAssumption
  <2> QED
    BY <1>2, <1>5, <2>1 DEF Calling
<1>7. Asked'
  BY <1>5 DEF Asked
<1>8. Remembered'
  BY RememberedFrame
<1> QED
  BY <1>3, <1>4, <1>6, <1>7, <1>8

LEMMA ConnectionIInv == ASSUME IInv, Connection PROVE IInv'
<1>1. CASE RunConnect
  <2>1. /\ connection # 0 /\ link[connection] = "queued"
        /\ link' = [link EXCEPT ![connection] = "connecting"]
        /\ UNCHANGED <<to, connection, promise, owner, asked, list, swapped, call, made>>
    BY <1>1 DEF RunConnect, dictionary, subscriptions
  <2>2. link'[connection] = "connecting" /\ "connecting" \in Links \ {"none", "destroyed"}
    BY <2>1, BoundsAssumption DEF IInv, Types, Numbers, Links, BoundsAssumption
  <2>3. Starting'
    BY <2>1, <2>2 DEF IInv, Starting
  <2> QED
    BY <2>1, <2>2, <2>3, LinkIInv
<1>2. ASSUME NEW ok \in BOOLEAN, Handshake(ok)
      PROVE  IInv'
  <2> DEFINE s == IF ok THEN "open" ELSE "failed"
  <2>1. /\ connection # 0 /\ link[connection] = "connecting"
        /\ link' = [link EXCEPT ![connection] = s]
        /\ promise' = IF ok THEN "true" ELSE "false"
        /\ UNCHANGED <<to, connection, owner, asked, list, swapped, call, made>>
    BY <1>2 DEF Handshake, dictionary, subscriptions
  <2>2. link'[connection] = s /\ s \in Links \ {"none", "destroyed"}
    BY <2>1, BoundsAssumption DEF IInv, Types, Numbers, Links, BoundsAssumption
  <2>3. owner = "wait"
    BY <2>1 DEF IInv, Starting
  <2>4. Starting'
    BY <2>1, <2>2, <2>3 DEF IInv, Starting
  <2> HIDE DEF s
  <2> QED
    BY <2>1, <2>2, <2>3, <2>4, LinkIInv
<1>3. CASE ClearStarted
  BY <1>3, Frame DEF ClearStarted, dictionary, subscriptions
<1>4. CASE Close
  <2>1. /\ connection # 0 /\ link[connection] = "open"
        /\ link' = [link EXCEPT ![connection] = "closed"]
        /\ UNCHANGED <<to, connection, promise, owner, asked, list, swapped, call, made>>
    BY <1>4 DEF Close, Open, dictionary, subscriptions
  <2>2. link'[connection] = "closed" /\ "closed" \in Links \ {"none", "destroyed"}
    BY <2>1, BoundsAssumption DEF IInv, Types, Numbers, Links, BoundsAssumption
  <2>3. Starting'
    BY <2>1, <2>2 DEF IInv, Starting
  <2> QED
    BY <2>1, <2>2, <2>3, LinkIInv
<1> QED
  BY <1>1, <1>2, <1>3, <1>4 DEF Connection

\* A ping makes the time a call has read an old one, and no more.
LEMMA CheckTimersIInv == ASSUME IInv, CheckTimers PROVE IInv'
<1>1. /\ call' = IF call.stamp = "fresh" THEN [call EXCEPT !.stamp = "old"] ELSE call
      /\ UNCHANGED <<to, connection, link, promise, owner, asked, list, swapped, made>>
  BY DEF CheckTimers, dictionary, session
<1>2. CASE call.stamp # "fresh"
  BY <1>1, <1>2, Frame
<1>3. CASE call.stamp = "fresh"
  <2> USE DEF IInv
  <2>1. /\ call'.by = call.by /\ call'.todo = call.todo /\ call'.item = call.item
        /\ call'.conn = call.conn /\ call'.stamp = "old" /\ call' \in CallType
    BY <1>1, <1>3 DEF Types, CallType
  <2>2. Types'
    BY <1>1, <2>1 DEF Types, CallType
  <2>3. Linked' /\ Starting' /\ Asked'
    BY <1>1 DEF Linked, Starting, Asked, BeforeSwap, Open
  <2>4. Calling'
    <3>1. call.by # "nobody" /\ call' # NoCall
      BY <1>3, <2>1, NoCallType DEF Calling
    <3> QED
      BY <1>1, <1>3, <2>1, <3>1 DEF Calling, BeforeSwap, Open
  <2>5. Remembered'
    BY <1>1, <2>1 DEF Remembered
  <2> QED
    BY <2>2, <2>3, <2>4, <2>5
<1> QED
  BY <1>2, <1>3

LEMMA NextIInv == IInv /\ [Next]_vars => IInv'
<1> SUFFICES ASSUME IInv, [Next]_vars
             PROVE  IInv'
  OBVIOUS
<1>1. CASE Start
  BY <1>1, StartBeginIInv, StartConnectIInv, StartFailsIInv, StartSwapIInv,
     StartSubscribeIInv
  DEF Start
<1>2. CASE Subscribing
  BY <1>2, LookIInv, SendIInv, KeepIInv, EndSubscribeIInv DEF Subscribing
<1>3. ASSUME NEW instruments \in SUBSET Instruments \ {{}}, Subscribe(instruments)
      PROVE  IInv'
  BY <1>3, SubscribeIInv
<1>4. CASE Message
  <2>1. ASSUME NEW c, Data(c) PROVE IInv'
    BY <2>1, Frame DEF Data, dictionary, session, subscriptions
  <2>2. CASE Pong
    BY <2>2, Frame DEF Pong, dictionary, session, subscriptions
  <2> QED
    BY <1>4, <2>1, <2>2 DEF Message
<1>5. CASE Watch
  <2>1. CASE Elapse \/ Expire \/ PingTimeout
    BY <2>1, Frame DEF Elapse, Expire, PingTimeout, dictionary, session, subscriptions
  <2> QED
    BY <1>5, <2>1, CheckTimersIInv DEF Watch
<1>6. CASE Die
  BY <1>6, Frame DEF Die, dictionary, session, subscriptions
<1>7. CASE Rest
  <2>1. ASSUME NEW i, DepthResponse(i) PROVE IInv'
    BY <2>1, Frame DEF DepthResponse, dictionary, session, subscriptions
  <2>2. CASE DepthAdd
    BY <2>2, Frame DEF DepthAdd, dictionary, session, subscriptions
  <2> QED
    BY <1>7, <2>1, <2>2 DEF Rest
<1>8. CASE UNCHANGED vars
  BY <1>8, Frame DEF vars, dictionary, session, subscriptions
<1> QED
  BY <1>1, <1>2, <1>3, <1>4, <1>5, <1>6, <1>7, <1>8, ConfigIInv, StopIInv,
     ConnectionIInv
  DEF Next

-----------------------------------------------------------------------------

\* A start that has returned has asked for all that was subscribed to, on the
\* connection that is open, and no interleaving of subscribe with start, stop, a
\* failed handshake or a closing loses a subscription.
THEOREM SubscriptionsAreAsked == Spec => []AllAsked
<1>1. IInv => AllAsked
  <2> SUFFICES ASSUME IInv, owner = "idle", Open
               PROVE  \A i \in made : to[i] \in asked
    BY DEF AllAsked
  <2>1. call.by # "owner" /\ swapped = {}
    BY DEF IInv, Calling, Remembered
  <2>2. made \subseteq list
    BY <2>1 DEF IInv, Remembered
  <2> QED
    BY <2>2 DEF IInv, Asked, BeforeSwap
<1> QED
  BY InitIInv, NextIInv, <1>1, PTL DEF Spec

-----------------------------------------------------------------------------
\* WebSocketWrite: types and flag.

WriteInv == TypeOK /\ FlagMatchesBuffer

-----------------------------------------------------------------------------

(* Initially every buffer is empty and every thread outside write.           *)
LEMMA InitWriteInv == WriteInit => WriteInv
<1> SUFFICES ASSUME WriteInit PROVE WriteInv
  OBVIOUS
<1>1. writeBuffer \in Seq(Messages) /\ writtenBuffer \in Seq(Messages) /\ sent \in Seq(Messages)
  BY EmptySeq DEF WriteInit
<1>2. /\ handshake \in {"pending", "done", "failed"} /\ (handshake # "pending" => webSocket # 0)
      /\ sending \in BOOLEAN /\ (sending => pc[Service] = "idle")
      /\ wantWrite \in BOOLEAN /\ crashed \in BOOLEAN
  BY Zenon DEF WriteInit
<1>3. /\ webSocket \in 0..MaxSockets /\ sockets \in 0..MaxSockets
      /\ calls \in [Writers -> 0..MaxWrites]
      /\ pc \in [Writers -> {"idle", "append", "wake"}]
      /\ \A w \in Writers : pc[w] = "append" => calls[w] > 0
  BY WriteBoundsAssumption DEF WriteInit
<1>4. FlagMatchesBuffer
  BY Zenon DEF WriteInit, FlagMatchesBuffer
<1> QED
  BY <1>1, <1>2, <1>3, <1>4 DEF WriteInv, TypeOK

(* No step of a writer or of the service thread breaks the types or the      *)
(* agreement of m_wantWrite with m_writeBuffer.                              *)
LEMMA NextWriteInv == WriteInv /\ [WriteNext]_writeVars => WriteInv'
<1> SUFFICES ASSUME WriteInv, [WriteNext]_writeVars PROVE WriteInv'
  OBVIOUS
<1> USE WriteBoundsAssumption, ServiceAssumption DEF WriteInv, TypeOK, FlagMatchesBuffer
<1>1. ASSUME NEW w \in Writers, Write(w) PROVE WriteInv'
  BY <1>1 DEF Write, MayRun, Writers
<1>2. ASSUME NEW w \in Writers, AppendMessage(w) PROVE WriteInv'
  <2>1. <<w, calls[w]>> \in Messages
    BY <1>2 DEF AppendMessage, Messages
  <2>2. writeBuffer' \in Seq(Messages) /\ writeBuffer' # <<>>
    BY <1>2, <2>1, AppendProperties DEF AppendMessage
  <2>3. sending => w # Service
    BY <1>2 DEF AppendMessage
  <2> QED
    BY <1>2, <2>2, <2>3 DEF AppendMessage
<1>3. ASSUME NEW w \in Writers, Wake(w) PROVE WriteInv'
  <2>1. crashed' \in BOOLEAN
    BY <1>3 DEF Wake
  <2>2. /\ pc' = [pc EXCEPT ![w] = "idle"]
        /\ UNCHANGED <<webSocket, handshake, sockets, writeBuffer, writtenBuffer,
                       wantWrite, sending, calls, sent>>
    BY <1>3 DEF Wake
  <2> QED
    BY <2>1, <2>2
<1>4. CASE SwapBuffers
  BY <1>4 DEF SwapBuffers, Waiting
<1>5. CASE SendMessage
  <2>1. /\ Head(writtenBuffer) \in Messages
        /\ Tail(writtenBuffer) \in Seq(Messages)
    BY <1>5, HeadTailProperties DEF SendMessage
  <2>2. sent' \in Seq(Messages)
    BY <1>5, <2>1, AppendProperties DEF SendMessage
  <2> QED
    BY <1>5, <2>1, <2>2 DEF SendMessage
<1>6. CASE EndWrite
  BY <1>6 DEF EndWrite
<1>7. CASE Connect
  BY <1>7 DEF Connect
<1>8. CASE Established
  BY <1>8 DEF Established
<1>11. CASE ConnectFailed
  BY <1>11 DEF ConnectFailed
<1>9. CASE OnClose
  <2>1. webSocket' \in 0..MaxSockets
    BY <1>9 DEF OnClose
  <2>2. handshake' \in {"pending", "done", "failed"} /\ (handshake' # "pending" => webSocket' # 0)
    BY <1>9, Zenon DEF OnClose
  <2>3. UNCHANGED <<sockets, writeBuffer, writtenBuffer, wantWrite, sending, pc,
                    calls, sent, crashed>>
    BY <1>9 DEF OnClose
  <2> QED
    BY <2>1, <2>2, <2>3
<1>10. CASE UNCHANGED writeVars
  BY <1>10 DEF writeVars
<1> QED
  BY <1>1, <1>2, <1>3, <1>4, <1>5, <1>6, <1>7, <1>8, <1>9, <1>10, <1>11 DEF WriteNext

(* Every variable of write and onWrite keeps its type, and a handler's write *)
(* never overlaps the loop of onWrite.                                       *)
THEOREM TypeCorrect == WriteSpec => []TypeOK
<1>1. WriteInv => TypeOK
  BY DEF WriteInv
<1> QED
  BY InitWriteInv, NextWriteInv, <1>1, PTL DEF WriteSpec

(* m_wantWrite, read by the service thread without the mutex, is set exactly *)
(* while messages wait in m_writeBuffer, and a swap finds m_writtenBuffer    *)
(* empty.                                                                    *)
THEOREM FlagCorrect == WriteSpec => []FlagMatchesBuffer
<1>1. WriteInv => FlagMatchesBuffer
  BY DEF WriteInv
<1> QED
  BY InitWriteInv, NextWriteInv, <1>1, PTL DEF WriteSpec

-----------------------------------------------------------------------------

(* Appending to the second of two sequences appends to the two together.     *)
LEMMA AppendToConcat ==
  ASSUME NEW S, NEW s \in Seq(S), NEW t \in Seq(S), NEW e \in S
  PROVE  s \o Append(t, e) = Append(s \o t, e)
<1>1. Append(t, e) = t \o <<e>> /\ <<e>> \in Seq(S)
  BY AppendIsConcat
<1>2. s \o t \in Seq(S)
  BY ConcatProperties
<1>3. Append(s \o t, e) = (s \o t) \o <<e>>
  BY <1>2, AppendIsConcat
<1>4. (s \o t) \o <<e>> = s \o (t \o <<e>>)
  BY <1>1, ConcatAssociative
<1> QED
  BY <1>1, <1>3, <1>4

(* The head of two sequences together is the head of the first.              *)
LEMMA HeadTailOfConcat ==
  ASSUME NEW S, NEW s \in Seq(S), NEW t \in Seq(S), s # <<>>
  PROVE  /\ s \o t # <<>>
         /\ Head(s \o t) = Head(s)
         /\ Tail(s \o t) = Tail(s) \o t
<1>1. /\ Len(s) \in Nat \ {0} /\ Len(t) \in Nat
      /\ s \o t \in Seq(S)
      /\ Len(s \o t) = Len(s) + Len(t)
      /\ \A i \in 1..Len(s) + Len(t) :
           (s \o t)[i] = IF i <= Len(s) THEN s[i] ELSE t[i - Len(s)]
  BY ConcatProperties, EmptySeq, LenProperties
<1>2. s \o t # <<>>
  BY <1>1, EmptySeq
<1>3. Head(s \o t) = Head(s)
  BY <1>1, <1>2
<1>4. /\ Tail(s) \in Seq(S) /\ Len(Tail(s)) = Len(s) - 1
      /\ \A i \in 1..Len(s) - 1 : Tail(s)[i] = s[i + 1]
  BY <1>1, HeadTailProperties
<1>5. /\ Tail(s \o t) \in Seq(S) /\ Len(Tail(s \o t)) = Len(s) + Len(t) - 1
      /\ \A i \in 1..Len(s) + Len(t) - 1 : Tail(s \o t)[i] = (s \o t)[i + 1]
  BY <1>1, <1>2, HeadTailProperties
<1>6. /\ Tail(s) \o t \in Seq(S) /\ Len(Tail(s) \o t) = Len(s) - 1 + Len(t)
      /\ \A i \in 1..Len(s) - 1 + Len(t) :
           (Tail(s) \o t)[i] = IF i <= Len(s) - 1 THEN Tail(s)[i] ELSE t[i - (Len(s) - 1)]
  BY <1>4, ConcatProperties
<1>7. \A i \in 1..Len(Tail(s \o t)) : Tail(s \o t)[i] = (Tail(s) \o t)[i]
  BY <1>1, <1>4, <1>5, <1>6
<1>8. Tail(s \o t) = Tail(s) \o t
  BY <1>1, <1>5, <1>6, <1>7, SeqEqual
<1> QED
  BY <1>2, <1>3, <1>8

(* With all buffers empty the queue is empty.                                *)
LEMMA InitQueue == WriteInit => Queue!Init
  BY DEF WriteInit, Queue!Init

(* The critical section of write is an Accept, a turn of the loop a Deliver, *)
(* and everything else leaves the queue as it is.                            *)
LEMMA NextQueue ==
  WriteInv /\ [WriteNext]_writeVars => [Queue!Next]_<<writtenBuffer \o writeBuffer, sent>>
<1> SUFFICES ASSUME WriteInv, [WriteNext]_writeVars
             PROVE  \/ Queue!Next
                    \/ UNCHANGED <<writtenBuffer \o writeBuffer, sent>>
  OBVIOUS
<1>0. /\ writeBuffer \in Seq(Messages) /\ writtenBuffer \in Seq(Messages)
      /\ calls \in [Writers -> 0..MaxWrites]
      /\ \A w \in Writers : pc[w] = "append" => calls[w] > 0
      /\ ~sending => writtenBuffer = <<>>
  BY DEF WriteInv, TypeOK, FlagMatchesBuffer
<1>1. ASSUME NEW w \in Writers, AppendMessage(w) PROVE Queue!Next
  <2>1. <<w, calls[w]>> \in Messages
    BY <1>0, <1>1, WriteBoundsAssumption DEF AppendMessage, Messages
  <2>2. Queue!Accept(<<w, calls[w]>>)
    BY <1>0, <1>1, <2>1, AppendToConcat DEF AppendMessage, Queue!Accept
  <2> QED
    BY <2>1, <2>2 DEF Queue!Next
<1>2. CASE SwapBuffers
  <2>1. writtenBuffer = <<>>
    BY <1>0, <1>2 DEF SwapBuffers, Waiting
  <2>2. writtenBuffer' \o writeBuffer' = writtenBuffer \o writeBuffer
    BY <1>0, <1>2, <2>1, ConcatEmptySeq DEF SwapBuffers
  <2> QED
    BY <1>2, <2>2 DEF SwapBuffers
<1>3. CASE SendMessage
  <2>1. Queue!Deliver
    BY <1>0, <1>3, HeadTailOfConcat DEF SendMessage, Queue!Deliver
  <2> QED
    BY <2>1 DEF Queue!Next
<1>4. CASE UNCHANGED <<writeBuffer, writtenBuffer, sent>>
  BY <1>4
<1> QED
  BY <1>1, <1>2, <1>3, <1>4
  DEF WriteNext, writeVars, Write, Wake, EndWrite, Connect, Established, ConnectFailed, OnClose

(* Seen through the two buffers, every behaviour of the connection is one of *)
(* a FIFO queue: nothing accepted is lost, repeated or overtaken.            *)
THEOREM OutboxImplemented == WriteSpec => ImplementsOutbox
<1>1. WriteSpec => []WriteInv
  BY InitWriteInv, NextWriteInv, PTL DEF WriteSpec
<1> QED
  BY <1>1, InitQueue, NextQueue, PTL DEF WriteSpec, ImplementsOutbox, Queue!Spec
===============================================================================
