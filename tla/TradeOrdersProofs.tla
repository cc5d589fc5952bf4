-------------------------- MODULE TradeOrdersProofs --------------------------
(***************************************************************************)
(* The order requests of the trade adapter, for any threads, any orders and *)
(* any bounds: each response is handled with the order it is about, and     *)
(* what is reported of an order's placement is true and comes first.        *)
(*                                                                         *)
(* Requests and responses on their way form one line, the responses first.  *)
(* The invariant gives each of them an entry of its own in the queue of its *)
(* channel, in the same order.                                              *)
(***************************************************************************)
EXTENDS TradeOrders, SequenceTheorems, TLAPS

Requests == [channel : {"order", "cancel"}, order : Orders \union {None}, for : Orders]
Responses == [channel : {"order", "cancel"}, result : {"ok", "error", "done"},
              order : Orders \union {None}, for : Orders]
States == {"None", "Failed", "Placed", "Filled", "Unknown", "Cancelled"}
Places == {"idle", "lock", "send", "handle", "callback"}

Types ==
  /\ lock \in Callers \union {None}
  /\ queue \in [Channels -> Seq(Orders)]
  /\ state \in [Orders -> States] /\ id \in [Orders -> Orders \union {None}]
  /\ pc \in [Callers -> Places]
  /\ call \in [Callers -> [kind : Kinds, order : Orders \union {None}]]
  /\ handling \in [msg : Responses \union {None}, order : Orders \union {None}]
  /\ connected \in BOOLEAN /\ lost \in BOOLEAN /\ sessions \in Nat
  /\ wire \in Seq(Requests) /\ resp \in Seq(Responses)
  /\ srv \in [Orders -> {"none", "open", "rejected", "filled", "cancelled"}]
  /\ asked \in [Orders -> [Kinds -> Nat]]
  /\ crashed \in {"no", "null", "overrun"}

Calling(t) == pc[t] \in {"lock", "send"}

\* The lock is held from push to write, a call is counted when it begins, and
\* what the service thread handles is a response.
Control ==
  /\ \A t \in Callers : pc[t] = "send" <=> lock = t
  /\ \A t \in Callers :
       Calling(t) => call[t].order \in Orders /\ asked[call[t].order][call[t].kind] > 0
  /\ pc[Ws] = "handle" => handling.msg \in Responses
  /\ \A t \in Threads : pc[t] # "handle"
  /\ \A o \in Orders : asked[o]["place"] <= 1

\* The line of messages, by position: channel and order of each.
Line == 1..Len(resp) + Len(wire)
Chan(i) == IF i <= Len(resp) THEN resp[i].channel ELSE wire[i - Len(resp)].channel
For(i) == IF i <= Len(resp) THEN resp[i].for ELSE wire[i - Len(resp)].for

\* Status requests spoil the cancel channel, whose responses they share.
Tracked(ch) == ch = "order" \/ ~Asked("status")

\* Between push and write the message is not in the line yet.
PendingOn(ch) == \E t \in Callers : pc[t] = "send" /\ QueueOf(call[t].kind) = ch

\* f gives each message of the line its entry in the queue; the last entry is the
\* pending one's.
Fits(f) ==
  /\ \A i \in Line : Tracked(Chan(i)) =>
       /\ f[i] \in 1..Len(queue[Chan(i)])
       /\ queue[Chan(i)][f[i]] = For(i)
       /\ PendingOn(Chan(i)) => f[i] < Len(queue[Chan(i)])
       /\ \A j \in Line : i < j /\ Chan(j) = Chan(i) => f[i] < f[j]

\* With nothing lost every entry is the one of a message.
Onto(f) ==
  \A ch \in {"order", "cancel"} : Tracked(ch) =>
    \A p \in 1..Len(queue[ch]) :
      (\E i \in Line : Chan(i) = ch /\ f[i] = p) \/ (PendingOn(ch) /\ p = Len(queue[ch]))

Queued ==
  /\ \E f \in [Line -> Nat] : Fits(f) /\ (~lost => Onto(f))
  /\ \A t \in Callers : pc[t] = "send" =>
       LET q == queue[QueueOf(call[t].kind)]
       IN Len(q) > 0 /\ q[Len(q)] = call[t].order

\* The null handle is taken from a queue that a status request made short.
Popped == pc[Ws] = "handle" /\ handling.order = None => Asked("status")

\* The one request to place an order: about to be made, on its way, or answered.
Placing(t, o) == Calling(t) /\ call[t].kind = "place" /\ call[t].order = o
Sent(i, o) == Chan(i) = "order" /\ For(i) = o
Handled(o) == pc[Ws] = "handle" /\ handling.msg.channel = "order" /\ handling.msg.for = o

Once ==
  \A o \in Orders :
    /\ \A t, u \in Callers : Placing(t, o) /\ Placing(u, o) => t = u
    /\ \A i, j \in Line : Sent(i, o) /\ Sent(j, o) => i = j
    /\ \A t \in Callers, i \in Line : ~(Placing(t, o) /\ Sent(i, o))
    /\ Handled(o) => (\A t \in Callers : ~Placing(t, o)) /\ \A i \in Line : ~Sent(i, o)
    /\ asked[o]["place"] = 0 =>
         ~Handled(o) /\ (\A t \in Callers : ~Placing(t, o)) /\ \A i \in Line : ~Sent(i, o)

\* The answer to a request to place the order, and what the exchange did then.
Verdict(m) ==
  /\ m.order = m.for
  /\ \/ m.result = "ok" /\ srv[m.for] \notin {"none", "rejected"}
     \/ m.result = "error" /\ srv[m.for] = "rejected"

Answers ==
  /\ \A o \in Orders : asked[o]["place"] = 0 => srv[o] = "none"
  /\ \A t \in Callers, o \in Orders : Placing(t, o) => srv[o] = "none"
  /\ \A i \in 1..Len(wire) :
       wire[i].channel = "order" => wire[i].order = wire[i].for /\ srv[wire[i].for] = "none"
  /\ \A i \in 1..Len(resp) : resp[i].channel = "order" => Verdict(resp[i])
  /\ pc[Ws] = "handle" /\ handling.msg.channel = "order" => Verdict(handling.msg)

\* Until its placement is reported nothing else is asked or reported of an order.
First ==
  ~lost /\ ~Asked("status") =>
    /\ \A o \in Orders : asked[o]["place"] = 0 => state[o] = "None"
    /\ \A o \in Orders : id[o] # None => state[o] # "None"
    /\ \A t \in Callers : Calling(t) => (state[call[t].order] = "None" <=> call[t].kind = "place")
    /\ \A i \in Line : state[For(i)] = "None" <=> Chan(i) = "order"
    /\ pc[Ws] = "handle" => (state[handling.msg.for] = "None" <=> handling.msg.channel = "order")

IInv == /\ Types /\ Control /\ Queued /\ Popped /\ Once /\ Answers /\ First
        /\ ResponseMatched /\ PlacementTruthful /\ NoNullOrder

-----------------------------------------------------------------------------

(* The line when neither requests nor responses move.                        *)
LEMMA SameLine ==
  ASSUME wire' = wire, resp' = resp
  PROVE  Line' = Line /\ \A i : Chan(i)' = Chan(i) /\ For(i)' = For(i)
BY DEF Line, Chan, For

(* A request written joins the end of the line.                              *)
LEMMA LineSent ==
  ASSUME Types, NEW m \in Requests, wire' = Append(wire, m), resp' = resp,
         NEW n, n = Len(resp) + Len(wire) + 1
  PROVE  /\ n \in Nat /\ Line' = Line \union {n} /\ \A i \in Line : i \in Int /\ i < n
         /\ \A i \in Line : Chan(i)' = Chan(i) /\ For(i)' = For(i)
         /\ Chan(n)' = m.channel /\ For(n)' = m.for
<1>1. Len(resp) \in Nat /\ Len(wire) \in Nat
  BY LenProperties DEF Types
<1>2. /\ Len(wire') = Len(wire) + 1
      /\ \A i \in 1..Len(wire) : wire'[i] = wire[i]
      /\ wire'[Len(wire) + 1] = m
  BY AppendProperties DEF Types
<1>3. n \in Nat /\ Line' = Line \union {n} /\ \A i \in Line : i \in Int /\ i < n
  BY <1>1, <1>2 DEF Line
<1>4. \A i \in Line : Chan(i)' = Chan(i) /\ For(i)' = For(i)
  BY <1>1, <1>2 DEF Line, Chan, For
<1>5. Chan(n)' = m.channel /\ For(n)' = m.for
  <2>1. ~(n <= Len(resp')) /\ n - Len(resp') = Len(wire) + 1
    BY <1>1
  <2> QED
    BY <1>2, <2>1 DEF Chan, For
<1> QED
  BY <1>3, <1>4, <1>5

(* A response taken leaves the head of the line.                             *)
LEMMA LineReceived ==
  ASSUME Types, resp # <<>>, resp' = Tail(resp), wire' = wire
  PROVE  /\ 1 \in Line /\ Chan(1) = Head(resp).channel /\ For(1) = Head(resp).for
         /\ \A i \in Line' : i \in Nat /\ i >= 1 /\ i + 1 \in Line
                              /\ Chan(i)' = Chan(i + 1) /\ For(i)' = For(i + 1)
         /\ \A j \in Line : j \in Nat /\ (j = 1 \/ (j > 1 /\ j - 1 \in Line'))
<1>1. Len(resp) \in Nat \ {0} /\ Len(wire) \in Nat
  BY LenProperties, EmptySeq DEF Types
<1>2. /\ Len(resp') = Len(resp) - 1
      /\ \A i \in 1..Len(resp) - 1 : resp'[i] = resp[i + 1]
  BY HeadTailProperties DEF Types
<1> QED
  BY <1>1, <1>2 DEF Line, Chan, For

(* An answer takes the place of its request.                                 *)
LEMMA LineAnswered ==
  ASSUME Types, wire # <<>>, NEW m \in Responses,
         m.channel = Head(wire).channel, m.for = Head(wire).for,
         resp' = Append(resp, m), wire' = Tail(wire)
  PROVE  /\ Line' = Line
         /\ \A i \in Line : Chan(i)' = Chan(i) /\ For(i)' = For(i)
<1>1. Len(resp) \in Nat /\ Len(wire) \in Nat \ {0}
  BY LenProperties, EmptySeq DEF Types
<1>2. /\ Len(wire') = Len(wire) - 1
      /\ \A i \in 1..Len(wire) - 1 : wire'[i] = wire[i + 1]
  BY HeadTailProperties DEF Types
<1>3. /\ Len(resp') = Len(resp) + 1
      /\ \A i \in 1..Len(resp) : resp'[i] = resp[i]
      /\ resp'[Len(resp) + 1] = m
  BY AppendProperties DEF Types
<1> QED
  BY <1>1, <1>2, <1>3 DEF Line, Chan, For

(* What is in the line is well formed.                                       *)
LEMMA LineType ==
  ASSUME Types
  PROVE  \A i \in Line : i \in Nat /\ Chan(i) \in {"order", "cancel"} /\ For(i) \in Orders
<1>1. Len(resp) \in Nat /\ Len(wire) \in Nat
  BY LenProperties DEF Types
<1>2. \A i \in 1..Len(resp) : resp[i] \in Responses
  BY ElementOfSeq DEF Types
<1>3. \A i \in 1..Len(wire) : wire[i] \in Requests
  BY ElementOfSeq DEF Types
<1> QED
  BY <1>1, <1>2, <1>3 DEF Line, Chan, For, Requests, Responses

(* Nobody begins or ends a request between push and write.                   *)
LEMMA SamePending ==
  ASSUME \A t \in Callers : pc'[t] = "send" <=> pc[t] = "send",
         \A t \in Callers : pc[t] = "send" => call'[t] = call[t]
  PROVE  \A ch : PendingOn(ch)' <=> PendingOn(ch)
BY DEF PendingOn, QueueOf

(* The calls made so far do not change.                                      *)
LEMMA SameAsked ==
  ASSUME asked' = asked
  PROVE  (\A k : Asked(k)' <=> Asked(k)) /\ \A ch : Tracked(ch)' <=> Tracked(ch)
BY DEF Asked, Tracked

(* Every message keeps its entry when the line, the queues and what is       *)
(* pending stay as they are.                                                 *)
LEMMA QueuedFrame ==
  ASSUME Queued, Line' = Line,
         \A i \in Line : Chan(i)' = Chan(i) /\ For(i)' = For(i),
         queue' = queue, lost' = lost,
         \A ch : Tracked(ch)' => Tracked(ch),
         \A t \in Callers : pc'[t] = "send" <=> pc[t] = "send",
         \A t \in Callers : pc[t] = "send" => call'[t] = call[t]
  PROVE  Queued'
<1>1. PICK f \in [Line -> Nat] : Fits(f) /\ (~lost => Onto(f))
  BY DEF Queued
<1>2. \A ch : PendingOn(ch)' <=> PendingOn(ch)
  BY SamePending
<1>3. Fits(f)'
  BY <1>1, <1>2 DEF Fits
<1>4. lost' \/ Onto(f)'
  BY <1>1, <1>2 DEF Onto
<1>5. \A t \in Callers : pc'[t] = "send" =>
        LET q == queue'[QueueOf(call'[t].kind)]
        IN Len(q) > 0 /\ q[Len(q)] = call'[t].order
  BY DEF Queued, QueueOf
<1> QED
  BY <1>1, <1>3, <1>4, <1>5 DEF Queued, QueueOf

-----------------------------------------------------------------------------

(* Nothing asked yet, and nothing on its way.                                *)
LEMMA InitIInv == Init => IInv
<1> SUFFICES ASSUME Init PROVE IInv
  OBVIOUS
<1> USE CallersAssumption, OrdersAssumption DEF CallersAssumption, OrdersAssumption, Init
<1>1. Types
  BY EmptySeq DEF Types, NoCall, Kinds, States, Places, Callers
<1>2. Line = {}
  BY EmptySeq DEF Line
<1>3. Control /\ Popped
  BY DEF Control, Popped, Calling, Callers, Kinds
<1>4. Queued
  <2> DEFINE f == [i \in Line |-> 0]
  <2>1. Fits(f)
    BY <1>2 DEF Fits
  <2>2. Onto(f)
    BY EmptySeq DEF Onto, Channels
  <2>3. f \in [Line -> Nat]
    OBVIOUS
  <2> HIDE DEF f
  <2> QED
    BY <2>1, <2>2, <2>3 DEF Queued, Callers
<1>5. Once /\ Answers /\ First
  BY <1>2, EmptySeq DEF Once, Answers, First, Placing, Calling, Handled, Callers, Kinds
<1>6. ResponseMatched /\ PlacementTruthful /\ NoNullOrder
  BY DEF ResponseMatched, PlacementTruthful, NoNullOrder, Callers
<1> QED
  BY <1>1, <1>3, <1>4, <1>5, <1>6 DEF IInv

(* A call up to the lock.                                                    *)
LEMMA CallIInv ==
  ASSUME IInv, NEW t \in Callers, NEW kind \in Kinds, NEW o \in Orders, Call(t, kind, o)
  PROVE  IInv'
<1> USE CallersAssumption, OrdersAssumption DEF CallersAssumption, OrdersAssumption
<1>1. /\ pc[t] \in {"idle", "callback"} /\ (pc[t] = "callback" => t = Ws)
      /\ asked[o][kind] < Limit(kind) /\ (kind # "place" => id[o] # None)
      /\ asked' = [asked EXCEPT ![o][kind] = @ + 1]
      /\ call' = [call EXCEPT ![t] = [kind |-> kind, order |-> o]]
      /\ pc' = [pc EXCEPT ![t] = "lock"]
      /\ UNCHANGED <<lock, queue, state, id, handling, crashed, network>>
  BY DEF Call, MayCall
<1>2. Line' = Line /\ \A i : Chan(i)' = Chan(i) /\ For(i)' = For(i)
  BY <1>1, SameLine DEF network
<1>3. /\ asked'[o][kind] = asked[o][kind] + 1 /\ asked[o][kind] \in Nat
      /\ \A p \in Orders, k \in Kinds : p # o \/ k # kind => asked'[p][k] = asked[p][k]
      /\ asked' \in [Orders -> [Kinds -> Nat]]
  BY <1>1 DEF IInv, Types
<1>4. \A ch : Tracked(ch)' => Tracked(ch)
  BY <1>3 DEF Tracked, Asked, Kinds
<1>5. /\ pc'[t] = "lock" /\ call'[t] = [kind |-> kind, order |-> o]
      /\ \A u \in Callers \ {t} : pc'[u] = pc[u] /\ call'[u] = call[u]
  BY <1>1 DEF IInv, Types
<1>6. Types'
  BY <1>1, <1>3 DEF IInv, Types, Places, network
<1>7. Control'
  <2>1. \A u \in Callers : pc'[u] = "send" <=> lock' = u
    BY <1>1, <1>5 DEF IInv, Control
  <2>2. ASSUME NEW u \in Callers, Calling(u)'
        PROVE  call'[u].order \in Orders /\ asked'[call'[u].order][call'[u].kind] > 0
    <3>1. CASE u = t
      BY <1>3, <1>5, <3>1
    <3>2. CASE u # t
      <4>1. call[u].order \in Orders /\ asked[call[u].order][call[u].kind] > 0
        BY <1>5, <2>2, <3>2 DEF IInv, Control, Calling
      <4>2. call[u].kind \in Kinds
        BY DEF IInv, Types
      <4> QED
        BY <1>3, <1>5, <3>2, <4>1, <4>2
    <3> QED
      BY <3>1, <3>2
  <2>3. \A p \in Orders : asked'[p]["place"] <= 1
    BY <1>1, <1>3 DEF IInv, Types, Control, Limit, Kinds
  <2> QED
    BY <1>1, <1>5, <2>1, <2>2, <2>3 DEF IInv, Control, Callers
<1>8. Queued'
  BY <1>1, <1>2, <1>4, <1>5, QueuedFrame DEF IInv, network
<1>9. Popped'
  BY <1>1, <1>4, <1>5 DEF IInv, Popped, Tracked
<1>10. Once'
  BY <1>1, <1>2, <1>3, <1>5 DEF IInv, Once, Placing, Calling, Sent, Handled, Limit, Kinds
<1>11. Answers'
  BY <1>1, <1>3, <1>5 DEF IInv, Answers, Placing, Calling, Verdict, Limit, Kinds, network
<1>12. First'
  BY <1>1, <1>2, <1>3, <1>4, <1>5 DEF IInv, First, Calling, Limit, Kinds, Tracked, network
<1>13. ResponseMatched'
  BY <1>1, <1>4, <1>5 DEF IInv, ResponseMatched, Tracked, network
<1>14. PlacementTruthful' /\ NoNullOrder'
  BY <1>1, <1>4 DEF IInv, PlacementTruthful, NoNullOrder, Tracked, network
<1> QED
  BY <1>6, <1>7, <1>8, <1>9, <1>10, <1>11, <1>12, <1>13, <1>14 DEF IInv

(* Lock, push: the entry of a pending message is the last one.               *)
LEMMA EnqueueIInv ==
  ASSUME IInv, NEW t \in Callers, Enqueue(t)
  PROVE  IInv'
<1> USE CallersAssumption, OrdersAssumption DEF CallersAssumption, OrdersAssumption
<1> DEFINE mine == QueueOf(call[t].kind)
<1>1. /\ pc[t] = "lock" /\ lock = None /\ lock' = t
      /\ queue' = [queue EXCEPT ![mine] = Append(@, call[t].order)]
      /\ pc' = [pc EXCEPT ![t] = "send"]
      /\ UNCHANGED <<state, id, call, handling, asked, crashed, network>>
  BY DEF Enqueue
<1>2. Line' = Line /\ \A i : Chan(i)' = Chan(i) /\ For(i)' = For(i)
  BY <1>1, SameLine DEF network
<1>3. (\A k : Asked(k)' <=> Asked(k)) /\ \A ch : Tracked(ch)' <=> Tracked(ch)
  BY <1>1, SameAsked
<1>4. pc'[t] = "send" /\ \A u \in Callers \ {t} : pc'[u] = pc[u]
  BY <1>1 DEF IInv, Types
<1>5. mine \in Channels /\ call[t].order \in Orders
  BY <1>1 DEF IInv, Types, Control, Calling, Kinds, QueueOf, Channels
<1> HIDE DEF mine
<1>6. /\ queue[mine] \in Seq(Orders) /\ queue' \in [Channels -> Seq(Orders)]
      /\ Len(queue[mine]) \in Nat /\ Len(queue'[mine]) = Len(queue[mine]) + 1
      /\ queue'[mine][Len(queue[mine]) + 1] = call[t].order
      /\ \A p \in 1..Len(queue[mine]) : queue'[mine][p] = queue[mine][p]
      /\ \A ch \in Channels \ {mine} : queue'[ch] = queue[ch]
  BY <1>1, <1>5, AppendProperties, LenProperties DEF IInv, Types
<1>7. Types'
  BY <1>1, <1>6 DEF IInv, Types, Places, network
<1>8. Control'
  BY <1>1, <1>4 DEF IInv, Control, Calling, Callers
<1>9. \A ch : ~PendingOn(ch) /\ (PendingOn(ch)' <=> ch = mine)
  <2>1. \A u \in Callers : pc[u] # "send"
    BY <1>1 DEF IInv, Control, Callers
  <2> QED
    BY <1>1, <1>4, <2>1 DEF PendingOn, mine, QueueOf
<1>10. Queued'
  <2>1. PICK f \in [Line -> Nat] : Fits(f) /\ (~lost => Onto(f))
    BY DEF IInv, Queued
  <2>2. Fits(f)'
    <3> SUFFICES ASSUME NEW i \in Line, Tracked(Chan(i))
                 PROVE  /\ f[i] \in 1..Len(queue'[Chan(i)])
                        /\ queue'[Chan(i)][f[i]] = For(i)
                        /\ Chan(i) = mine => f[i] < Len(queue'[Chan(i)])
                        /\ \A j \in Line : i < j /\ Chan(j) = Chan(i) => f[i] < f[j]
      BY <1>2, <1>3, <1>9 DEF Fits
    <3>1. /\ f[i] \in 1..Len(queue[Chan(i)]) /\ queue[Chan(i)][f[i]] = For(i)
          /\ \A j \in Line : i < j /\ Chan(j) = Chan(i) => f[i] < f[j]
      BY <2>1 DEF Fits
    <3>2. Chan(i) \in Channels
      BY LineType DEF IInv, Channels
    <3>3. Len(queue[Chan(i)]) \in Nat
      BY <3>2, LenProperties DEF IInv, Types
    <3>4. CASE Chan(i) = mine
      BY <1>6, <3>1, <3>3, <3>4
    <3>5. CASE Chan(i) # mine
      BY <1>6, <3>1, <3>2, <3>5
    <3> QED
      BY <3>4, <3>5
  <2>3. ~lost => Onto(f)'
    <3> SUFFICES ASSUME ~lost, NEW ch \in {"order", "cancel"}, Tracked(ch),
                        NEW p \in 1..Len(queue'[ch])
                 PROVE  \/ \E i \in Line : Chan(i) = ch /\ f[i] = p
                        \/ PendingOn(ch)' /\ p = Len(queue'[ch])
      BY <1>2, <1>3 DEF Onto
    <3>1. \A q \in 1..Len(queue[ch]) : \E i \in Line : Chan(i) = ch /\ f[i] = q
      BY <1>9, <2>1 DEF Onto
    <3> QED
      BY <1>6, <1>9, <3>1 DEF Channels
  <2>4. \A u \in Callers : pc'[u] = "send" => u = t
    BY <1>1, <1>4 DEF IInv, Control, Callers
  <2>5. Len(queue'[mine]) > 0 /\ queue'[mine][Len(queue'[mine])] = call[t].order
    BY <1>6
  <2> QED
    BY <1>1, <1>2, <2>1, <2>2, <2>3, <2>4, <2>5 DEF Queued, QueueOf, network, mine
<1>11. Popped'
  BY <1>1, <1>3, <1>4 DEF IInv, Popped
<1>12. Once'
  BY <1>1, <1>2, <1>4 DEF IInv, Once, Placing, Calling, Sent, Handled
<1>13. Answers'
  BY <1>1, <1>4 DEF IInv, Answers, Placing, Calling, Verdict, network
<1>14. First'
  BY <1>1, <1>2, <1>3, <1>4 DEF IInv, First, Calling, network
<1>15. ResponseMatched' /\ PlacementTruthful' /\ NoNullOrder'
  BY <1>1, <1>3, <1>4 DEF IInv, ResponseMatched, PlacementTruthful, NoNullOrder, network
<1> QED
  BY <1>7, <1>8, <1>10, <1>11, <1>12, <1>13, <1>14, <1>15 DEF IInv

(* Write, unlock: the pending message joins the line with the last entry.    *)
LEMMA SendIInv ==
  ASSUME IInv, NEW t \in Callers, Send(t)
  PROVE  IInv'
<1> USE CallersAssumption, OrdersAssumption DEF CallersAssumption, OrdersAssumption
<1>1. /\ pc[t] = "send" /\ lock' = None
      /\ wire' = IF connected THEN Append(wire, Request(t)) ELSE wire
      /\ lost' = (lost \/ ~connected)
      /\ pc' = [pc EXCEPT ![t] = "idle"]
      /\ call' = [call EXCEPT ![t] = NoCall]
      /\ UNCHANGED <<queue, state, id, handling, asked, crashed, connected, sessions, resp, srv>>
  BY DEF Send
<1>2. (\A k : Asked(k)' <=> Asked(k)) /\ \A ch : Tracked(ch)' <=> Tracked(ch)
  BY <1>1, SameAsked
<1>3. /\ pc'[t] = "idle" /\ \A u \in Callers \ {t} : pc'[u] = pc[u] /\ call'[u] = call[u]
      /\ \A u \in Callers : pc'[u] # "send" /\ (u # t => pc[u] # "send")
  BY <1>1 DEF IInv, Types, Control
<1>4. call[t].kind \in Kinds /\ call[t].order \in Orders
  BY <1>1 DEF IInv, Types, Control, Calling
<1>5. /\ Request(t) \in Requests /\ Request(t).channel = ChannelOf(call[t].kind)
      /\ Request(t).for = call[t].order
      /\ call[t].kind = "place" => Request(t).order = call[t].order
  BY <1>4 DEF Request, Requests, ChannelOf, IInv, Types, Kinds
<1>6. Types'
  <2>1. wire' \in Seq(Requests)
    BY <1>1, <1>5, AppendProperties DEF IInv, Types
  <2>2. call' \in [Callers -> [kind : Kinds, order : Orders \union {None}]]
    BY <1>1 DEF IInv, Types, NoCall, Kinds
  <2>3. pc' \in [Callers -> Places]
    BY <1>1 DEF IInv, Types, Places
  <2>4. lost' \in BOOLEAN
    BY <1>1
  <2> QED
    BY <1>1, <2>1, <2>2, <2>3, <2>4 DEF IInv, Types
<1>7. Control'
  BY <1>1, <1>3 DEF IInv, Control, Calling, Callers
<1>8. CASE ~connected
  <2>1. lost' /\ Line' = Line /\ \A i : Chan(i)' = Chan(i) /\ For(i)' = For(i)
    BY <1>1, <1>8, SameLine
  <2>2. wire' = wire
    BY <1>1, <1>8
  <2>3. Queued'
    <3>1. PICK f \in [Line -> Nat] : Fits(f) /\ (~lost => Onto(f))
      BY DEF IInv, Queued
    <3>2. Fits(f)'
      BY <1>1, <1>2, <1>3, <2>1, <3>1 DEF Fits, PendingOn
    <3> QED
      BY <1>3, <2>1, <3>1, <3>2 DEF Queued
  <2>4. Popped' /\ First'
    BY <1>1, <1>2, <1>3, <2>1 DEF IInv, Popped, First
  <2>5. Once'
    BY <1>1, <1>3, <2>1 DEF IInv, Once, Placing, Calling, Sent, Handled
  <2>6. Answers'
    BY <1>1, <1>3, <2>2 DEF IInv, Answers, Placing, Calling, Verdict
  <2>7. ResponseMatched' /\ PlacementTruthful' /\ NoNullOrder'
    BY <1>1, <1>2, <2>1 DEF IInv, ResponseMatched, PlacementTruthful, NoNullOrder
  <2> QED
    BY <1>6, <1>7, <2>3, <2>4, <2>5, <2>6, <2>7 DEF IInv
<1>9. CASE connected
  <2> DEFINE mine == ChannelOf(call[t].kind)
  <2>1. wire' = Append(wire, Request(t)) /\ lost' = lost
    BY <1>1, <1>9 DEF IInv, Types
  <2>2. Len(resp) \in Nat /\ Len(wire) \in Nat
    BY LenProperties DEF IInv, Types
  <2>3. PICK n : n = Len(resp) + Len(wire) + 1
    OBVIOUS
  <2>4. /\ n \in Nat /\ Line' = Line \union {n} /\ \A i \in Line : i \in Int /\ i < n
        /\ \A i \in Line : Chan(i)' = Chan(i) /\ For(i)' = For(i)
        /\ Chan(n)' = mine /\ For(n)' = call[t].order
    BY <1>1, <1>5, <2>1, <2>3, LineSent DEF IInv
  <2>5. Tracked(mine) => QueueOf(call[t].kind) = mine
    <3>1. call[t].kind = "status" => Asked("status")
      BY <1>1, <1>4 DEF IInv, Control, Calling, Asked
    <3> QED
      BY <1>4, <3>1 DEF Tracked, QueueOf, ChannelOf, Kinds
  <2>6. mine \in {"order", "cancel"}
    BY <1>4 DEF ChannelOf, Kinds
  <2>7. Queued'
    <3>1. PICK f \in [Line -> Nat] : Fits(f) /\ (~lost => Onto(f))
      BY DEF IInv, Queued
    <3> DEFINE last == Len(queue[QueueOf(call[t].kind)])
    <3>2. last \in Nat /\ last > 0 /\ queue[QueueOf(call[t].kind)][last] = call[t].order
      <4>1. QueueOf(call[t].kind) \in Channels
        BY <1>4 DEF QueueOf, Channels, Kinds
      <4> QED
        BY <1>1, <4>1, LenProperties DEF IInv, Types, Queued
    <3>3. PendingOn(QueueOf(call[t].kind))
      BY <1>1 DEF PendingOn
    <3>4. \A ch : PendingOn(ch) => ch = QueueOf(call[t].kind)
      BY <1>3 DEF PendingOn
    <3>5. PICK g \in [Line' -> Nat] : g[n] = last /\ \A i \in Line : g[i] = f[i]
      <4>1. \A i \in Line : i # n
        BY <2>4
      <4>2. [i \in Line' |-> IF i = n THEN last ELSE f[i]] \in [Line' -> Nat]
        BY <2>4, <3>2
      <4> QED
        BY <2>4, <4>1, <4>2
    <3> HIDE DEF last
    <3>6. \A ch : ~PendingOn(ch)'
      BY <1>3 DEF PendingOn
    <3>7. Fits(g)'
      <4>1. ASSUME NEW i \in Line, Tracked(Chan(i))
            PROVE  /\ g[i] \in 1..Len(queue[Chan(i)]) /\ queue[Chan(i)][g[i]] = For(i)
                   /\ \A j \in Line' : i < j /\ Chan(j)' = Chan(i) => g[i] < g[j]
        <5>1. /\ f[i] \in 1..Len(queue[Chan(i)]) /\ queue[Chan(i)][f[i]] = For(i)
              /\ \A j \in Line : i < j /\ Chan(j) = Chan(i) => f[i] < f[j]
              /\ PendingOn(Chan(i)) => f[i] < Len(queue[Chan(i)])
          BY <3>1, <4>1 DEF Fits
        <5>2. Chan(n)' = Chan(i) => g[i] < g[n]
          BY <2>4, <2>5, <3>3, <3>5, <4>1, <5>1 DEF last
        <5> QED
          BY <2>4, <3>5, <5>1, <5>2
      <4>2. Tracked(mine) =>
              /\ g[n] \in 1..Len(queue[mine]) /\ queue[mine][g[n]] = call[t].order
              /\ \A j \in Line' : ~(n < j)
        BY <2>4, <2>5, <3>2, <3>5 DEF last
      <4> QED
        BY <1>1, <1>2, <2>4, <3>6, <4>1, <4>2 DEF Fits
    <3>8. ~lost => Onto(g)'
      <4> SUFFICES ASSUME ~lost, NEW ch \in {"order", "cancel"}, Tracked(ch),
                          NEW p \in 1..Len(queue[ch])
                   PROVE  \E i \in Line' : Chan(i)' = ch /\ g[i] = p
        BY <1>1, <1>2, <3>6 DEF Onto
      <4>1. CASE \E i \in Line : Chan(i) = ch /\ f[i] = p
        BY <2>4, <3>5, <4>1
      <4>2. CASE PendingOn(ch) /\ p = Len(queue[ch])
        <5>1. ch = QueueOf(call[t].kind) /\ p = last
          BY <3>4, <4>2 DEF last
        <5>2. ch = mine
          BY <1>4, <5>1 DEF QueueOf, ChannelOf, Kinds
        <5> QED
          BY <2>4, <3>5, <5>1, <5>2
      <4> QED
        BY <3>1, <4>1, <4>2 DEF Onto
    <3> QED
      BY <1>3, <2>1, <3>5, <3>7, <3>8 DEF Queued
  <2>8. Popped'
    BY <1>1, <1>2, <1>3 DEF IInv, Popped
  <2>9. Once'
    <3>1. \A o \in Orders : Sent(n, o)' => Placing(t, o)
      BY <1>1, <1>4, <2>4 DEF Sent, Placing, Calling, ChannelOf, Kinds
    <3>2. \A o \in Orders, u \in Callers : Placing(u, o)' <=> u # t /\ Placing(u, o)
      BY <1>3 DEF Placing, Calling
    <3>3. \A o \in Orders : \A i \in Line : Sent(i, o)' <=> Sent(i, o)
      BY <2>4 DEF Sent
    <3>4. \A o \in Orders : Handled(o)' <=> Handled(o)
      BY <1>1, <1>3 DEF Handled, IInv, Control
    <3> QED
      BY <1>1, <2>4, <3>1, <3>2, <3>3, <3>4 DEF IInv, Once
  <2>10. Answers'
    <3>1. /\ Len(wire') = Len(wire) + 1 /\ wire'[Len(wire) + 1] = Request(t)
          /\ \A i \in 1..Len(wire) : wire'[i] = wire[i]
      BY <1>5, <2>1, AppendProperties DEF IInv, Types
    <3>2. Request(t).channel = "order" =>
            Request(t).order = Request(t).for /\ srv[Request(t).for] = "none"
      BY <1>1, <1>4, <1>5 DEF IInv, Answers, Placing, Calling, ChannelOf, Kinds
    <3>3. \A u \in Callers, o \in Orders : Placing(u, o)' => Placing(u, o)
      BY <1>3 DEF Placing, Calling
    <3>4. pc'[Ws] = "handle" => pc[Ws] = "handle"
      BY <1>3 DEF Callers
    <3> QED
      BY <1>1, <2>2, <3>1, <3>2, <3>3, <3>4 DEF IInv, Answers, Verdict
  <2>11. First'
    <3>1. ~lost /\ ~Asked("status") => (state[call[t].order] = "None" <=> mine = "order")
      BY <1>1, <1>4 DEF IInv, First, Control, Calling, Asked, ChannelOf, Kinds
    <3> QED
      BY <1>1, <1>2, <1>3, <2>1, <2>4, <3>1 DEF IInv, First, Calling, Callers
  <2>12. ResponseMatched' /\ PlacementTruthful' /\ NoNullOrder'
    BY <1>1, <1>2, <1>3, <2>1 DEF IInv, ResponseMatched, PlacementTruthful, NoNullOrder, Callers
  <2> QED
    BY <1>6, <1>7, <2>7, <2>8, <2>9, <2>10, <2>11, <2>12 DEF IInv
<1> QED
  BY <1>8, <1>9

(* The service thread takes a response: with nothing lost the head of the    *)
(* queue is the entry of that very request.                                  *)
LEMMA ReceiveIInv ==
  ASSUME IInv, Receive
  PROVE  IInv'
<1> USE CallersAssumption, OrdersAssumption DEF CallersAssumption, OrdersAssumption
<1> DEFINE msg == Head(resp)
           q == queue[msg.channel]
<1>1. /\ pc[Ws] = "idle" /\ resp # <<>> /\ lock = None
      /\ handling' = [msg |-> msg, order |-> IF q = <<>> THEN None ELSE Head(q)]
      /\ queue' = [queue EXCEPT ![msg.channel] = IF q = <<>> THEN q ELSE Tail(q)]
      /\ resp' = Tail(resp)
      /\ pc' = [pc EXCEPT ![Ws] = "handle"]
      /\ UNCHANGED <<lock, state, id, call, asked, crashed, connected, sessions, wire, srv, lost>>
  BY DEF Receive
<1>2. msg \in Responses /\ resp' \in Seq(Responses)
  BY <1>1, HeadTailProperties DEF IInv, Types
<1> HIDE DEF msg
<1>3. msg.channel \in {"order", "cancel"} /\ msg.for \in Orders
  BY <1>2 DEF Responses
<1>4. q \in Seq(Orders) /\ Len(q) \in Nat
  BY <1>3, LenProperties DEF IInv, Types, Channels
<1>5. /\ 1 \in Line /\ Chan(1) = msg.channel /\ For(1) = msg.for
      /\ \A i \in Line' : i \in Nat /\ i >= 1 /\ i + 1 \in Line
                           /\ Chan(i)' = Chan(i + 1) /\ For(i)' = For(i + 1)
      /\ \A j \in Line : j \in Nat /\ (j = 1 \/ (j > 1 /\ j - 1 \in Line'))
  BY <1>1, LineReceived DEF IInv, msg
<1>6. (\A k : Asked(k)' <=> Asked(k)) /\ \A ch : Tracked(ch)' <=> Tracked(ch)
  BY <1>1, SameAsked
<1>7. /\ \A t \in Callers : ~Calling(t)' => pc'[t] \notin {"lock", "send"}
      /\ pc'[Ws] = "handle" /\ \A t \in Callers \ {Ws} : pc'[t] = pc[t]
      /\ \A t \in Callers : pc[t] # "send" /\ pc'[t] # "send"
  BY <1>1 DEF IInv, Types, Control, Calling, Callers
<1>8. \A ch : ~PendingOn(ch) /\ ~PendingOn(ch)'
  BY <1>7 DEF PendingOn
<1>9. PICK f \in [Line -> Nat] : Fits(f) /\ (~lost => Onto(f))
  BY DEF IInv, Queued
<1>10. Tracked(msg.channel) =>
         /\ f[1] \in 1..Len(q) /\ q[f[1]] = msg.for
         /\ \A j \in Line : j > 1 /\ Chan(j) = msg.channel => f[j] > f[1]
  BY <1>5, <1>9 DEF Fits
<1>a. ~lost /\ Tracked(msg.channel) => f[1] = 1
  <2> SUFFICES ASSUME ~lost, Tracked(msg.channel) PROVE f[1] = 1
    OBVIOUS
  <2>1. PICK i \in Line : Chan(i) = msg.channel /\ f[i] = 1
    BY <1>3, <1>4, <1>8, <1>9, <1>10 DEF Onto
  <2> QED
    BY <1>4, <1>5, <1>10, <2>1
<1>11. Tracked(msg.channel) => q # <<>> /\ (~lost => Head(q) = msg.for)
  BY <1>4, <1>10, <1>a, EmptySeq
<1>12. queue' \in [Channels -> Seq(Orders)] /\ handling'.order \in Orders \union {None}
  <2>1. (IF q = <<>> THEN q ELSE Tail(q)) \in Seq(Orders)
    BY <1>4, HeadTailProperties
  <2>2. (IF q = <<>> THEN None ELSE Head(q)) \in Orders \union {None}
    BY <1>4, HeadTailProperties
  <2> QED
    BY <1>1, <2>1, <2>2 DEF IInv, Types
<1>13. Types'
  <2>1. handling' \in [msg : Responses \union {None}, order : Orders \union {None}]
    BY <1>1, <1>2, <1>12
  <2>2. pc' \in [Callers -> Places]
    BY <1>1 DEF IInv, Types, Places
  <2> QED
    BY <1>1, <1>2, <1>12, <2>1, <2>2 DEF IInv, Types
<1>14. Control'
  BY <1>1, <1>2, <1>7 DEF IInv, Control, Calling, Callers
<1>15. Queued'
  <2>1. \A i \in Line' : Tracked(Chan(i + 1)) =>
          /\ f[i + 1] \in 1..Len(queue[Chan(i + 1)])
          /\ queue[Chan(i + 1)][f[i + 1]] = For(i + 1)
          /\ Chan(i + 1) = msg.channel => f[i + 1] > f[1] /\ f[1] >= 1
    BY <1>5, <1>9, <1>10 DEF Fits
  <2> DEFINE entry(i) == IF Tracked(Chan(i + 1))
                         THEN IF Chan(i + 1) = msg.channel THEN f[i + 1] - 1 ELSE f[i + 1]
                         ELSE 0
  <2>2. \A i \in Line' : entry(i) \in Nat
    BY <1>5, <2>1, LineType DEF IInv
  <2>3. PICK g \in [Line' -> Nat] : \A i \in Line' : g[i] = entry(i)
    <3>1. [i \in Line' |-> entry(i)] \in [Line' -> Nat]
      BY <2>2
    <3> QED
      BY <3>1
  <2>4. Tracked(msg.channel) =>
          /\ Len(queue'[msg.channel]) = Len(q) - 1
          /\ \A p \in 1..Len(q) - 1 : queue'[msg.channel][p] = q[p + 1]
    BY <1>1, <1>3, <1>4, <1>11, HeadTailProperties DEF IInv, Types, Channels
  <2>5. \A ch \in Channels \ {msg.channel} : queue'[ch] = queue[ch]
    BY <1>1 DEF IInv, Types
  <2>6. Fits(g)'
    <3> SUFFICES ASSUME NEW i \in Line', Tracked(Chan(i + 1))
                 PROVE  /\ g[i] \in 1..Len(queue'[Chan(i + 1)])
                        /\ queue'[Chan(i + 1)][g[i]] = For(i + 1)
                        /\ \A j \in Line' : i < j /\ Chan(j + 1) = Chan(i + 1) => g[i] < g[j]
      BY <1>5, <1>6, <1>8 DEF Fits
    <3>1. i + 1 \in Line /\ i \in Nat /\ i >= 1 /\ Chan(i + 1) \in {"order", "cancel"}
      BY <1>5, LineType DEF IInv
    <3>2. \A j \in Line' : i < j /\ Chan(j + 1) = Chan(i + 1) => f[i + 1] < f[j + 1]
      BY <1>5, <1>9, <3>1 DEF Fits
    <3>3. \A j \in Line : f[j] \in Nat
      OBVIOUS
    <3>4. CASE Chan(i + 1) = msg.channel
      <4>1. g[i] = f[i + 1] - 1 /\ g[i] \in 1..Len(q) - 1 /\ g[i] + 1 = f[i + 1]
        BY <1>4, <1>10, <2>1, <2>3, <3>1, <3>3, <3>4
      <4>2. queue'[Chan(i + 1)][g[i]] = For(i + 1)
        BY <2>1, <2>4, <3>4, <4>1
      <4>3. \A j \in Line' : i < j /\ Chan(j + 1) = Chan(i + 1) => g[i] < g[j]
        BY <1>5, <2>3, <3>1, <3>2, <3>3, <3>4
      <4> QED
        BY <2>4, <3>4, <4>1, <4>2, <4>3
    <3>5. CASE Chan(i + 1) # msg.channel
      BY <1>5, <2>1, <2>3, <2>5, <3>1, <3>2, <3>5 DEF Channels
    <3> QED
      BY <3>4, <3>5
  <2>7. ~lost => Onto(g)'
    <3> SUFFICES ASSUME ~lost, NEW ch \in {"order", "cancel"}, Tracked(ch),
                        NEW p \in 1..Len(queue'[ch])
                 PROVE  \E i \in Line' : Chan(i + 1) = ch /\ g[i] = p
      BY <1>5, <1>6 DEF Onto
    <3>1. CASE ch = msg.channel
      <4>1. p + 1 \in 1..Len(q) /\ p \in Nat /\ p >= 1
        BY <1>4, <2>4, <3>1
      <4>2. PICK j \in Line : Chan(j) = ch /\ f[j] = p + 1
        BY <1>8, <1>9, <3>1, <4>1 DEF Onto
      <4>4. j - 1 \in Line' /\ (j - 1) + 1 = j
        BY <1>5, <1>a, <3>1, <4>1, <4>2
      <4> QED
        BY <2>3, <3>1, <4>1, <4>2, <4>4
    <3>2. CASE ch # msg.channel
      <4>1. PICK j \in Line : Chan(j) = ch /\ f[j] = p
        BY <1>8, <1>9, <2>5, <3>2 DEF Onto, Channels
      <4>2. j - 1 \in Line' /\ (j - 1) + 1 = j
        BY <1>5, <3>2, <4>1
      <4> QED
        BY <2>3, <3>2, <4>1, <4>2
    <3> QED
      BY <3>1, <3>2
  <2> QED
    BY <1>1, <1>7, <2>3, <2>6, <2>7 DEF Queued
<1>16. Popped'
  BY <1>1, <1>4, <1>6, <1>11, HeadTailProperties DEF Popped, Tracked
<1>17. Once'
  <2>1. \A o \in Orders : Handled(o)' => Sent(1, o)
    BY <1>1, <1>5 DEF Handled, Sent
  <2>2. \A o \in Orders : \A i \in Line' : Sent(i, o)' <=> Sent(i + 1, o)
    BY <1>5 DEF Sent
  <2>3. \A t \in Callers, o \in Orders : Placing(t, o)' <=> Placing(t, o)
    BY <1>1, <1>7 DEF Placing, Calling
  <2>4. \A i, j \in Line' : i + 1 = j + 1 => i = j
    BY <1>5
  <2>5. \A i \in Line' : i + 1 # 1
    BY <1>5
  <2> QED
    BY <1>1, <1>5, <2>1, <2>2, <2>3, <2>4, <2>5 DEF IInv, Once
<1>18. Answers'
  <2>1. /\ Len(resp) \in Nat \ {0} /\ Len(resp') = Len(resp) - 1
        /\ \A i \in 1..Len(resp) - 1 : resp'[i] = resp[i + 1]
        /\ msg = resp[1]
    BY <1>1, HeadTailProperties, LenProperties, EmptySeq DEF IInv, Types, msg
  <2>2. \A t \in Callers, o \in Orders : Placing(t, o)' <=> Placing(t, o)
    BY <1>1, <1>7 DEF Placing, Calling
  <2>3. \A m : Verdict(m)' <=> Verdict(m)
    BY <1>1 DEF Verdict
  <2>4. \A i \in 1..Len(resp') : resp'[i].channel = "order" => Verdict(resp'[i])
    BY <2>1 DEF IInv, Answers
  <2>5. msg.channel = "order" => Verdict(msg)
    BY <2>1 DEF IInv, Answers
  <2> QED
    BY <1>1, <2>2, <2>3, <2>4, <2>5 DEF IInv, Answers, Verdict
<1>19. First'
  <2>1. \A t \in Callers : Calling(t)' => Calling(t)
    BY <1>7 DEF Calling
  <2> QED
    BY <1>1, <1>5, <1>6, <2>1 DEF IInv, First
<1>20. ResponseMatched' /\ PlacementTruthful' /\ NoNullOrder'
  BY <1>1, <1>3, <1>6, <1>11 DEF IInv, ResponseMatched, PlacementTruthful, NoNullOrder, Tracked
<1> QED
  BY <1>13, <1>14, <1>15, <1>16, <1>17, <1>18, <1>19, <1>20 DEF IInv

(* What a handler leaves alone, and what is known of the response it has.    *)
LEMMA HandlerFacts ==
  ASSUME IInv, pc[Ws] = "handle",
         UNCHANGED <<lock, queue, network>>, NEW where \in {"idle", "callback", "lock"},
         Done(where)
  PROVE  /\ Line' = Line /\ \A i : Chan(i)' = Chan(i) /\ For(i)' = For(i)
         /\ pc' = [pc EXCEPT ![Ws] = where]
         /\ pc'[Ws] = where /\ \A t \in Callers \ {Ws} : pc'[t] = pc[t]
         /\ \A t \in Callers : (pc'[t] = "send" <=> pc[t] = "send") /\ pc'[t] # "handle"
         /\ handling.msg \in Responses
         /\ \A o : ~Handled(o)'
         /\ handling' \in [msg : Responses \union {None}, order : Orders \union {None}]
         /\ pc' \in [Callers -> Places]
<1>1. Line' = Line /\ \A i : Chan(i)' = Chan(i) /\ For(i)' = For(i)
  BY SameLine DEF network
<1>2. /\ pc' = [pc EXCEPT ![Ws] = where] /\ pc \in [Callers -> Places]
      /\ handling' = [msg |-> None, order |-> None]
  BY DEF Done, IInv, Types
<1>3. pc'[Ws] = where /\ \A t \in Callers \ {Ws} : pc'[t] = pc[t]
  BY <1>2 DEF Callers
<1>4. \A t \in Callers : (pc'[t] = "send" <=> pc[t] = "send") /\ pc'[t] # "handle"
  BY <1>3 DEF IInv, Control, Callers
<1>5. handling.msg \in Responses
  BY DEF IInv, Control
<1>6. pc' \in [Callers -> Places]
  BY <1>2 DEF Places
<1> QED
  BY <1>1, <1>2, <1>3, <1>4, <1>5, <1>6 DEF Handled

(* A handler that changes an order's status: rejected, placed, filled,       *)
(* cancelled or unknown, of which the properties only see what the placement *)
(* is reported to be.                                                        *)
LEMMA UpdateIInv ==
  ASSUME IInv, pc[Ws] = "handle", handling.order # None,
         NEW newState \in States \ {"None"}, NEW newId \in Orders \union {None},
         NEW where \in {"idle", "callback"},
         UpdateOrderStatus(handling.order, newState, newId), Done(where),
         crashed' \in {"no", "overrun"},
         UNCHANGED <<lock, queue, call, asked, network>>,
         ~lost /\ handling.msg.channel = "order" => newId \in {None, handling.msg.order},
         handling.msg.channel = "cancel" => newId = None,
         newState = "Placed" => handling.msg.channel = "order" /\ handling.msg.result = "ok",
         newState = "Failed" => handling.msg.channel = "order" /\ handling.msg.result = "error",
         handling.msg.channel = "order" => newState \in {"Placed", "Failed"}
  PROVE  IInv'
<1> USE CallersAssumption, OrdersAssumption DEF CallersAssumption, OrdersAssumption
<1> DEFINE o == handling.order
<1>1. /\ Line' = Line /\ \A i : Chan(i)' = Chan(i) /\ For(i)' = For(i)
      /\ pc'[Ws] = where /\ \A t \in Callers \ {Ws} : pc'[t] = pc[t]
      /\ \A t \in Callers : (pc'[t] = "send" <=> pc[t] = "send") /\ pc'[t] # "handle"
      /\ handling.msg \in Responses
      /\ \A p : ~Handled(p)'
      /\ handling' \in [msg : Responses \union {None}, order : Orders \union {None}]
      /\ pc' \in [Callers -> Places]
  BY HandlerFacts
<1>2. (\A k : Asked(k)' <=> Asked(k)) /\ \A ch : Tracked(ch)' <=> Tracked(ch)
  BY SameAsked
<1>3. o \in Orders /\ handling.msg.for \in Orders /\ handling.msg.channel \in {"order", "cancel"}
  BY <1>1 DEF IInv, Types, Responses
<1>4. /\ state' = [state EXCEPT ![o] = newState] /\ id' = [id EXCEPT ![o] = newId]
      /\ state'[o] = newState /\ id'[o] = newId
      /\ \A p \in Orders \ {o} : state'[p] = state[p] /\ id'[p] = id[p]
  BY <1>3 DEF UpdateOrderStatus, IInv, Types
<1>5. \A t \in Callers : Calling(t)' <=> Calling(t) /\ t # Ws
  BY <1>1 DEF Calling, Callers
<1>6. \A t \in Callers, p \in Orders : Placing(t, p)' => Placing(t, p)
  BY <1>5 DEF Placing
<1>7. Types'
  BY <1>1, <1>4 DEF IInv, Types, network
<1>8. Control'
  BY <1>1, <1>5 DEF IInv, Control, Callers
<1>9. Queued'
  BY <1>1, <1>2, QueuedFrame DEF IInv, network
<1>10. Popped'
  BY <1>1 DEF Popped, Callers
<1>11. Once'
  BY <1>1, <1>6 DEF IInv, Once, Sent
<1>12. Answers'
  BY <1>1, <1>6 DEF IInv, Answers, Verdict, Callers, network
<1>13. ASSUME ~lost, handling.msg.channel = "order" \/ ~Asked("status")
       PROVE  o = handling.msg.for
  BY <1>13 DEF IInv, ResponseMatched
<1>14. PlacementTruthful'
  <2>1. ASSUME ~lost, handling.msg.channel = "order"
        PROVE  /\ newId \in {None, o}
               /\ newState = "Placed" => srv[o] \notin {"none", "rejected"}
               /\ newState = "Failed" => srv[o] = "rejected"
    BY <1>13, <2>1 DEF IInv, Answers, Verdict
  <2> QED
    BY <1>3, <1>4, <2>1 DEF IInv, PlacementTruthful, network
<1>15. First'
  <2> SUFFICES ASSUME ~lost, ~Asked("status")
               PROVE  First'
    BY <1>2 DEF First, network
  <2>1. o = handling.msg.for
    BY <1>13
  <2>2. state[o] = "None" <=> handling.msg.channel = "order"
    BY <2>1 DEF IInv, First
  <2>3. ASSUME handling.msg.channel = "order"
        PROVE  /\ asked[o]["place"] # 0 /\ (\A t \in Callers : ~Placing(t, o))
               /\ \A i \in Line : ~Sent(i, o)
    <3>1. Handled(o)
      BY <2>1, <2>3 DEF Handled
    <3> QED
      BY <1>3, <3>1 DEF IInv, Once
  <2>4. \A p \in Orders : asked[p]["place"] = 0 => state'[p] = "None"
    BY <1>4, <2>2, <2>3 DEF IInv, First
  <2>5. \A p \in Orders : id'[p] # None => state'[p] # "None"
    BY <1>4 DEF IInv, First
  <2>6. \A t \in Callers : Calling(t) =>
          (state'[call[t].order] = "None" <=> call[t].kind = "place")
    <3> SUFFICES ASSUME NEW t \in Callers, Calling(t)
                 PROVE  state'[call[t].order] = "None" <=> call[t].kind = "place"
      OBVIOUS
    <3>1. call[t].order \in Orders /\ (state[call[t].order] = "None" <=> call[t].kind = "place")
      BY DEF IInv, First, Control
    <3> QED
      BY <1>4, <2>2, <2>3, <3>1 DEF Placing
  <2>7. \A i \in Line : state'[For(i)] = "None" <=> Chan(i) = "order"
    <3> SUFFICES ASSUME NEW i \in Line
                 PROVE  state'[For(i)] = "None" <=> Chan(i) = "order"
      OBVIOUS
    <3>1. For(i) \in Orders /\ (state[For(i)] = "None" <=> Chan(i) = "order")
      BY LineType DEF IInv, First
    <3> QED
      BY <1>4, <2>2, <2>3, <3>1 DEF Sent
  <2> QED
    BY <1>1, <1>5, <2>4, <2>5, <2>6, <2>7 DEF First, Callers
<1>16. ResponseMatched' /\ NoNullOrder'
  BY <1>1 DEF ResponseMatched, NoNullOrder, Callers
<1> QED
  BY <1>7, <1>8, <1>9, <1>10, <1>11, <1>12, <1>14, <1>15, <1>16 DEF IInv

(* A handler that only returns, or begins a call of its own.                 *)
LEMMA ReturnIInv ==
  ASSUME IInv, pc[Ws] = "handle", Done("idle"), crashed' \in {"no", "overrun"},
         UNCHANGED <<lock, queue, state, id, call, asked, network>>
  PROVE  IInv'
<1>1. /\ Line' = Line /\ \A i : Chan(i)' = Chan(i) /\ For(i)' = For(i)
      /\ pc'[Ws] = "idle" /\ \A t \in Callers \ {Ws} : pc'[t] = pc[t]
      /\ \A t \in Callers : (pc'[t] = "send" <=> pc[t] = "send") /\ pc'[t] # "handle"
      /\ \A p : ~Handled(p)'
      /\ handling' \in [msg : Responses \union {None}, order : Orders \union {None}]
      /\ pc' \in [Callers -> Places]
  BY HandlerFacts
<1>2. (\A k : Asked(k)' <=> Asked(k)) /\ \A ch : Tracked(ch)' <=> Tracked(ch)
  BY SameAsked
<1>3. \A t \in Callers : Calling(t)' <=> Calling(t) /\ t # Ws
  BY <1>1 DEF Calling, Callers
<1>4. \A t \in Callers, p \in Orders : Placing(t, p)' => Placing(t, p)
  BY <1>3 DEF Placing
<1>5. Types' /\ Control'
  BY <1>1, <1>3 DEF IInv, Types, Control, Callers, network
<1>6. Queued' /\ Popped'
  BY <1>1, <1>2, QueuedFrame DEF IInv, Popped, Callers, network
<1>7. Once' /\ Answers'
  BY <1>1, <1>4 DEF IInv, Once, Sent, Answers, Verdict, Callers, network
<1>8. First'
  BY <1>1, <1>2, <1>3 DEF IInv, First, Callers, network
<1>9. ResponseMatched' /\ PlacementTruthful' /\ NoNullOrder'
  BY <1>1 DEF IInv, ResponseMatched, PlacementTruthful, NoNullOrder, Callers, network
<1> QED
  BY <1>5, <1>6, <1>7, <1>8, <1>9 DEF IInv

(* The handler of an IOC order's placement begins to cancel it.              *)
LEMMA IocIInv ==
  ASSUME IInv, crashed = "no", IocOrderPlaced
  PROVE  IInv'
<1> USE CallersAssumption, OrdersAssumption DEF CallersAssumption, OrdersAssumption
<1> DEFINE o == handling.order
<1>1. /\ pc[Ws] = "handle" /\ o # None
      /\ UNCHANGED <<lock, queue, state, id, crashed, network>>
  BY DEF IocOrderPlaced, Handling
<1>2. CASE id[o] = None
  <2>1. Done("idle") /\ UNCHANGED <<call, asked>>
    BY <1>2 DEF IocOrderPlaced
  <2> QED
    BY <1>1, <2>1, ReturnIInv
<1>3. CASE id[o] # None
  <2>1. /\ Done("lock")
        /\ call' = [call EXCEPT ![Ws] = [kind |-> "cancel", order |-> o]]
        /\ asked' = [asked EXCEPT ![o]["cancel"] = @ + 1]
    BY <1>3 DEF IocOrderPlaced
  <2>2. /\ Line' = Line /\ \A i : Chan(i)' = Chan(i) /\ For(i)' = For(i)
        /\ pc'[Ws] = "lock" /\ \A t \in Callers \ {Ws} : pc'[t] = pc[t]
        /\ \A t \in Callers : (pc'[t] = "send" <=> pc[t] = "send") /\ pc'[t] # "handle"
        /\ \A p : ~Handled(p)'
        /\ handling' \in [msg : Responses \union {None}, order : Orders \union {None}]
        /\ pc' \in [Callers -> Places]
    BY <1>1, <2>1, HandlerFacts
  <2>3. o \in Orders
    BY <1>1 DEF IInv, Types
  <2>4. /\ asked'[o]["cancel"] = asked[o]["cancel"] + 1 /\ asked[o]["cancel"] \in Nat
        /\ \A p \in Orders, k \in Kinds : p # o \/ k # "cancel" => asked'[p][k] = asked[p][k]
        /\ asked' \in [Orders -> [Kinds -> Nat]]
    BY <2>1, <2>3 DEF IInv, Types, Kinds
  <2>5. (Asked("status")' <=> Asked("status")) /\ \A ch : Tracked(ch)' <=> Tracked(ch)
    BY <2>4 DEF Asked, Tracked, Kinds
  <2>6. /\ call'[Ws] = [kind |-> "cancel", order |-> o]
        /\ \A t \in Callers \ {Ws} : call'[t] = call[t]
        /\ call' \in [Callers -> [kind : Kinds, order : Orders \union {None}]]
    BY <2>1, <2>3 DEF IInv, Types, Callers, Kinds
  <2>7. Types'
    BY <1>1, <2>2, <2>4, <2>6 DEF IInv, Types, network
  <2>8. Control'
    <3>1. ASSUME NEW t \in Callers, Calling(t)'
          PROVE  call'[t].order \in Orders /\ asked'[call'[t].order][call'[t].kind] > 0
      <4>1. CASE t = Ws
        BY <2>3, <2>4, <2>6, <4>1
      <4>2. CASE t # Ws
        <5>1. call[t].order \in Orders /\ asked[call[t].order][call[t].kind] > 0
          BY <2>2, <3>1, <4>2 DEF IInv, Control, Calling
        <5>2. call[t].kind \in Kinds
          BY DEF IInv, Types
        <5> QED
          BY <2>4, <2>6, <4>2, <5>1, <5>2
      <4> QED
        BY <4>1, <4>2
    <3>2. \A p \in Orders : asked'[p]["place"] <= 1
      BY <2>4 DEF IInv, Control, Kinds
    <3> QED
      BY <1>1, <2>2, <3>1, <3>2 DEF IInv, Control, Callers
  <2>9. Queued'
    <3>1. \A t \in Callers : pc[t] = "send" => call'[t] = call[t]
      BY <1>1, <2>6
    <3> QED
      BY <1>1, <2>2, <2>5, <3>1, QueuedFrame DEF IInv, network
  <2>10. Popped'
    BY <2>2 DEF Popped, Callers
  <2>11. \A t \in Callers, p \in Orders : Placing(t, p)' => Placing(t, p)
    BY <2>2, <2>6 DEF Placing, Calling, Callers
  <2>12. Once' /\ Answers'
    <3>1. \A p \in Orders : asked'[p]["place"] = asked[p]["place"]
      BY <2>4 DEF Kinds
    <3>2. Once'
      BY <1>1, <2>2, <2>11, <3>1 DEF IInv, Once, Sent
    <3>3. Answers'
      BY <1>1, <2>2, <2>11, <3>1 DEF IInv, Answers, Verdict, Callers, network
    <3> QED
      BY <3>2, <3>3
  <2>13. First'
    <3> SUFFICES ASSUME ~lost, ~Asked("status")
                 PROVE  First'
      BY <1>1, <2>5 DEF First, network
    <3>1. state[o] # "None"
      BY <1>3, <2>3 DEF IInv, First
    <3>2. \A p \in Orders : asked'[p]["place"] = asked[p]["place"]
      BY <2>4 DEF Kinds
    <3> QED
      BY <1>1, <2>2, <2>6, <3>1, <3>2 DEF IInv, First, Calling, Callers
  <2>14. ResponseMatched' /\ PlacementTruthful' /\ NoNullOrder'
    BY <1>1, <2>2 DEF IInv, ResponseMatched, PlacementTruthful, NoNullOrder, Callers, network
  <2> QED
    BY <2>7, <2>8, <2>9, <2>10, <2>12, <2>13, <2>14 DEF IInv
<1> QED
  BY <1>2, <1>3

(* Every handler.                                                            *)
LEMMA HandleIInv ==
  ASSUME IInv, crashed = "no", Handle
  PROVE  IInv'
<1> USE CallersAssumption, OrdersAssumption DEF CallersAssumption, OrdersAssumption
<1>1. CASE NullOrder
  <2>1. Line' = Line /\ \A i : Chan(i)' = Chan(i) /\ For(i)' = For(i)
    BY <1>1, SameLine DEF NullOrder, network
  <2>2. (\A k : Asked(k)' <=> Asked(k)) /\ \A ch : Tracked(ch)' <=> Tracked(ch)
    BY <1>1, SameAsked DEF NullOrder
  <2>3. Types' /\ Control' /\ Popped'
    BY <1>1, <2>2 DEF NullOrder, IInv, Types, Control, Calling, Popped, network
  <2>4. Queued'
    BY <1>1, <2>1, <2>2, QueuedFrame DEF NullOrder, IInv, network
  <2>5. Once' /\ Answers'
    BY <1>1, <2>1 DEF NullOrder, IInv, Once, Placing, Calling, Sent, Handled, Answers,
                      Verdict, network
  <2>6. First'
    BY <1>1, <2>1, <2>2 DEF NullOrder, IInv, First, Calling, network
  <2>7. ResponseMatched' /\ PlacementTruthful'
    BY <1>1, <2>2 DEF NullOrder, IInv, ResponseMatched, PlacementTruthful, network
  <2>8. NoNullOrder'
    BY <1>1, <2>2 DEF NullOrder, IInv, Popped, NoNullOrder
  <2> QED
    BY <2>3, <2>4, <2>5, <2>6, <2>7, <2>8 DEF IInv
<1>2. CASE OrderRejected
  BY <1>2, UpdateIInv DEF OrderRejected, Handling, States
<1>3. CASE OrderPlaced
  <2>1. handling.msg.order \in Orders \union {None}
    BY <1>3 DEF OrderPlaced, Handling, IInv, Control, Responses
  <2> QED
    BY <1>3, <2>1, UpdateIInv DEF OrderPlaced, Handling, States
<1>4. CASE IocOrderPlaced
  BY <1>4, IocIInv
<1>5. CASE CancelOfDone
  BY <1>5, UpdateIInv, ReturnIInv DEF CancelOfDone, Handling, States
<1>6. CASE CancelFailed
  BY <1>6, UpdateIInv DEF CancelFailed, Handling, States
<1>7. CASE OrderCancelled
  BY <1>7, UpdateIInv, ReturnIInv DEF OrderCancelled, ReadPastEnd, Handling, States
<1> QED
  BY <1>1, <1>2, <1>3, <1>4, <1>5, <1>6, <1>7 DEF Handle

(* The observer returns.                                                     *)
LEMMA ReturnFromCallbackIInv ==
  ASSUME IInv, ReturnFromCallback
  PROVE  IInv'
<1> USE CallersAssumption, OrdersAssumption DEF CallersAssumption, OrdersAssumption
<1>1. /\ pc[Ws] = "callback" /\ pc' = [pc EXCEPT ![Ws] = "idle"]
      /\ UNCHANGED <<lock, queue, state, id, call, handling, asked, crashed, network>>
  BY DEF ReturnFromCallback
<1>2. Line' = Line /\ \A i : Chan(i)' = Chan(i) /\ For(i)' = For(i)
  BY <1>1, SameLine DEF network
<1>3. (\A k : Asked(k)' <=> Asked(k)) /\ \A ch : Tracked(ch)' <=> Tracked(ch)
  BY <1>1, SameAsked
<1>4. /\ pc'[Ws] = "idle" /\ \A t \in Callers \ {Ws} : pc'[t] = pc[t]
      /\ \A t \in Callers : (pc'[t] = "send" <=> pc[t] = "send") /\ (Calling(t)' <=> Calling(t))
      /\ pc' \in [Callers -> Places]
  BY <1>1 DEF IInv, Types, Callers, Calling, Places
<1>5. Types' /\ Control' /\ Popped'
  BY <1>1, <1>4 DEF IInv, Types, Control, Callers, Popped, network
<1>6. Queued'
  BY <1>1, <1>2, <1>3, <1>4, QueuedFrame DEF IInv, network
<1>7. Once' /\ Answers'
  BY <1>1, <1>2, <1>4 DEF IInv, Once, Placing, Sent, Handled, Answers, Verdict, network
<1>8. First'
  BY <1>1, <1>2, <1>3, <1>4 DEF IInv, First, network
<1>9. ResponseMatched' /\ PlacementTruthful' /\ NoNullOrder'
  BY <1>1, <1>3, <1>4 DEF IInv, ResponseMatched, PlacementTruthful, NoNullOrder, network
<1> QED
  BY <1>5, <1>6, <1>7, <1>8, <1>9 DEF IInv

-----------------------------------------------------------------------------

(* A connection that is made or breaks: what is lost with the line leaves    *)
(* its entries in the queues.                                                *)
LEMMA ConnectionIInv ==
  ASSUME IInv, Start \/ Close
  PROVE  IInv'
<1>1. UNCHANGED client /\ srv' = srv
  BY DEF Start, Close
<1>2. (\A k : Asked(k)' <=> Asked(k)) /\ \A ch : Tracked(ch)' <=> Tracked(ch)
  BY <1>1, SameAsked DEF client
<1>3. \/ wire' = wire /\ resp' = resp /\ lost' = lost
      \/ wire' = <<>> /\ resp' = <<>> /\ lost' \in BOOLEAN /\ (~lost' => ~lost /\ wire = <<>> /\ resp = <<>>)
  BY DEF Start, Close, IInv, Types
<1>4. \A t \in Callers : Calling(t)' <=> Calling(t)
  BY <1>1 DEF Calling, client
<1>5. Types' /\ Control' /\ Popped'
  <2>1. wire' \in Seq(Requests) /\ resp' \in Seq(Responses)
    <3>1. <<>> \in Seq(Requests) /\ <<>> \in Seq(Responses)
      BY EmptySeq
    <3>2. wire \in Seq(Requests) /\ resp \in Seq(Responses)
      BY DEF IInv, Types
    <3> HIDE DEF Requests, Responses
    <3> QED
      BY <1>3, <3>1, <3>2
  <2>2. sessions' \in Nat
    BY DEF Start, Close, IInv, Types
  <2>3. connected' \in BOOLEAN /\ lost' \in BOOLEAN
    BY <1>3, Zenon DEF Start, Close, IInv, Types
  <2> QED
    BY <1>1, <1>2, <1>4, <2>1, <2>2, <2>3 DEF IInv, Types, Control, Popped, client
<1>6. NoNullOrder'
  BY <1>1, <1>2 DEF IInv, NoNullOrder, client
<1>7. ResponseMatched' /\ PlacementTruthful'
  BY <1>1, <1>2, <1>3 DEF IInv, ResponseMatched, PlacementTruthful, client
<1>8. CASE wire' = wire /\ resp' = resp /\ lost' = lost
  <2>1. Line' = Line /\ \A i : Chan(i)' = Chan(i) /\ For(i)' = For(i)
    BY <1>8, SameLine
  <2>2. Queued'
    BY <1>1, <1>2, <1>8, <2>1, QueuedFrame DEF IInv, client
  <2>3. Once' /\ Answers'
    BY <1>1, <1>4, <1>8, <2>1
    DEF IInv, Once, Placing, Sent, Handled, Answers, Verdict, client
  <2>4. First'
    BY <1>1, <1>2, <1>4, <1>8, <2>1 DEF IInv, First, client
  <2> QED
    BY <1>5, <1>6, <1>7, <2>2, <2>3, <2>4 DEF IInv
<1>9. CASE /\ wire' = <<>> /\ resp' = <<>> /\ lost' \in BOOLEAN
           /\ ~lost' => ~lost /\ wire = <<>> /\ resp = <<>>
  <2>1. Line' = {}
    BY <1>9, EmptySeq DEF Line
  <2>2. Queued'
    <3>1. CASE lost'
      <4>1. PICK f : f \in [Line' -> Nat]
        <5>1. [i \in Line' |-> 0] \in [Line' -> Nat]
          OBVIOUS
        <5> QED
          BY <5>1
      <4>2. Fits(f)'
        BY <2>1 DEF Fits
      <4> QED
        BY <1>1, <3>1, <4>1, <4>2 DEF IInv, Queued, client
    <3>2. CASE ~lost'
      <4>1. wire' = wire /\ resp' = resp /\ lost' = lost
        BY <1>9, <3>2 DEF IInv, Types
      <4>2. Line' = Line /\ \A i : Chan(i)' = Chan(i) /\ For(i)' = For(i)
        BY <4>1, SameLine
      <4> QED
        BY <1>1, <1>2, <4>1, <4>2, QueuedFrame DEF IInv, client
    <3> QED
      BY <3>1, <3>2
  <2>3. Once'
    BY <1>1, <1>4, <2>1 DEF IInv, Once, Placing, Handled, client
  <2>4. Answers'
    BY <1>1, <1>4, <1>9, EmptySeq DEF IInv, Answers, Verdict, Placing, client
  <2>5. First'
    BY <1>1, <1>2, <1>4, <1>9, <2>1 DEF IInv, First, client
  <2> QED
    BY <1>5, <1>6, <1>7, <2>2, <2>3, <2>4, <2>5 DEF IInv
<1> QED
  BY <1>3, <1>8, <1>9

(* The exchange answers: each request to place an order is decided once.     *)
LEMMA ExchangeIInv ==
  ASSUME IInv, ExchangePlaces \/ ExchangeCancels
  PROVE  IInv'
<1> USE CallersAssumption, OrdersAssumption DEF CallersAssumption, OrdersAssumption
<1> DEFINE req == Head(wire)
<1>1. /\ wire # <<>> /\ wire' = Tail(wire)
      /\ UNCHANGED <<client, connected, sessions, lost>>
      /\ \E result \in {"ok", "error", "done"} :
           resp' = Append(resp, [channel |-> req.channel, result |-> result,
                                 order |-> req.order, for |-> req.for])
  BY DEF ExchangePlaces, ExchangeCancels, Answer
<1>2. PICK m : /\ m.channel = req.channel /\ m.order = req.order /\ m.for = req.for
               /\ m.result \in {"ok", "error", "done"}
               /\ m = [channel |-> req.channel, result |-> m.result,
                       order |-> req.order, for |-> req.for]
               /\ resp' = Append(resp, m)
               /\ req.channel = "order" =>
                    \/ m.result = "ok" /\ srv' = [srv EXCEPT ![req.order] = "open"]
                    \/ m.result = "error" /\ srv' = [srv EXCEPT ![req.order] = "rejected"]
  <2>1. req.channel = "order" => ExchangePlaces
    BY DEF ExchangeCancels
  <2>2. ASSUME NEW result \in {"ok", "error", "done"}, Answer(result),
               req.channel = "order" =>
                 \/ result = "ok" /\ srv' = [srv EXCEPT ![req.order] = "open"]
                 \/ result = "error" /\ srv' = [srv EXCEPT ![req.order] = "rejected"]
        PROVE  \E m : /\ m.channel = req.channel /\ m.order = req.order /\ m.for = req.for
                      /\ m.result \in {"ok", "error", "done"}
                      /\ m = [channel |-> req.channel, result |-> m.result,
                              order |-> req.order, for |-> req.for]
                      /\ resp' = Append(resp, m)
                      /\ req.channel = "order" =>
                           \/ m.result = "ok" /\ srv' = [srv EXCEPT ![req.order] = "open"]
                           \/ m.result = "error" /\ srv' = [srv EXCEPT ![req.order] = "rejected"]
    <3> DEFINE m == [channel |-> req.channel, result |-> result,
                     order |-> req.order, for |-> req.for]
    <3>1. /\ m.channel = req.channel /\ m.order = req.order /\ m.for = req.for
          /\ m.result = result
      OBVIOUS
    <3>2. resp' = Append(resp, m)
      BY <2>2 DEF Answer
    <3> QED
      BY <2>2, <3>1, <3>2
  <2> QED
    BY <2>1, <2>2 DEF ExchangePlaces, ExchangeCancels
<1>3. req \in Requests /\ wire' \in Seq(Requests)
  BY <1>1, HeadTailProperties DEF IInv, Types
<1> HIDE DEF req
<1>4. m \in Responses /\ req.for \in Orders /\ req.channel \in {"order", "cancel"}
  BY <1>2, <1>3 DEF Requests, Responses
<1>5. resp' \in Seq(Responses)
  BY <1>2, <1>4, AppendProperties DEF IInv, Types
<1>6. Line' = Line /\ \A i \in Line : Chan(i)' = Chan(i) /\ For(i)' = For(i)
  BY <1>1, <1>2, <1>4, LineAnswered DEF IInv, req
<1>7. /\ Len(resp) \in Nat /\ Len(wire) \in Nat \ {0}
      /\ Len(wire') = Len(wire) - 1 /\ req = wire[1]
      /\ \A i \in 1..Len(wire) - 1 : wire'[i] = wire[i + 1]
      /\ Len(resp') = Len(resp) + 1 /\ resp'[Len(resp) + 1] = m
      /\ \A i \in 1..Len(resp) : resp'[i] = resp[i]
  BY <1>1, <1>2, <1>4, HeadTailProperties, AppendProperties, LenProperties, EmptySeq
  DEF IInv, Types, req
<1>8. req.channel = "order" => req.order = req.for /\ srv[req.for] = "none"
  BY <1>7 DEF IInv, Answers
<1>9. /\ srv' \in [Orders -> {"none", "open", "rejected", "filled", "cancelled"}]
      /\ \A o \in Orders : srv'[o] # srv[o] =>
           \/ req.channel = "order" /\ o = req.for
           \/ srv[o] = "open" /\ srv'[o] = "cancelled"
  <2>1. CASE req.channel = "order"
    BY <1>2, <1>4, <1>8, <2>1 DEF IInv, Types
  <2>2. CASE req.channel = "cancel"
    <3>1. ExchangeCancels /\ req.order \in Orders \union {None}
      BY <1>3, <2>2 DEF ExchangePlaces, Requests, req
    <3>2. \/ srv' = srv
          \/ /\ req.order \in Orders /\ srv[req.order] = "open"
             /\ srv' = [srv EXCEPT ![req.order] = "cancelled"]
      BY <3>1 DEF ExchangeCancels, req
    <3>3. srv \in [Orders -> {"none", "open", "rejected", "filled", "cancelled"}]
      BY DEF IInv, Types
    <3>4. CASE srv' = srv
      BY <3>3, <3>4
    <3>5. CASE /\ req.order \in Orders /\ srv[req.order] = "open"
               /\ srv' = [srv EXCEPT ![req.order] = "cancelled"]
      BY <3>3, <3>5
    <3> QED
      BY <3>2, <3>4, <3>5
  <2> QED
    BY <1>4, <2>1, <2>2
<1>10. (\A k : Asked(k)' <=> Asked(k)) /\ \A ch : Tracked(ch)' <=> Tracked(ch)
  BY <1>1, SameAsked DEF client
<1>11. \A t \in Callers : Calling(t)' <=> Calling(t)
  BY <1>1 DEF Calling, client
<1>12. \A t \in Callers, o \in Orders : Placing(t, o)' <=> Placing(t, o)
  BY <1>1, <1>11 DEF Placing, client
<1>13. Types' /\ Control' /\ Popped'
  BY <1>1, <1>3, <1>5, <1>9, <1>10, <1>11 DEF IInv, Types, Control, Popped, client
<1>14. Queued'
  BY <1>1, <1>6, <1>10, QueuedFrame DEF IInv, client
<1>15. Once'
  BY <1>1, <1>6, <1>12 DEF IInv, Once, Sent, Handled, client
<1>16. req.channel = "order" => Sent(Len(resp) + 1, req.for) /\ Len(resp) + 1 \in Line
  BY <1>7 DEF Sent, Chan, For, Line
<1>17. \A o \in Orders : req.channel = "order" /\ o = req.for =>
         /\ asked[o]["place"] # 0 /\ ~Handled(o) /\ \A t \in Callers : ~Placing(t, o)
         /\ \A i \in Line : Sent(i, o) => i = Len(resp) + 1
  BY <1>16 DEF IInv, Once
<1>18. Answers'
  <2>1. \A o \in Orders : asked'[o]["place"] = 0 => srv'[o] = "none"
    BY <1>1, <1>9, <1>17 DEF IInv, Answers, client
  <2>2. \A t \in Callers, o \in Orders : Placing(t, o)' => srv'[o] = "none"
    BY <1>9, <1>12, <1>17 DEF IInv, Answers
  <2>3. ASSUME NEW i \in 1..Len(wire'), wire'[i].channel = "order"
        PROVE  wire'[i].order = wire'[i].for /\ srv'[wire'[i].for] = "none"
    <3>1. /\ i + 1 \in 1..Len(wire) /\ wire'[i] = wire[i + 1]
          /\ Len(resp) + (i + 1) \in Line /\ Len(resp) + (i + 1) # Len(resp) + 1
      BY <1>7 DEF Line
    <3>2. /\ wire[i + 1].order = wire[i + 1].for /\ srv[wire[i + 1].for] = "none"
      BY <2>3, <3>1 DEF IInv, Answers
    <3>3. Sent(Len(resp) + (i + 1), wire[i + 1].for)
      BY <1>7, <2>3, <3>1 DEF Sent, Chan, For
    <3>4. wire[i + 1] \in Requests
      BY <3>1, ElementOfSeq DEF IInv, Types
    <3> QED
      BY <1>9, <1>17, <3>1, <3>2, <3>3, <3>4 DEF Requests
  <2>4. ASSUME NEW i \in 1..Len(resp'), resp'[i].channel = "order"
        PROVE  /\ resp'[i].order = resp'[i].for
               /\ \/ resp'[i].result = "ok" /\ srv'[resp'[i].for] \notin {"none", "rejected"}
                  \/ resp'[i].result = "error" /\ srv'[resp'[i].for] = "rejected"
    <3>1. CASE i = Len(resp) + 1
      <4>1. req.channel = "order" /\ resp'[i] = m
        BY <1>2, <1>7, <2>4, <3>1
      <4>2. \/ m.result = "ok" /\ srv'[m.for] = "open"
            \/ m.result = "error" /\ srv'[m.for] = "rejected"
        BY <1>2, <1>4, <1>8, <4>1 DEF IInv, Types
      <4>3. m.order = m.for
        BY <1>2, <1>8, <4>1
      <4> QED
        BY <4>1, <4>2, <4>3
    <3>2. CASE i # Len(resp) + 1
      <4>1. i \in 1..Len(resp) /\ resp'[i] = resp[i] /\ i \in Line
        BY <1>7, <3>2 DEF Line
      <4>2. Verdict(resp[i])
        BY <2>4, <4>1 DEF IInv, Answers
      <4>3. resp[i] \in Responses
        BY <4>1, ElementOfSeq DEF IInv, Types
      <4>4. Sent(i, resp[i].for)
        BY <2>4, <4>1 DEF Sent, Chan, For
      <4>5. srv'[resp[i].for] = srv[resp[i].for]
              \/ (srv[resp[i].for] = "open" /\ srv'[resp[i].for] = "cancelled")
        BY <1>9, <1>17, <3>2, <4>1, <4>3, <4>4 DEF Responses
      <4> QED
        BY <4>1, <4>2, <4>5 DEF Verdict
    <3> QED
      BY <3>1, <3>2
  <2>5. ASSUME pc'[Ws] = "handle", handling'.msg.channel = "order"
        PROVE  LET r == handling'.msg IN
               /\ r.order = r.for
               /\ \/ r.result = "ok" /\ srv'[r.for] \notin {"none", "rejected"}
                  \/ r.result = "error" /\ srv'[r.for] = "rejected"
    <3>1. /\ handling' = handling /\ pc[Ws] = "handle"
          /\ Verdict(handling.msg) /\ handling.msg.for \in Orders
          /\ Handled(handling.msg.for)
      BY <1>1, <2>5 DEF client, IInv, Answers, Control, Responses, Handled
    <3>2. srv'[handling.msg.for] = srv[handling.msg.for]
            \/ (srv[handling.msg.for] = "open" /\ srv'[handling.msg.for] = "cancelled")
      BY <1>9, <1>17, <3>1
    <3> QED
      BY <3>1, <3>2 DEF Verdict
  <2> QED
    BY <2>1, <2>2, <2>3, <2>4, <2>5 DEF Answers, Verdict
<1>19. First'
  BY <1>1, <1>6, <1>10, <1>11 DEF IInv, First, client
<1>20. ResponseMatched' /\ NoNullOrder'
  BY <1>1, <1>10 DEF IInv, ResponseMatched, NoNullOrder, client
<1>21. PlacementTruthful'
  BY <1>1, <1>8, <1>9 DEF IInv, PlacementTruthful, client
<1> QED
  BY <1>13, <1>14, <1>15, <1>18, <1>19, <1>20, <1>21 DEF IInv

(* The exchange fills an order that is open.                                 *)
LEMMA FillsIInv ==
  ASSUME IInv, NEW o \in Orders, ExchangeFills(o)
  PROVE  IInv'
<1>1. /\ srv[o] = "open" /\ srv' = [srv EXCEPT ![o] = "filled"]
      /\ UNCHANGED <<client, connected, sessions, wire, resp, lost>>
  BY DEF ExchangeFills
<1>2. /\ srv' \in [Orders -> {"none", "open", "rejected", "filled", "cancelled"}]
      /\ \A p \in Orders : srv'[p] = srv[p] \/ (srv[p] = "open" /\ srv'[p] = "filled")
  BY <1>1 DEF IInv, Types
<1>3. Line' = Line /\ \A i : Chan(i)' = Chan(i) /\ For(i)' = For(i)
  BY <1>1, SameLine
<1>4. (\A k : Asked(k)' <=> Asked(k)) /\ \A ch : Tracked(ch)' <=> Tracked(ch)
  BY <1>1, SameAsked DEF client
<1>5. \A t \in Callers : Calling(t)' <=> Calling(t)
  BY <1>1 DEF Calling, client
<1>6. Types' /\ Control' /\ Popped'
  BY <1>1, <1>2, <1>4, <1>5 DEF IInv, Types, Control, Popped, client
<1>7. Queued'
  BY <1>1, <1>3, <1>4, QueuedFrame DEF IInv, client
<1>8. Once' /\ First'
  BY <1>1, <1>3, <1>4, <1>5 DEF IInv, Once, Placing, Sent, Handled, First, client
<1>9. Answers'
  <2>1. \A p \in Orders : srv[p] = "none" => srv'[p] = "none"
    BY <1>2
  <2>2. \A t \in Callers, p \in Orders : Placing(t, p)' <=> Placing(t, p)
    BY <1>1, <1>5 DEF Placing, client
  <2>3. \A i \in 1..Len(wire) : wire[i].for \in Orders
    <3>1. \A i \in 1..Len(wire) : wire[i] \in Requests
      BY ElementOfSeq DEF IInv, Types
    <3> QED
      BY <3>1 DEF Requests
  <2>4. \A i \in 1..Len(resp) : resp[i].for \in Orders
    <3>1. \A i \in 1..Len(resp) : resp[i] \in Responses
      BY ElementOfSeq DEF IInv, Types
    <3> QED
      BY <3>1 DEF Responses
  <2>5. pc[Ws] = "handle" => handling.msg.for \in Orders
    BY DEF IInv, Control, Responses
  <2> QED
    BY <1>1, <1>2, <2>1, <2>2, <2>3, <2>4, <2>5 DEF IInv, Answers, Verdict, client
<1>10. ResponseMatched' /\ PlacementTruthful' /\ NoNullOrder'
  BY <1>1, <1>2, <1>4 DEF IInv, ResponseMatched, PlacementTruthful, NoNullOrder, client
<1> QED
  BY <1>6, <1>7, <1>8, <1>9, <1>10 DEF IInv

(* No step of a thread, of the service thread, of the connection or of the   *)
(* exchange breaks it.                                                       *)
LEMMA NextIInv == IInv /\ [Next]_vars => IInv'
<1> SUFFICES ASSUME IInv, [Next]_vars PROVE IInv'
  OBVIOUS
<1>1. CASE UNCHANGED vars
  <2>1. Line' = Line /\ \A i : Chan(i)' = Chan(i) /\ For(i)' = For(i)
    BY <1>1, SameLine DEF vars
  <2>2. (\A k : Asked(k)' <=> Asked(k)) /\ \A ch : Tracked(ch)' <=> Tracked(ch)
    BY <1>1, SameAsked DEF vars
  <2>3. Types' /\ Control' /\ Popped'
    BY <1>1, <2>2 DEF vars, IInv, Types, Control, Calling, Popped
  <2>4. Queued'
    BY <1>1, <2>1, <2>2, QueuedFrame DEF vars, IInv
  <2>5. Once' /\ Answers'
    BY <1>1, <2>1 DEF vars, IInv, Once, Placing, Calling, Sent, Handled, Answers, Verdict
  <2>6. First'
    BY <1>1, <2>1, <2>2 DEF vars, IInv, First, Calling
  <2>7. ResponseMatched' /\ PlacementTruthful' /\ NoNullOrder'
    BY <1>1, <2>2 DEF vars, IInv, ResponseMatched, PlacementTruthful, NoNullOrder
  <2> QED
    BY <2>3, <2>4, <2>5, <2>6, <2>7 DEF IInv
<1> QED
  BY <1>1, CallIInv, EnqueueIInv, SendIInv, ReturnFromCallbackIInv, ReceiveIInv, HandleIInv,
     ConnectionIInv, ExchangeIInv, FillsIInv
  DEF Next

(* Until something is lost, whatever the threads do between push and write,  *)
(* a response is handled with the order its request was about.               *)
THEOREM ResponseIsMatched == Spec => []ResponseMatched
<1>1. IInv => ResponseMatched
  BY DEF IInv
<1> QED
  BY InitIInv, NextIInv, <1>1, PTL DEF Spec

(* Until something is lost, what is reported of an order's placement is what *)
(* the exchange decided.                                                     *)
THEOREM PlacementIsTruthful == Spec => []PlacementTruthful
<1>1. IInv => PlacementTruthful
  BY DEF IInv
<1> QED
  BY InitIInv, NextIInv, <1>1, PTL DEF Spec

(* Lost requests and reconnections included, no response but the answer to a *)
(* status request finds its queue empty.                                     *)
THEOREM NullOrderOnlyByStatus == Spec => []NoNullOrder
<1>1. IInv => NoNullOrder
  BY DEF IInv
<1> QED
  BY InitIInv, NextIInv, <1>1, PTL DEF Spec

(* What a step may report of an order that has not been reported placed or   *)
(* failed yet.                                                               *)
LEMMA PlacementFirstStep ==
  ASSUME IInv, Next, ~lost, ~Asked("status"), NEW o \in Orders
  PROVE  /\ state'[o] \in {"Placed", "Failed"} /\ state[o] # state'[o] => state[o] = "None"
         /\ state[o] = "None" => state'[o] \in {"None", "Placed", "Failed"}
<1>1. CASE state' = state
  BY <1>1
<1>2. CASE state' # state
  <2>1. /\ pc[Ws] = "handle" /\ handling.order \in Orders
        /\ \/ /\ handling.msg.channel = "order"
              /\ \E s \in {"Placed", "Failed"} : state' = [state EXCEPT ![handling.order] = s]
           \/ /\ handling.msg.channel = "cancel"
              /\ \E s \in {"Filled", "Unknown", "Cancelled"} :
                   state' = [state EXCEPT ![handling.order] = s]
    <3>1. Handle
      BY <1>2 DEF Next, Call, Enqueue, Send, ReturnFromCallback, Receive, Start, Close,
                  ExchangePlaces, ExchangeCancels, ExchangeFills, Answer, client
    <3>2. pc[Ws] = "handle" /\ handling.order \in Orders
      BY <1>2, <3>1 DEF Handle, NullOrder, OrderRejected, OrderPlaced, IocOrderPlaced,
           CancelOfDone, CancelFailed, OrderCancelled, Handling, IInv, Types
    <3> QED
      BY <1>2, <3>1, <3>2 DEF Handle, NullOrder, OrderRejected, OrderPlaced, IocOrderPlaced,
           CancelOfDone, CancelFailed, OrderCancelled, Handling, UpdateOrderStatus
  <2>2. handling.order = handling.msg.for
    BY <2>1 DEF IInv, ResponseMatched
  <2>3. state[handling.order] = "None" <=> handling.msg.channel = "order"
    BY <2>1, <2>2 DEF IInv, First
  <2> QED
    BY <2>1, <2>3 DEF IInv, Types
<1> QED
  BY <1>1, <1>2

(* With nothing lost and no status requests, an order is reported placed or  *)
(* failed at most once, and before anything else is reported of it.          *)
THEOREM PlacementIsReportedFirst == Spec => PlacementReportedFirst
<1> DEFINE A == ~lost /\ ~Asked("status") =>
                  \A o \in Orders :
                    /\ state'[o] \in {"Placed", "Failed"} /\ state[o] # state'[o]
                         => state[o] = "None"
                    /\ state[o] = "None" => state'[o] \in {"None", "Placed", "Failed"}
<1>1. IInv /\ [Next]_vars => [A]_vars
  BY PlacementFirstStep
<1>2. PlacementReportedFirst <=> [][A]_vars
  BY DEF PlacementReportedFirst
<1> HIDE DEF A
<1> QED
  BY InitIInv, NextIInv, <1>1, <1>2, PTL DEF Spec
=============================================================================
