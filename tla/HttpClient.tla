------------------------------ MODULE HttpClient ------------------------------
(***************************************************************************)
(* HttpClient (platform/http.cpp) and who uses it: the price adapter through   *)
(* the REST connector (exchange/example/connector_rest_price.cpp), the trade   *)
(* adapter for its limits, and a program for requests of its own.  A request   *)
(* is created and sent by its owner; the client's thread adds its handle to    *)
(* curl, reports the outcome to the handler of the request, and deletes the    *)
(* request.                                                                *)
(*                                                                         *)
(* Each request has one curl handle, named like it.  private says whether the  *)
(* handle still points to the request (CURLINFO_PRIVATE).                      *)
(***************************************************************************)
EXTENDS Integers, Sequences, FiniteSets, SequencesExt

CONSTANTS Requests,  \* request objects
          Kinds      \* what requests are made for

\* Requests of the REST connector, which have a ResponseHandler of their own.
RestKinds == {"depth", "ticker", "trades", "kline"}

ASSUME RequestsAssumption == IsFiniteSet(Requests)
ASSUME KindsAssumption == Kinds \subseteq RestKinds \union {"limits", "own"}

VARIABLES
  life,           \* where each request is
  handle,         \* m_handle of each request is set
  private,        \* the handle of each request points to it
  bound,          \* m_boundRequests
  kind,           \* what each request is for
  handler,        \* the ResponseHandler of each: "held" until it deletes itself
  context,        \* the RequestedInterval of each: "held" until it is deleted
  addHandles,     \* m_addHandles
  removeHandles,  \* m_removeHandles
  changed,        \* m_changed
  running,        \* m_running
  pc,             \* where the client's thread is
  current,        \* the request whose completion it is reporting
  transfer,       \* external: the state of each handle in curl
  outcome,        \* external: how its transfer ended
  answers,        \* the calls each handler got
  thrown,         \* requests whose handler threw
  dropped,        \* history: requests deleted by their owner after send
  fault           \* undefined behaviour, or a thread waiting for itself

lists == <<addHandles, removeHandles, changed>>
requests == <<life, handle, private, bound>>
uses == <<kind, handler, context>>
curl == <<transfer, outcome>>
history == <<answers, thrown, dropped>>
vars == <<requests, uses, lists, running, pc, current, curl, history, fault>>

\* A status of 200, whose body may be cut short; another status, or none; the time
\* limit passed.
Outcomes == {"200", "cut", "error", "timeout"}

Init ==
  /\ life = [r \in Requests |-> "unborn"]
  /\ handle = [r \in Requests |-> FALSE]
  /\ private = [r \in Requests |-> FALSE]
  /\ bound = {}
  /\ kind = [r \in Requests |-> "none"]
  /\ handler = [r \in Requests |-> "none"]
  /\ context = [r \in Requests |-> "none"]
  /\ addHandles = <<>> /\ removeHandles = <<>> /\ changed = FALSE
  /\ running = TRUE /\ pc = "top" /\ current = {}
  /\ transfer = [r \in Requests |-> "none"]
  /\ outcome = [r \in Requests |-> "none"]
  /\ answers = [r \in Requests |-> <<>>]
  /\ thrown = {} /\ dropped = {}
  /\ fault = "none"

-----------------------------------------------------------------------------
\* The owner of a request.

\* getDepth, getTicker, getTrades, getKline: each has a handler of its own kind.
HandlerOf(k) == IF k \in RestKinds THEN "held" ELSE "none"

\* fetchCandleSticks keeps the interval it asked for beside the request.
ContextOf(k) == IF k = "kline" THEN "held" ELSE "none"

\* An adapter's fetchStack, fetchCandleSticks and fetchLimits create a request and
\* send it, and keep no pointer to it.
FromAdapter(r) == kind[r] \in RestKinds \union {"limits"}

\* createRequest: the request is made and m_boundRequests.insert begins, which takes
\* no lock.
CreateRequest(r, k) ==
  /\ running /\ life[r] = "unborn"
  /\ life' = [life EXCEPT ![r] = "creating"]
  /\ kind' = [kind EXCEPT ![r] = k]
  /\ context' = [context EXCEPT ![r] = ContextOf(k)]
  /\ UNCHANGED <<handle, private, bound, handler, lists, running, pc, current, curl,
                 history, fault>>

\* It returns, and the request gets its handler; a program sets one too.
EndCreate(r) ==
  /\ life[r] = "creating"
  /\ life' = [life EXCEPT ![r] = "created"]
  /\ bound' = bound \union {r}
  /\ handler' = [handler EXCEPT ![r] = HandlerOf(kind[r])]
  /\ UNCHANGED <<handle, private, kind, context, lists, running, pc, current, curl,
                 history, fault>>

\* Two threads are inside m_boundRequests at once: undefined behaviour.
BoundSetRace ==
  /\ Cardinality({r \in Requests : life[r] = "creating"}) > 1
  /\ fault' = "set race"
  /\ UNCHANGED <<requests, uses, lists, running, pc, current, curl, history>>

\* send, add: without the lock, the handle is made;
Send(r) ==
  /\ running /\ life[r] = "created"
  /\ life' = [life EXCEPT ![r] = "sending"]
  /\ handle' = [handle EXCEPT ![r] = TRUE]
  /\ private' = [private EXCEPT ![r] = TRUE]
  /\ UNCHANGED <<bound, uses, lists, running, pc, current, curl, history, fault>>

\* Mutant: the new handle is not announced.
MutNotAnnounced(r) ==
  /\ life[r] = "sending"
  /\ life' = [life EXCEPT ![r] = "sent"]
  /\ addHandles' = Append(addHandles, r)
  /\ UNCHANGED <<handle, private, bound, uses, removeHandles, changed, running, pc,
                 current, curl, history, fault>>

\* with it, it is queued.
Add(r) ==
  /\ life[r] = "sending"
  /\ life' = [life EXCEPT ![r] = "sent"]
  /\ addHandles' = Append(addHandles, r)
  /\ changed' = TRUE
  /\ UNCHANGED <<handle, private, bound, uses, removeHandles, running, pc, current,
                 curl, history, fault>>

\* The critical section of remove.
RemoveHandle(r) ==
  /\ removeHandles' = Append(removeHandles, r)
  /\ changed' = TRUE
  /\ UNCHANGED addHandles

\* Mutant: the handle goes on pointing to the deleted request.
MutKeepPrivate(r) ==
  /\ running /\ ~FromAdapter(r) /\ life[r] \in {"created", "sent"}
  /\ life' = [life EXCEPT ![r] = "deleted"]
  /\ IF handle[r]
     THEN RemoveHandle(r) /\ dropped' = dropped \union {r}
     ELSE UNCHANGED <<lists, dropped>>
  /\ UNCHANGED <<handle, private, bound, uses, running, pc, current, curl, answers, thrown, fault>>

\* ~HttpRequest by the owner.  A request that was sent has a handle.
Delete(r) ==
  /\ running /\ ~FromAdapter(r) /\ life[r] \in {"created", "sent"}
  /\ life' = [life EXCEPT ![r] = "deleted"]
  /\ IF handle[r]
     THEN /\ private' = [private EXCEPT ![r] = FALSE]
          /\ RemoveHandle(r)
          /\ dropped' = dropped \union {r}
     ELSE UNCHANGED <<private, lists, dropped>>
  /\ UNCHANGED <<handle, bound, uses, running, pc, current, curl, answers, thrown, fault>>

-----------------------------------------------------------------------------
\* The client's thread: run().

\* Mutant: m_handle of a finished request is left set when it is deleted, so that
\* its destructor calls remove under the lock that is held.
MutKeepHandle(gone) ==
  /\ UNCHANGED handle
  /\ fault' = IF gone # {} THEN "deadlock" ELSE "none"

\* req->m_handle = NULL; delete req.
DeleteFinished(gone) ==
  /\ handle' = [r \in Requests |-> handle[r] /\ r \notin gone]
  /\ UNCHANGED fault

\* The critical section: handles are added to curl, then removed and cleaned up,
\* and the requests they point to are deleted.
ApplyChanges ==
  /\ pc = "top" /\ running /\ changed
  /\ LET removed == ToSet(removeHandles)
         gone == {r \in removed : private[r]}
     IN IF (\E r \in removed : transfer[r] = "cleaned") \/ ~IsInjective(removeHandles)
        THEN fault' = "cleaned twice" /\ UNCHANGED <<life, handle, transfer>>
        ELSE /\ life' = [r \in Requests |-> IF r \in gone THEN "deleted" ELSE life[r]]
             /\ DeleteFinished(gone)
             /\ transfer' = [r \in Requests |->
                               IF r \in removed THEN "cleaned"
                               ELSE IF r \in ToSet(addHandles) THEN "busy"
                               ELSE transfer[r]]
  /\ addHandles' = <<>> /\ removeHandles' = <<>> /\ changed' = FALSE
  /\ pc' = "perform"
  /\ UNCHANGED <<private, bound, uses, running, current, outcome, history>>

NoChanges ==
  /\ pc = "top" /\ running /\ ~changed
  /\ pc' = "perform"
  /\ UNCHANGED <<requests, uses, lists, running, current, curl, history, fault>>

\* curl_multi_perform: some transfers end, each within its time limits.  Data
\* goes straight to the request object.
Perform ==
  /\ pc = "perform"
  /\ \E ended \in SUBSET {r \in Requests : transfer[r] = "busy"} :
     \E how \in [ended -> Outcomes] :
       /\ outcome' = [r \in Requests |-> IF r \in ended THEN how[r] ELSE outcome[r]]
       /\ transfer' = [r \in Requests |-> IF r \in ended THEN "done" ELSE transfer[r]]
       /\ fault' = IF ended \intersect dropped # {} THEN "freed request" ELSE fault
  /\ pc' = "read"
  /\ UNCHANGED <<requests, uses, lists, running, current, history>>

\* Mutant: what curl reports is not marked as read.
MutReadAgain(r) ==
  /\ pc = "read" /\ current = {} /\ transfer[r] = "done"
  /\ current' = IF private[r] THEN {r} ELSE {}
  /\ UNCHANGED <<requests, uses, lists, running, pc, curl, history, fault>>

\* curl_multi_info_read finds a transfer that is done.
ReadInfo(r) ==
  /\ pc = "read" /\ current = {} /\ transfer[r] = "done"
  /\ transfer' = [transfer EXCEPT ![r] = "read"]
  /\ current' = IF private[r] THEN {r} ELSE {}
  /\ UNCHANGED <<requests, uses, lists, running, pc, outcome, history, fault>>

Response(k) ==
  CASE k = "depth"  -> "onDepthResponse"  [] k = "ticker" -> "onTickerResponse"
    [] k = "trades" -> "onTradesResponse" [] k = "kline"  -> "onKlineResponse"

\* ResponseHandler: which callback it makes.  m_timedOut of the response is set
\* when the transfer timed out and not initialised otherwise.  Another handler is
\* only told that the request is over.
Calls(k, o) ==
  IF k \notin RestKinds THEN {"onReadyState"}
  ELSE CASE o = "timeout" -> {"onTimeout"}
         [] o \in {"200", "cut"} -> {Response(k), "onTimeout"}
         [] o = "error"   -> {"onHTTPError", "onTimeout"}

\* The price adapter ignores two answers; it parses the others, and passes errors
\* on to its observer.
MayThrow(c) == c \notin {"onTickerResponse", "onTradesResponse"}

\* onKlineResponse, before it parses anything; no error deletes it.
DeletesContext(c) == c = "onKlineResponse"

\* TradeAdapter::onReadyState looks neither at the status nor at the time-out, and
\* takes five columns from each line but the first of whatever was received.
Misread(r) == kind[r] = "limits" /\ outcome[r] # "200"

\* onReadyState, in which the callback may throw; the exception is swallowed and
\* the request and its handler forgotten.  A ResponseHandler ends with delete this.
Report(r) ==
  /\ current = {r} /\ pc = "read"
  /\ fault' \in IF life[r] = "deleted" \/ handler[r] = "deleted" THEN {"freed request"}
                ELSE IF Misread(r) THEN {fault, "columns"} ELSE {fault}
  /\ \E c \in Calls(kind[r], outcome[r]) :
       /\ answers' = [answers EXCEPT ![r] = Append(@, c)]
       /\ context' = [context EXCEPT ![r] = IF DeletesContext(c) THEN "deleted" ELSE @]
       /\ \/ /\ pc' = "finish"
             /\ handler' = [handler EXCEPT ![r] = IF @ = "held" THEN "deleted" ELSE @]
             /\ UNCHANGED <<thrown, current>>
          \/ /\ MayThrow(c)
             /\ pc' = "read" /\ thrown' = thrown \union {r} /\ current' = {}
             /\ UNCHANGED handler
  /\ UNCHANGED <<requests, kind, lists, running, curl, dropped>>

\* Mutant: the finished request is queued for removal without m_changed.
MutNoRemove(r) ==
  /\ current = {r} /\ pc = "finish"
  /\ fault' = IF life[r] = "deleted" THEN "freed request" ELSE fault
  /\ removeHandles' = Append(removeHandles, r)
  /\ pc' = "read" /\ current' = {}
  /\ UNCHANGED <<requests, uses, addHandles, changed, running, curl, history>>

\* remove(req)
Finish(r) ==
  /\ current = {r} /\ pc = "finish"
  /\ fault' = IF life[r] = "deleted" THEN "freed request" ELSE fault
  /\ RemoveHandle(r)
  /\ pc' = "read" /\ current' = {}
  /\ UNCHANGED <<requests, uses, running, curl, history>>

EndRead ==
  /\ pc = "read" /\ current = {} /\ \A r \in Requests : transfer[r] # "done"
  /\ pc' = "top"
  /\ UNCHANGED <<requests, uses, lists, running, current, curl, history, fault>>

-----------------------------------------------------------------------------
\* ~HttpClient, while nobody is making a request: m_boundRequests is never told
\* of a deletion (detach has no caller), and each of its requests is written to.
Stop ==
  /\ running
  /\ \A r \in Requests :
       life[r] \notin {"creating", "sending"} /\ ~(FromAdapter(r) /\ life[r] = "created")
  /\ running' = FALSE
  /\ fault' = IF \E r \in bound : life[r] = "deleted" THEN "unbound" ELSE fault
  /\ UNCHANGED <<requests, uses, lists, pc, current, curl, history>>

Run ==
  \/ ApplyChanges \/ NoChanges \/ Perform \/ EndRead
  \/ \E r \in Requests : ReadInfo(r) \/ Report(r) \/ Finish(r)

Next ==
  /\ fault = "none"
  /\ \/ \E r \in Requests :
          \/ (\E k \in Kinds : CreateRequest(r, k)) \/ EndCreate(r)
          \/ Send(r) \/ Add(r) \/ Delete(r)
     \/ BoundSetRace
     \/ Run
     \/ Stop

Spec == Init /\ [][Next]_vars

Alive(A) == fault = "none" /\ A

\* The thread runs, calls go on, adapters call it, and curl ends every
\* transfer: both time limits are set on each handle.
FairSpec ==
  /\ Spec
  /\ WF_vars(Alive(Run))
  /\ \A r \in Requests :
       /\ WF_vars(Alive(EndCreate(r))) /\ WF_vars(Alive(Add(r)))
       /\ WF_vars(Alive(FromAdapter(r) /\ Send(r)))
       /\ SF_vars(Alive(Perform /\ transfer[r] = "busy" /\ transfer'[r] = "done"))

-----------------------------------------------------------------------------

\* A handler is called at most once; with the answer to what was asked only for a
\* status of 200, with onHTTPError only for another one, and a time-out is reported
\* as one.  The interval of a request is deleted by its answer, and never before.
AnsweredOnce ==
  \A r \in Requests :
    /\ Len(answers[r]) <= 1
    /\ kind[r] \in RestKinds /\ answers[r] # <<>> =>
         /\ outcome[r] = "timeout" => answers[r] = <<"onTimeout">>
         /\ \/ answers[r] = <<"onTimeout">>
            \/ answers[r] = <<"onHTTPError">> /\ outcome[r] = "error"
            \/ answers[r] = <<Response(kind[r])>> /\ outcome[r] \in {"200", "cut"}
    /\ context[r] = "deleted" <=> answers[r] = <<"onKlineResponse">>

\* The client touches a freed request or handle, or waits for itself, only when
\* the owner has deleted a request after sending it, or the client is destroyed
\* after a request was deleted; columns are missing only in what is not the table
\* of limits; the set of requests is broken only by two threads that make one.
FaultsExplained ==
  \/ fault = "none"
  \/ fault \in {"freed request", "cleaned twice"} /\ dropped # {}
  \/ fault = "unbound" /\ ~running
  \/ fault = "columns" /\ \E r \in Requests : Misread(r)
  \/ fault = "set race" /\ Cardinality({r \in Requests : life[r] = "creating"}) > 1

\* Where a request is for those who use it.  The client clears m_handle before it
\* deletes; the owner does not.
Stage(r) ==
  CASE life[r] = "unborn" -> "none"
    [] life[r] \in {"creating", "created", "sending"} -> "asked"
    [] life[r] = "sent" -> IF answers[r] = <<>> THEN "waiting" ELSE "answered"
    [] life[r] = "deleted" -> IF handle[r] THEN "withdrawn" ELSE "deleted"

\* The client deletes a request only after it has called its handler, and never
\* one that its owner has deleted; nor is a deleted request answered, but by a step
\* that uses freed memory.
Desk == INSTANCE RequestDesk WITH
  stage <- [r \in Requests |-> Stage(r)],
  kept <- {r \in Requests : kind[r] = "own"}
ImplementsDesk == Desk!Spec

Over == fault # "none" \/ ~running

\* A request that was sent is answered, if only by a time-out; so is every request
\* of an adapter.
SentIsAnswered ==
  \A r \in Requests :
    life[r] = "sent" \/ (FromAdapter(r) /\ life[r] \in {"creating", "created"})
      ~> answers[r] # <<>> \/ r \in dropped \/ Over

\* A request that was answered is deleted, and its handler with it, unless the
\* handler threw.
AnsweredIsDeleted ==
  \A r \in Requests :
    answers[r] # <<>>
      ~> (life[r] = "deleted" /\ handler[r] # "held") \/ r \in thrown \/ Over
===============================================================================
