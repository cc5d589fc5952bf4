--------------------------- MODULE HttpClientProofs ---------------------------
(***************************************************************************)
(* The requests of HttpClient, for any number of requests of any kinds: a    *)
(* handler is called once and with what fits its request, what leads to the  *)
(* use of a freed request, and that the client implements RequestDesk.       *)
(***************************************************************************)
EXTENDS HttpClient, SequenceTheorems, TLAPS

Callbacks == {"onReadyState", "onTimeout", "onHTTPError", "onDepthResponse",
              "onTickerResponse", "onTradesResponse", "onKlineResponse"}

Types ==
  /\ life \in [Requests -> {"unborn", "creating", "created", "sending", "sent", "deleted"}]
  /\ handle \in [Requests -> BOOLEAN] /\ private \in [Requests -> BOOLEAN]
  /\ kind \in [Requests -> Kinds \union {"none"}]
  /\ handler \in [Requests -> {"none", "held", "deleted"}]
  /\ context \in [Requests -> {"none", "held", "deleted"}]
  /\ addHandles \in Seq(Requests) /\ removeHandles \in Seq(Requests)
  /\ current \subseteq Requests
  /\ transfer \in [Requests -> {"none", "busy", "done", "read", "cleaned"}]
  /\ outcome \in [Requests -> Outcomes \union {"none"}]
  /\ answers \in [Requests -> {<<>>} \union {<<c>> : c \in Callbacks}]

\* A request has a kind once it is made, a handle once it is sent, and reaches curl
\* or the lists only then; it is queued before its transfer begins.
Sending ==
  \A r \in Requests :
    /\ life[r] # "unborn" => kind[r] \in Kinds
    /\ life[r] \in {"sending", "sent"} => handle[r]
    /\ transfer[r] # "none" \/ r \in ToSet(addHandles) \union ToSet(removeHandles)
         => life[r] \in {"sent", "deleted"}
    /\ r \in ToSet(addHandles) => transfer[r] = "none"

\* A transfer has ended when curl says so, and the one that is reported is not the
\* one of an answered request.
Reporting ==
  /\ \A r \in Requests :
       /\ transfer[r] \in {"done", "read"} => outcome[r] \in Outcomes
       /\ answers[r] # <<>> =>
            /\ transfer[r] \in {"read", "cleaned"} /\ outcome[r] \in Outcomes
            /\ life[r] # "unborn"
       /\ handler[r] = "deleted" => answers[r] # <<>>
  /\ current # {} =>
       \E r \in Requests :
         /\ current = {r} /\ transfer[r] = "read" /\ pc \in {"read", "finish"}
         /\ pc = "read" => answers[r] = <<>>

\* As long as no owner deletes what it has sent, a finished request is removed once,
\* and nothing of it is used afterwards.
Undropped ==
  dropped = {} =>
    /\ IsInjective(removeHandles)
    /\ \A r \in ToSet(removeHandles) : transfer[r] = "read" /\ r \notin current
    /\ \A r \in Requests :
         transfer[r] \in {"busy", "done", "read"} \/ r \in ToSet(addHandles)
           => life[r] = "sent"

IInv == Types /\ Sending /\ Reporting /\ Undropped /\ AnsweredOnce /\ FaultsExplained

-----------------------------------------------------------------------------

(* What is in a list that has grown.                                         *)
LEMMA AppendSet ==
  ASSUME NEW S, NEW s \in Seq(S), NEW e \in S
  PROVE  /\ ToSet(Append(s, e)) = ToSet(s) \union {e}
         /\ IsInjective(s) /\ e \notin ToSet(s) => IsInjective(Append(s, e))
<1>1. /\ Len(s) \in Nat /\ DOMAIN s = 1..Len(s)
      /\ Append(s, e) \in Seq(S) /\ Len(Append(s, e)) = Len(s) + 1
      /\ \A i \in 1..Len(s) : Append(s, e)[i] = s[i]
      /\ Append(s, e)[Len(s) + 1] = e
  BY LenProperties, AppendProperties
<1>2. DOMAIN Append(s, e) = 1..Len(s) + 1
  BY <1>1, LenProperties
<1>3. 1..Len(s) + 1 = 1..Len(s) \union {Len(s) + 1}
  BY <1>1
<1>4. ToSet(Append(s, e)) = ToSet(s) \union {e}
  BY <1>1, <1>2, <1>3 DEF ToSet
<1>5. ASSUME IsInjective(s), e \notin ToSet(s) PROVE IsInjective(Append(s, e))
  BY <1>1, <1>2, <1>3, <1>5 DEF ToSet, IsInjective
<1> QED
  BY <1>4, <1>5

(* What is in the empty list.                                                *)
LEMMA EmptySet == ToSet(<<>>) = {} /\ IsInjective(<<>>)
BY DEF ToSet, IsInjective

(* The lists hold requests.                                                  *)
LEMMA ListsType ==
  ASSUME Types
  PROVE  ToSet(addHandles) \subseteq Requests /\ ToSet(removeHandles) \subseteq Requests
BY LenProperties, ElementOfSeq DEF Types, ToSet

(* No request yet.                                                           *)
LEMMA InitIInv == Init => IInv
<1> SUFFICES ASSUME Init PROVE IInv
  OBVIOUS
<1>1. Types
  <2>1. addHandles \in Seq(Requests) /\ removeHandles \in Seq(Requests)
    BY EmptySeq DEF Init
  <2>2. handle \in [Requests -> BOOLEAN] /\ private \in [Requests -> BOOLEAN]
    BY Zenon DEF Init
  <2> QED
    BY <2>1, <2>2 DEF Init, Types
<1>2. Sending /\ Reporting /\ Undropped
  BY EmptySet DEF Init, Sending, Reporting, Undropped
<1>3. AnsweredOnce /\ FaultsExplained
  BY EmptySeq DEF Init, AnsweredOnce, FaultsExplained
<1> QED
  BY <1>1, <1>2, <1>3 DEF IInv

(* What fits an answered request fits it as long as neither the answer nor   *)
(* what it is about changes.                                                 *)
LEMMA AnsweredFrame ==
  ASSUME AnsweredOnce, answers' = answers,
         \A r \in Requests : answers[r] # <<>> =>
           kind'[r] = kind[r] /\ outcome'[r] = outcome[r],
         \A r \in Requests : context'[r] = "deleted" <=> context[r] = "deleted"
  PROVE  AnsweredOnce'
BY DEF AnsweredOnce

(* A request is made.                                                        *)
LEMMA CreateRequestIInv ==
  ASSUME IInv, fault = "none", NEW r \in Requests, NEW k \in Kinds, CreateRequest(r, k)
  PROVE  IInv'
<1>1. /\ life[r] = "unborn" /\ life' = [life EXCEPT ![r] = "creating"]
      /\ kind' = [kind EXCEPT ![r] = k]
      /\ context' = [context EXCEPT ![r] = ContextOf(k)]
      /\ UNCHANGED <<handle, private, handler, lists, running, pc, current, curl,
                     history, fault>>
  BY DEF CreateRequest
<1>2. ContextOf(k) \in {"none", "held"}
  BY DEF ContextOf
<1>3. answers[r] = <<>> /\ transfer[r] = "none"
        /\ r \notin ToSet(addHandles) \union ToSet(removeHandles)
  BY <1>1 DEF IInv, Sending, Reporting
<1>4. Types'
  BY <1>1, <1>2 DEF IInv, Types, lists, curl, history
<1>5. Sending'
  BY <1>1, <1>3 DEF IInv, Types, Sending, lists, curl
<1>6. Reporting'
  BY <1>1, <1>2, <1>3 DEF IInv, Types, Reporting, curl, history
<1>7. Undropped'
  BY <1>1, <1>3 DEF IInv, Types, Undropped, lists, curl, history
<1>8. AnsweredOnce'
  <2>1. context[r] # "deleted"
    BY <1>3 DEF IInv, AnsweredOnce
  <2> QED
    BY <1>1, <1>2, <1>3, <2>1, AnsweredFrame DEF IInv, Types, curl, history
<1>9. FaultsExplained'
  BY <1>1 DEF FaultsExplained
<1> QED
  BY <1>4, <1>5, <1>6, <1>7, <1>8, <1>9 DEF IInv

(* It is in m_boundRequests and has its handler.                             *)
LEMMA EndCreateIInv ==
  ASSUME IInv, fault = "none", NEW r \in Requests, EndCreate(r)
  PROVE  IInv'
<1>1. /\ life[r] = "creating" /\ life' = [life EXCEPT ![r] = "created"]
      /\ handler' = [handler EXCEPT ![r] = HandlerOf(kind[r])]
      /\ UNCHANGED <<handle, private, kind, context, lists, running, pc, current, curl,
                     history, fault>>
  BY DEF EndCreate
<1>2. HandlerOf(kind[r]) \in {"none", "held"}
  BY DEF HandlerOf
<1>3. transfer[r] = "none" /\ r \notin ToSet(addHandles) \union ToSet(removeHandles)
  BY <1>1 DEF IInv, Sending
<1>4. Types'
  BY <1>1, <1>2 DEF IInv, Types, lists, curl, history
<1>5. Sending'
  BY <1>1, <1>3 DEF IInv, Types, Sending, lists, curl
<1>6. Reporting'
  BY <1>1, <1>2 DEF IInv, Types, Reporting, curl, history
<1>7. Undropped'
  BY <1>1, <1>3 DEF IInv, Types, Undropped, lists, curl, history
<1>8. AnsweredOnce'
  BY <1>1, AnsweredFrame DEF IInv, curl, history
<1>9. FaultsExplained'
  BY <1>1 DEF FaultsExplained
<1> QED
  BY <1>4, <1>5, <1>6, <1>7, <1>8, <1>9 DEF IInv

(* send makes the handle,                                                    *)
LEMMA SendIInv ==
  ASSUME IInv, fault = "none", NEW r \in Requests, Send(r)
  PROVE  IInv'
<1>1. /\ life[r] = "created" /\ life' = [life EXCEPT ![r] = "sending"]
      /\ handle' = [handle EXCEPT ![r] = TRUE] /\ private' = [private EXCEPT ![r] = TRUE]
      /\ UNCHANGED <<bound, uses, lists, running, pc, current, curl, history, fault>>
  BY DEF Send
<1>2. transfer[r] = "none" /\ r \notin ToSet(addHandles) \union ToSet(removeHandles)
  BY <1>1 DEF IInv, Sending
<1>3. Types'
  <2>1. handle' \in [Requests -> BOOLEAN] /\ private' \in [Requests -> BOOLEAN]
    BY <1>1, Zenon DEF IInv, Types
  <2> QED
    BY <1>1, <2>1 DEF IInv, Types, uses, lists, curl, history
<1>4. Sending'
  BY <1>1, <1>2 DEF IInv, Types, Sending, uses, lists, curl
<1>5. Reporting'
  BY <1>1 DEF IInv, Types, Reporting, uses, curl, history
<1>6. Undropped'
  BY <1>1, <1>2 DEF IInv, Types, Undropped, lists, curl, history
<1>7. AnsweredOnce'
  BY <1>1, AnsweredFrame DEF IInv, uses, curl, history
<1>8. FaultsExplained'
  BY <1>1 DEF FaultsExplained
<1> QED
  BY <1>3, <1>4, <1>5, <1>6, <1>7, <1>8 DEF IInv

(* and queues it.                                                            *)
LEMMA AddIInv ==
  ASSUME IInv, fault = "none", NEW r \in Requests, Add(r)
  PROVE  IInv'
<1>1. /\ life[r] = "sending" /\ life' = [life EXCEPT ![r] = "sent"]
      /\ addHandles' = Append(addHandles, r) /\ changed' = TRUE
      /\ UNCHANGED <<handle, private, bound, uses, removeHandles, running, pc, current,
                     curl, history, fault>>
  BY DEF Add
<1>2. transfer[r] = "none" /\ r \notin ToSet(addHandles) \union ToSet(removeHandles)
  BY <1>1 DEF IInv, Sending
<1>3. ToSet(addHandles') = ToSet(addHandles) \union {r} /\ addHandles' \in Seq(Requests)
  BY <1>1, AppendSet, AppendProperties DEF IInv, Types
<1>4. Types'
  BY <1>1, <1>3 DEF IInv, Types, uses, curl, history
<1>5. Sending'
  BY <1>1, <1>2, <1>3 DEF IInv, Types, Sending, uses, curl
<1>6. Reporting'
  BY <1>1 DEF IInv, Types, Reporting, uses, curl, history
<1>7. Undropped'
  BY <1>1, <1>2, <1>3 DEF IInv, Types, Undropped, curl, history
<1>8. AnsweredOnce'
  BY <1>1, AnsweredFrame DEF IInv, uses, curl, history
<1>9. FaultsExplained'
  BY <1>1 DEF FaultsExplained
<1> QED
  BY <1>4, <1>5, <1>6, <1>7, <1>8, <1>9 DEF IInv

(* The owner deletes the request.                                            *)
LEMMA DeleteIInv ==
  ASSUME IInv, fault = "none", NEW r \in Requests, Delete(r)
  PROVE  IInv'
<1>1. /\ life[r] \in {"created", "sent"} /\ life' = [life EXCEPT ![r] = "deleted"]
      /\ \/ /\ handle[r] /\ private' = [private EXCEPT ![r] = FALSE]
            /\ removeHandles' = Append(removeHandles, r) /\ addHandles' = addHandles
            /\ dropped' = dropped \union {r}
         \/ ~handle[r] /\ UNCHANGED <<private, lists, dropped>>
      /\ UNCHANGED <<handle, bound, uses, running, pc, current, curl, answers, thrown, fault>>
  BY DEF Delete, RemoveHandle
<1>2. Reporting' /\ AnsweredOnce' /\ FaultsExplained'
  <2>1. AnsweredOnce'
    BY <1>1, AnsweredFrame DEF IInv, uses, curl
  <2>2. Reporting'
    BY <1>1 DEF IInv, Types, Reporting, uses, curl
  <2> QED
    BY <1>1, <2>1, <2>2 DEF FaultsExplained
<1>3. CASE ~handle[r]
  <2>1. life[r] = "created" /\ UNCHANGED <<private, lists, dropped>>
    BY <1>1, <1>3 DEF IInv, Sending
  <2>2. Types'
    BY <1>1, <2>1 DEF IInv, Types, uses, lists, curl
  <2>3. Sending' /\ Undropped'
    BY <1>1, <2>1 DEF IInv, Types, Sending, Undropped, uses, lists, curl
  <2> QED
    BY <1>2, <2>2, <2>3 DEF IInv
<1>4. CASE handle[r]
  <2>1. /\ private' = [private EXCEPT ![r] = FALSE]
        /\ removeHandles' = Append(removeHandles, r) /\ addHandles' = addHandles
        /\ dropped' = dropped \union {r}
    BY <1>1, <1>4
  <2>2. ToSet(removeHandles') = ToSet(removeHandles) \union {r}
          /\ removeHandles' \in Seq(Requests)
    BY <2>1, AppendSet, AppendProperties DEF IInv, Types
  <2>3. Types'
    <3>1. private' \in [Requests -> BOOLEAN]
      BY <2>1, Zenon DEF IInv, Types
    <3> QED
      BY <1>1, <2>1, <2>2, <3>1 DEF IInv, Types, uses, curl
  <2>4. Sending'
    BY <1>1, <2>1, <2>2 DEF IInv, Types, Sending, uses, curl
  <2>5. Undropped'
    BY <2>1 DEF Undropped
  <2> QED
    BY <1>2, <2>3, <2>4, <2>5 DEF IInv
<1> QED
  BY <1>3, <1>4

-----------------------------------------------------------------------------

(* The critical section of the loop: what is added becomes busy, what is     *)
(* removed is cleaned up and the requests it points to are deleted.          *)
LEMMA ApplyChangesIInv ==
  ASSUME IInv, fault = "none", ApplyChanges
  PROVE  IInv'
<1> DEFINE removed == ToSet(removeHandles)
           gone == {r \in removed : private[r]}
           bad == (\E r \in removed : transfer[r] = "cleaned") \/ ~IsInjective(removeHandles)
<1>1. /\ pc = "top" /\ pc' = "perform"
      /\ addHandles' = <<>> /\ removeHandles' = <<>> /\ changed' = FALSE
      /\ UNCHANGED <<private, bound, uses, running, current, outcome, history>>
      /\ \/ bad /\ fault' = "cleaned twice" /\ UNCHANGED <<life, handle, transfer>>
         \/ /\ ~bad /\ UNCHANGED fault
            /\ life' = [r \in Requests |-> IF r \in gone THEN "deleted" ELSE life[r]]
            /\ handle' = [r \in Requests |-> handle[r] /\ r \notin gone]
            /\ transfer' = [r \in Requests |->
                              IF r \in removed THEN "cleaned"
                              ELSE IF r \in ToSet(addHandles) THEN "busy"
                              ELSE transfer[r]]
  BY DEF ApplyChanges, DeleteFinished
<1> HIDE DEF bad
<1>2. current = {} /\ current' = {}
  BY <1>1 DEF IInv, Reporting
<1>3. <<>> \in Seq(Requests) /\ ToSet(<<>>) = {} /\ IsInjective(<<>>)
  BY EmptySeq, EmptySet
<1>4. AnsweredOnce'
  BY <1>1, AnsweredFrame DEF IInv, uses, history
<1>5. FaultsExplained'
  <2>1. bad => dropped # {}
    BY DEF bad, IInv, Undropped
  <2> QED
    BY <1>1, <2>1 DEF FaultsExplained, history
<1>6. CASE UNCHANGED <<life, handle, transfer>>
  <2>1. Types'
    BY <1>1, <1>3, <1>6 DEF IInv, Types, uses, history
  <2>2. Sending' /\ Reporting' /\ Undropped'
    BY <1>1, <1>2, <1>3, <1>6 DEF IInv, Sending, Reporting, Undropped, uses, history
  <2> QED
    BY <1>4, <1>5, <2>1, <2>2 DEF IInv
<1>7. CASE /\ life' = [r \in Requests |-> IF r \in gone THEN "deleted" ELSE life[r]]
           /\ handle' = [r \in Requests |-> handle[r] /\ r \notin gone]
           /\ transfer' = [r \in Requests |->
                             IF r \in removed THEN "cleaned"
                             ELSE IF r \in ToSet(addHandles) THEN "busy"
                             ELSE transfer[r]]
  <2>1. Types'
    <3>1. handle' \in [Requests -> BOOLEAN]
      BY <1>7, Zenon
    <3>2. life' \in [Requests -> {"unborn", "creating", "created", "sending", "sent", "deleted"}]
      BY <1>7 DEF IInv, Types
    <3>3. transfer' \in [Requests -> {"none", "busy", "done", "read", "cleaned"}]
      BY <1>7 DEF IInv, Types
    <3> QED
      BY <1>1, <1>3, <3>1, <3>2, <3>3 DEF IInv, Types, uses, history
  <2> HIDE DEF removed
  <2>2. \A r \in Requests :
          \/ r \in removed /\ transfer'[r] = "cleaned" /\ life'[r] \in {"deleted", life[r]}
          \/ /\ r \notin removed /\ life'[r] = life[r]
             /\ \/ r \in ToSet(addHandles) /\ transfer'[r] = "busy"
                \/ r \notin ToSet(addHandles) /\ transfer'[r] = transfer[r]
    BY <1>7
  <2>3. \A r \in Requests : life'[r] # "deleted" /\ handle[r] => handle'[r]
    BY <1>7
  <2>4. \A r \in removed : r \in Requests => life[r] \in {"sent", "deleted"}
    BY DEF IInv, Sending, removed
  <2>5. Sending'
    BY <1>1, <1>3, <2>2, <2>3, <2>4 DEF IInv, Sending, uses
  <2>6. Reporting'
    BY <1>1, <1>2, <2>2, <2>4 DEF IInv, Sending, Reporting, uses, history
  <2>7. Undropped'
    BY <1>1, <1>3, <2>2 DEF IInv, Undropped, history
  <2> QED
    BY <1>4, <1>5, <2>1, <2>5, <2>6, <2>7 DEF IInv
<1> QED
  BY <1>1, <1>6, <1>7

(* Some transfers end.                                                       *)
LEMMA PerformIInv ==
  ASSUME IInv, fault = "none", Perform
  PROVE  IInv'
<1>1. PICK ended \in SUBSET {r \in Requests : transfer[r] = "busy"} :
        \E how \in [ended -> Outcomes] :
          /\ outcome' = [r \in Requests |-> IF r \in ended THEN how[r] ELSE outcome[r]]
          /\ transfer' = [r \in Requests |-> IF r \in ended THEN "done" ELSE transfer[r]]
          /\ fault' = IF ended \intersect dropped # {} THEN "freed request" ELSE fault
  BY DEF Perform
<1>2. PICK how \in [ended -> Outcomes] :
        /\ outcome' = [r \in Requests |-> IF r \in ended THEN how[r] ELSE outcome[r]]
        /\ transfer' = [r \in Requests |-> IF r \in ended THEN "done" ELSE transfer[r]]
        /\ fault' = IF ended \intersect dropped # {} THEN "freed request" ELSE fault
  BY <1>1
<1>3. /\ pc = "perform" /\ pc' = "read"
      /\ UNCHANGED <<requests, uses, lists, running, current, history>>
  BY DEF Perform
<1>4. /\ \A r \in ended : /\ r \in Requests /\ transfer[r] = "busy"
                          /\ transfer'[r] = "done" /\ outcome'[r] \in Outcomes
      /\ \A r \in Requests \ ended : transfer'[r] = transfer[r] /\ outcome'[r] = outcome[r]
  BY <1>2
<1>5. current = {}
  BY <1>3 DEF IInv, Reporting
<1>6. Types'
  <2>1. outcome' \in [Requests -> Outcomes \union {"none"}]
    BY <1>2 DEF IInv, Types
  <2>2. transfer' \in [Requests -> {"none", "busy", "done", "read", "cleaned"}]
    BY <1>2 DEF IInv, Types
  <2> QED
    BY <1>3, <2>1, <2>2 DEF IInv, Types, requests, uses, lists, history
<1>7. Sending'
  BY <1>3, <1>4 DEF IInv, Sending, requests, uses, lists
<1>8. Reporting'
  BY <1>3, <1>4, <1>5 DEF IInv, Reporting, requests, uses, history
<1>9. Undropped'
  <2>1. dropped = {} => \A r \in ToSet(removeHandles) : r \in Requests \ ended
    BY <1>4, ListsType DEF IInv, Undropped
  <2> QED
    BY <1>3, <1>4, <2>1 DEF IInv, Undropped, requests, lists, history
<1>10. AnsweredOnce'
  <2>1. \A r \in Requests : answers[r] # <<>> => outcome'[r] = outcome[r]
    BY <1>4 DEF IInv, Reporting
  <2> QED
    BY <1>3, <2>1, AnsweredFrame DEF IInv, uses, history
<1>11. FaultsExplained'
  BY <1>2, <1>3 DEF FaultsExplained, history
<1> QED
  BY <1>6, <1>7, <1>8, <1>9, <1>10, <1>11 DEF IInv

(* A transfer that has ended is found.                                       *)
LEMMA ReadInfoIInv ==
  ASSUME IInv, fault = "none", NEW r \in Requests, ReadInfo(r)
  PROVE  IInv'
<1>1. /\ pc = "read" /\ current = {} /\ transfer[r] = "done"
      /\ transfer' = [transfer EXCEPT ![r] = "read"]
      /\ current' \in {{}, {r}}
      /\ UNCHANGED <<requests, uses, lists, running, pc, outcome, history, fault>>
  BY DEF ReadInfo
<1>2. answers[r] = <<>>
  BY <1>1 DEF IInv, Reporting
<1>3. Types'
  BY <1>1 DEF IInv, Types, requests, uses, lists, history
<1>4. Sending'
  BY <1>1 DEF IInv, Types, Sending, requests, uses, lists
<1>5. Reporting'
  <2>1. transfer'[r] = "read" /\ \A q \in Requests \ {r} : transfer'[q] = transfer[q]
    BY <1>1 DEF IInv, Types
  <2> QED
    BY <1>1, <1>2, <2>1 DEF IInv, Reporting, requests, uses, history
<1>6. Undropped'
  <2>1. dropped = {} => r \notin ToSet(removeHandles)
    BY <1>1 DEF IInv, Undropped
  <2> QED
    BY <1>1, <2>1 DEF IInv, Types, Undropped, requests, lists, history
<1>7. AnsweredOnce'
  BY <1>1, AnsweredFrame DEF IInv, uses, history
<1>8. FaultsExplained'
  BY <1>1 DEF FaultsExplained
<1> QED
  BY <1>3, <1>4, <1>5, <1>6, <1>7, <1>8 DEF IInv

(* The callback that is made fits the kind and the outcome.                  *)
LEMMA CallsType ==
  ASSUME NEW k \in Kinds, NEW o \in Outcomes, NEW c \in Calls(k, o)
  PROVE  /\ c \in Callbacks
         /\ k \in RestKinds =>
              /\ o = "timeout" => c = "onTimeout"
              /\ \/ c = "onTimeout"
                 \/ c = "onHTTPError" /\ o = "error"
                 \/ c = Response(k) /\ o \in {"200", "cut"}
BY DEF Calls, Response, RestKinds, Outcomes, Callbacks

(* The outcome is reported to the handler.                                   *)
LEMMA ReportIInv ==
  ASSUME IInv, fault = "none", NEW r \in Requests, Report(r)
  PROVE  IInv'
<1>1. PICK c \in Calls(kind[r], outcome[r]) :
       /\ answers' = [answers EXCEPT ![r] = Append(@, c)]
       /\ context' = [context EXCEPT ![r] = IF DeletesContext(c) THEN "deleted" ELSE @]
       /\ \/ /\ pc' = "finish"
             /\ handler' = [handler EXCEPT ![r] = IF @ = "held" THEN "deleted" ELSE @]
             /\ UNCHANGED <<thrown, current>>
          \/ /\ pc' = "read" /\ current' = {}
             /\ UNCHANGED handler
  BY DEF Report
<1>2. /\ current = {r} /\ pc = "read"
      /\ UNCHANGED <<requests, kind, lists, running, curl, dropped>>
  BY DEF Report
<1>3. transfer[r] = "read" /\ answers[r] = <<>> /\ outcome[r] \in Outcomes
  BY <1>2 DEF IInv, Reporting
<1>4. life[r] \in {"sent", "deleted"} /\ kind[r] \in Kinds
  BY <1>3 DEF IInv, Sending
<1>5. /\ c \in Callbacks
      /\ kind[r] \in RestKinds =>
           /\ outcome[r] = "timeout" => c = "onTimeout"
           /\ \/ c = "onTimeout"
              \/ c = "onHTTPError" /\ outcome[r] = "error"
              \/ c = Response(kind[r]) /\ outcome[r] \in {"200", "cut"}
  BY <1>3, <1>4, CallsType
<1>6. /\ answers'[r] = <<c>> /\ Len(<<c>>) = 1
      /\ \A q \in Requests \ {r} : answers'[q] = answers[q] /\ context'[q] = context[q]
      /\ answers' \in [Requests -> {<<>>} \union {<<d>> : d \in Callbacks}]
  <2>1. Append(<<>>, c) = <<c>> /\ Len(<<c>>) = 1
    OBVIOUS
  <2> QED
    BY <1>1, <1>3, <1>5, <2>1 DEF IInv, Types
<1>7. context'[r] = "deleted" <=> c = "onKlineResponse"
  <2>1. context[r] # "deleted"
    BY <1>3 DEF IInv, AnsweredOnce
  <2> QED
    BY <1>1, <2>1 DEF IInv, Types, DeletesContext
<1>8. Types'
  BY <1>1, <1>2, <1>6 DEF IInv, Types, requests, lists, curl
<1>9. Sending'
  BY <1>2 DEF IInv, Sending, requests, lists, curl
<1>10. Reporting'
  BY <1>1, <1>2, <1>3, <1>4, <1>6 DEF IInv, Types, Reporting, requests, curl
<1>11. Undropped'
  BY <1>1, <1>2 DEF IInv, Undropped, requests, lists, curl
<1>12. AnsweredOnce'
  <2>1. ASSUME NEW q \in Requests \ {r}
        PROVE  answers'[q] = answers[q] /\ context'[q] = context[q]
                 /\ kind'[q] = kind[q] /\ outcome'[q] = outcome[q]
    BY <1>2, <1>6 DEF curl
  <2>2. kind'[r] = kind[r] /\ outcome'[r] = outcome[r]
    BY <1>2 DEF curl
  <2>3. <<c>> = <<"onKlineResponse">> <=> c = "onKlineResponse"
    OBVIOUS
  <2>4. ASSUME kind[r] \in RestKinds
        PROVE  /\ outcome[r] = "timeout" => <<c>> = <<"onTimeout">>
               /\ \/ <<c>> = <<"onTimeout">>
                  \/ <<c>> = <<"onHTTPError">> /\ outcome[r] = "error"
                  \/ <<c>> = <<Response(kind[r])>> /\ outcome[r] \in {"200", "cut"}
    BY <1>5, <2>4
  <2> SUFFICES ASSUME NEW q \in Requests
               PROVE  /\ Len(answers'[q]) <= 1
                      /\ kind'[q] \in RestKinds /\ answers'[q] # <<>> =>
                           /\ outcome'[q] = "timeout" => answers'[q] = <<"onTimeout">>
                           /\ \/ answers'[q] = <<"onTimeout">>
                              \/ answers'[q] = <<"onHTTPError">> /\ outcome'[q] = "error"
                              \/ /\ answers'[q] = <<Response(kind'[q])>>
                                 /\ outcome'[q] \in {"200", "cut"}
                      /\ context'[q] = "deleted" <=> answers'[q] = <<"onKlineResponse">>
    BY DEF AnsweredOnce
  <2>5. CASE q = r
    <3>1. Len(answers'[r]) <= 1
      BY <1>6
    <3>2. context'[r] = "deleted" <=> answers'[r] = <<"onKlineResponse">>
      BY <1>6, <1>7, <2>3
    <3> QED
      BY <3>1, <3>2, <1>6, <2>2, <2>4, <2>5
  <2>6. CASE q # r
    BY <2>1, <2>6 DEF IInv, AnsweredOnce
  <2> QED
    BY <2>5, <2>6
<1>13. FaultsExplained'
  <2>1. handler[r] # "deleted"
    BY <1>3 DEF IInv, Reporting
  <2>2. life[r] = "deleted" => dropped # {}
    BY <1>3 DEF IInv, Undropped
  <2>3. \/ fault' = "freed request" /\ life[r] = "deleted"
        \/ fault' = "columns" /\ Misread(r)
        \/ fault' = fault
    BY <2>1 DEF Report
  <2>4. Misread(r)' <=> Misread(r)
    BY <1>2 DEF Misread, curl
  <2> QED
    BY <1>2, <2>2, <2>3, <2>4 DEF FaultsExplained
<1> QED
  BY <1>8, <1>9, <1>10, <1>11, <1>12, <1>13 DEF IInv

(* A finished request is to be removed.                                      *)
LEMMA FinishIInv ==
  ASSUME IInv, fault = "none", NEW r \in Requests, Finish(r)
  PROVE  IInv'
<1>1. /\ current = {r} /\ pc = "finish" /\ pc' = "read" /\ current' = {}
      /\ fault' = IF life[r] = "deleted" THEN "freed request" ELSE fault
      /\ removeHandles' = Append(removeHandles, r) /\ addHandles' = addHandles
      /\ UNCHANGED <<requests, uses, running, curl, history>>
  BY DEF Finish, RemoveHandle
<1>2. transfer[r] = "read"
  BY <1>1 DEF IInv, Reporting
<1>3. life[r] \in {"sent", "deleted"}
  BY <1>2 DEF IInv, Sending
<1>4. /\ ToSet(removeHandles') = ToSet(removeHandles) \union {r}
      /\ removeHandles' \in Seq(Requests)
      /\ IsInjective(removeHandles) /\ r \notin ToSet(removeHandles)
           => IsInjective(removeHandles')
  <2>1. removeHandles \in Seq(Requests)
    BY DEF IInv, Types
  <2> QED
    BY <1>1, <2>1, AppendSet, AppendProperties
<1>5. Types'
  BY <1>1, <1>4 DEF IInv, Types, requests, uses, curl, history
<1>6. Sending'
  BY <1>1, <1>3, <1>4 DEF IInv, Sending, requests, uses, curl
<1>7. Reporting'
  BY <1>1 DEF IInv, Reporting, requests, uses, curl, history
<1>8. Undropped'
  BY <1>1, <1>2, <1>4 DEF IInv, Undropped, requests, curl, history
<1>9. AnsweredOnce'
  BY <1>1, AnsweredFrame DEF IInv, uses, curl, history
<1>10. FaultsExplained'
  <2>1. life[r] = "deleted" => dropped # {}
    BY <1>2 DEF IInv, Undropped
  <2> QED
    BY <1>1, <2>1 DEF FaultsExplained, history
<1> QED
  BY <1>5, <1>6, <1>7, <1>8, <1>9, <1>10 DEF IInv

(* The steps that move the thread only, the destruction of the client, and two *)
(* threads in m_boundRequests.                                               *)
LEMMA OtherIInv ==
  ASSUME IInv, fault = "none", NoChanges \/ EndRead \/ Stop \/ BoundSetRace
  PROVE  IInv'
<1>1. UNCHANGED <<requests, uses, lists, current, curl, history>>
  BY DEF NoChanges, EndRead, Stop, BoundSetRace
<1>2. pc' = pc \/ current = {}
  BY DEF NoChanges, EndRead, Stop, BoundSetRace, IInv, Reporting
<1>3. \/ fault' = fault
      \/ fault' = "unbound" /\ ~running'
      \/ fault' = "set race" /\ Cardinality({r \in Requests : life[r] = "creating"}) > 1
  BY DEF NoChanges, EndRead, Stop, BoundSetRace
<1>4. Types' /\ Sending'
  BY <1>1 DEF IInv, Types, Sending, requests, uses, lists, curl, history
<1>5. Reporting'
  BY <1>1, <1>2 DEF IInv, Reporting, requests, uses, curl, history
<1>6. Undropped'
  BY <1>1 DEF IInv, Undropped, requests, lists, curl, history
<1>7. AnsweredOnce'
  BY <1>1, AnsweredFrame DEF IInv, uses, curl, history
<1>8. FaultsExplained'
  <2>1. life' = life
    BY <1>1 DEF requests
  <2>2. Cardinality({r \in Requests : life[r] = "creating"})' =
          Cardinality({r \in Requests : life[r] = "creating"})
    BY <2>1, Zenon
  <2> QED
    BY <1>3, <2>2 DEF FaultsExplained
<1> QED
  BY <1>4, <1>5, <1>6, <1>7, <1>8 DEF IInv

(* No step of an owner or of the client's thread breaks it.                  *)
LEMMA NextIInv == IInv /\ [Next]_vars => IInv'
<1> SUFFICES ASSUME IInv, [Next]_vars PROVE IInv'
  OBVIOUS
<1>1. CASE UNCHANGED vars
  <2>1. Types' /\ Sending' /\ Undropped'
    BY <1>1 DEF vars, IInv, Types, Sending, Undropped, requests, uses, lists, curl, history
  <2>2. Reporting'
    BY <1>1 DEF vars, IInv, Reporting, requests, uses, curl, history
  <2>3. AnsweredOnce'
    BY <1>1, AnsweredFrame DEF vars, IInv, uses, curl, history
  <2>4. FaultsExplained'
    <3>1. UNCHANGED <<fault, dropped, running, life, kind, outcome>>
      BY <1>1 DEF vars, requests, uses, curl, history
    <3>2. Cardinality({r \in Requests : life[r] = "creating"})' =
            Cardinality({r \in Requests : life[r] = "creating"})
      BY <3>1, Zenon
    <3> QED
      BY <3>1, <3>2 DEF IInv, FaultsExplained, Misread
  <2> QED
    BY <2>1, <2>2, <2>3, <2>4 DEF IInv
<1> QED
  BY <1>1, CreateRequestIInv, EndCreateIInv, SendIInv, AddIInv, DeleteIInv, ApplyChangesIInv, PerformIInv,
     ReadInfoIInv, ReportIInv, FinishIInv, OtherIInv
  DEF Next, Run

-----------------------------------------------------------------------------

(* A handler is called at most once, with the answer to what was asked or    *)
(* with what went wrong, and its interval is deleted by its answer only.     *)
THEOREM HandlersAreCalledOnce == Spec => []AnsweredOnce
<1>1. IInv => AnsweredOnce
  BY DEF IInv
<1> QED
  BY InitIInv, NextIInv, <1>1, PTL DEF Spec

(* What leads to the use of a freed request, to a second cleaning of a       *)
(* handle and to missing columns.                                            *)
THEOREM FaultsAreExplained == Spec => []FaultsExplained
<1>1. IInv => FaultsExplained
  BY DEF IInv
<1> QED
  BY InitIInv, NextIInv, <1>1, PTL DEF Spec

-----------------------------------------------------------------------------
(* What the requests look like to those who use them.                        *)

\* What is going to be removed has been answered, unless its owner has deleted it;
\* what the client has deleted is no longer in curl.
Removing ==
  /\ \A r \in ToSet(removeHandles) : private[r] => answers[r] # <<>>
  /\ \A r \in Requests :
       /\ life[r] \in {"unborn", "creating", "created"} => ~private[r] /\ ~handle[r]
       /\ life[r] = "deleted" /\ private[r] => transfer[r] = "cleaned"
  /\ pc = "finish" => \A r \in current : answers[r] # <<>>

\* What a request is for is known when it is made.
Unborn == \A r \in Requests : life[r] = "unborn" => kind[r] = "none"

DeskInv == IInv /\ Removing /\ Unborn

(* No request yet.                                                           *)
LEMMA InitRemoving == Init => Removing
BY EmptySet DEF Init, Removing

(* An owner makes, sends or deletes a request.                               *)
LEMMA OwnerRemoving ==
  ASSUME DeskInv, fault = "none", NEW r \in Requests,
         \/ (\E k \in Kinds : CreateRequest(r, k)) \/ EndCreate(r)
         \/ Send(r) \/ Add(r) \/ Delete(r)
  PROVE  Removing'
<1> USE DEF DeskInv
<1>1. CASE (\E k \in Kinds : CreateRequest(r, k)) \/ EndCreate(r) \/ Add(r)
  <2>1. /\ \/ life[r] = "unborn" /\ life' = [life EXCEPT ![r] = "creating"]
           \/ life[r] = "creating" /\ life' = [life EXCEPT ![r] = "created"]
           \/ life[r] = "sending" /\ life' = [life EXCEPT ![r] = "sent"]
        /\ UNCHANGED <<handle, private, removeHandles, pc, current, transfer, answers>>
    BY <1>1 DEF CreateRequest, EndCreate, Add, lists, curl, history
  <2>2. /\ \A q \in Requests \ {r} : life'[q] = life[q]
        /\ life'[r] \in {"creating", "created", "sent"}
        /\ life'[r] # "sent" => life[r] \in {"unborn", "creating"}
    BY <2>1 DEF IInv, Types
  <2> QED
    BY <2>1, <2>2 DEF Removing
<1>2. CASE Send(r)
  <2>1. /\ life[r] = "created" /\ life' = [life EXCEPT ![r] = "sending"]
        /\ handle' = [handle EXCEPT ![r] = TRUE] /\ private' = [private EXCEPT ![r] = TRUE]
        /\ UNCHANGED <<removeHandles, pc, current, transfer, answers>>
    BY <1>2 DEF Send, lists, curl, history
  <2>2. r \notin ToSet(removeHandles)
    BY <2>1 DEF IInv, Sending
  <2>3. /\ \A q \in Requests \ {r} : /\ life'[q] = life[q] /\ handle'[q] = handle[q]
                                     /\ private'[q] = private[q]
        /\ life'[r] = "sending"
    BY <2>1 DEF IInv, Types
  <2> QED
    BY <2>1, <2>2, <2>3, ListsType DEF IInv, Removing
<1>3. CASE Delete(r)
  <2>1. /\ life[r] \in {"created", "sent"} /\ life' = [life EXCEPT ![r] = "deleted"]
        /\ \/ /\ handle[r] /\ private' = [private EXCEPT ![r] = FALSE]
              /\ removeHandles' = Append(removeHandles, r)
           \/ ~handle[r] /\ UNCHANGED <<private, removeHandles>>
        /\ UNCHANGED <<handle, pc, current, transfer, answers>>
    BY <1>3 DEF Delete, RemoveHandle, lists, curl
  <2>2. life'[r] = "deleted" /\ \A q \in Requests \ {r} : life'[q] = life[q]
    BY <2>1 DEF IInv, Types
  <2>3. CASE handle[r]
    <3>1. /\ private' = [private EXCEPT ![r] = FALSE]
          /\ removeHandles' = Append(removeHandles, r)
      BY <2>1, <2>3
    <3>2. ~private'[r] /\ \A q \in Requests \ {r} : private'[q] = private[q]
      BY <3>1 DEF IInv, Types
    <3>3. ToSet(removeHandles') = ToSet(removeHandles) \union {r}
      BY <3>1, AppendSet DEF IInv, Types
    <3> QED
      BY <2>1, <2>2, <3>2, <3>3, ListsType DEF IInv, Removing
  <2>4. CASE ~handle[r]
    <3>1. ~private[r] /\ UNCHANGED <<private, removeHandles>>
      BY <2>1, <2>4 DEF IInv, Sending, Removing
    <3> QED
      BY <2>1, <2>2, <3>1 DEF Removing
  <2> QED
    BY <2>3, <2>4
<1> QED
  BY <1>1, <1>2, <1>3

(* The client's thread applies the changes.                                  *)
LEMMA ApplyRemoving ==
  ASSUME DeskInv, fault = "none", ApplyChanges
  PROVE  Removing'
<1> DEFINE removed == ToSet(removeHandles)
           gone == {r \in removed : private[r]}
<1>1. /\ removeHandles' = <<>> /\ pc' = "perform" /\ UNCHANGED <<private, answers>>
      /\ \/ UNCHANGED <<life, handle, transfer>>
         \/ /\ life' = [r \in Requests |-> IF r \in gone THEN "deleted" ELSE life[r]]
            /\ handle' = [r \in Requests |-> handle[r] /\ r \notin gone]
            /\ transfer' = [r \in Requests |->
                              IF r \in removed THEN "cleaned"
                              ELSE IF r \in ToSet(addHandles) THEN "busy"
                              ELSE transfer[r]]
  BY DEF ApplyChanges, DeleteFinished, history
<1>2. ToSet(removeHandles') = {}
  BY <1>1, EmptySet
<1>3. \A r \in Requests : r \in ToSet(addHandles) => transfer[r] = "none"
  BY DEF DeskInv, IInv, Sending
<1>4. \A r \in Requests :
        /\ life'[r] \in {"unborn", "creating", "created"} => ~private[r] /\ ~handle'[r]
        /\ life'[r] = "deleted" /\ private[r] => transfer'[r] = "cleaned"
  <2>1. CASE UNCHANGED <<life, handle, transfer>>
    BY <2>1 DEF DeskInv, Removing
  <2>2. CASE /\ life' = [r \in Requests |-> IF r \in gone THEN "deleted" ELSE life[r]]
             /\ handle' = [r \in Requests |-> handle[r] /\ r \notin gone]
             /\ transfer' = [r \in Requests |->
                               IF r \in removed THEN "cleaned"
                               ELSE IF r \in ToSet(addHandles) THEN "busy"
                               ELSE transfer[r]]
    <3> HIDE DEF removed
    <3>1. ASSUME NEW r \in Requests
          PROVE  /\ life'[r] = IF r \in removed /\ private[r] THEN "deleted" ELSE life[r]
                 /\ handle'[r] => handle[r]
                 /\ r \in removed => transfer'[r] = "cleaned"
                 /\ transfer[r] = "cleaned" => transfer'[r] = "cleaned"
      BY <1>3, <2>2
    <3> QED
      BY <3>1 DEF DeskInv, Removing
  <2> QED
    BY <1>1, <2>1, <2>2
<1> QED
  BY <1>1, <1>2, <1>4 DEF Removing

(* It reads what has ended, reports it and queues it for removal.            *)
LEMMA ThreadRemoving ==
  ASSUME DeskInv, fault = "none",
         \/ NoChanges \/ Perform \/ EndRead \/ Stop \/ BoundSetRace
         \/ \E r \in Requests : ReadInfo(r) \/ Report(r) \/ Finish(r)
  PROVE  Removing'
<1> USE DEF DeskInv
<1>1. CASE NoChanges \/ EndRead \/ Stop \/ BoundSetRace
  <2>1. /\ UNCHANGED <<life, handle, private, removeHandles, current, transfer, answers>>
        /\ pc' \in {pc, "perform", "top"}
    BY <1>1 DEF NoChanges, EndRead, Stop, BoundSetRace, requests, lists, curl, history
  <2> QED
    BY <2>1 DEF Removing
<1>2. CASE Perform
  <2>1. PICK ended \in SUBSET {r \in Requests : transfer[r] = "busy"} :
          transfer' = [r \in Requests |-> IF r \in ended THEN "done" ELSE transfer[r]]
    BY <1>2 DEF Perform
  <2>2. /\ UNCHANGED <<life, handle, private, removeHandles, answers>> /\ pc' = "read"
        /\ \A r \in Requests : transfer[r] = "cleaned" => transfer'[r] = "cleaned"
    BY <1>2, <2>1 DEF Perform, requests, lists, history
  <2> QED
    BY <2>2 DEF Removing
<1>3. ASSUME NEW r \in Requests, ReadInfo(r)
      PROVE  Removing'
  <2>1. /\ pc = "read" /\ transfer[r] = "done" /\ transfer' = [transfer EXCEPT ![r] = "read"]
        /\ UNCHANGED <<life, handle, private, removeHandles, pc, answers>>
    BY <1>3 DEF ReadInfo, requests, lists, history
  <2>2. \A q \in Requests : transfer[q] = "cleaned" => transfer'[q] = "cleaned"
    BY <2>1 DEF IInv, Types
  <2> QED
    BY <2>1, <2>2 DEF Removing
<1>4. ASSUME NEW r \in Requests, Report(r)
      PROVE  Removing'
  <2>1. PICK c : answers' = [answers EXCEPT ![r] = Append(@, c)]
    BY <1>4 DEF Report
  <2>2. /\ UNCHANGED <<life, handle, private, removeHandles, transfer>>
        /\ current = {r} /\ pc' \in {"finish", "read"}
        /\ pc' = "finish" => current' = current
    BY <1>4 DEF Report, requests, lists, curl
  <2>3. answers[r] = <<>>
    BY <1>4 DEF Report, IInv, Reporting
  <2>4. answers'[r] # <<>> /\ \A q \in Requests \ {r} : answers'[q] = answers[q]
    BY <2>1, <2>3 DEF IInv, Types
  <2> QED
    BY <2>2, <2>4, ListsType DEF IInv, Removing
<1>5. ASSUME NEW r \in Requests, Finish(r)
      PROVE  Removing'
  <2>1. /\ current = {r} /\ pc = "finish" /\ pc' = "read"
        /\ removeHandles' = Append(removeHandles, r)
        /\ UNCHANGED <<life, handle, private, transfer, answers>>
    BY <1>5 DEF Finish, RemoveHandle, requests, curl, history
  <2>2. ToSet(removeHandles') = ToSet(removeHandles) \union {r}
    BY <2>1, AppendSet DEF IInv, Types
  <2> QED
    BY <2>1, <2>2 DEF Removing
<1> QED
  BY <1>1, <1>2, <1>3, <1>4, <1>5

(* Nothing is unborn again.                                                  *)
LEMMA NextUnborn ==
  ASSUME DeskInv, [Next]_vars
  PROVE  Unborn'
<1> USE DEF DeskInv
<1>1. ASSUME NEW r \in Requests,
             \/ \E k \in Kinds : CreateRequest(r, k)
             \/ EndCreate(r) \/ Send(r) \/ Add(r) \/ Delete(r)
      PROVE  Unborn'
  <2>1. PICK l \in {"creating", "created", "sending", "sent", "deleted"}, k \in Kinds \union {"none"} :
          life' = [life EXCEPT ![r] = l] /\ kind' \in {kind, [kind EXCEPT ![r] = k]}
    BY <1>1 DEF CreateRequest, EndCreate, Send, Add, Delete, uses
  <2>2. /\ life'[r] # "unborn"
        /\ \A q \in Requests \ {r} : life'[q] = life[q] /\ kind'[q] = kind[q]
    BY <2>1 DEF IInv, Types
  <2> QED
    BY <2>2 DEF Unborn
<1>2. CASE ApplyChanges
  <2>1. kind' = kind /\ \A r \in Requests : life'[r] \in {"deleted", life[r]}
    BY <1>2 DEF ApplyChanges, uses
  <2> QED
    BY <2>1 DEF Unborn
<1>3. CASE UNCHANGED <<life, kind>>
  BY <1>3 DEF Unborn
<1> QED
  BY <1>1, <1>2, <1>3
  DEF Next, Run, NoChanges, Perform, EndRead, ReadInfo, Report, Finish, Stop, BoundSetRace,
      requests, uses, vars

LEMMA NextDeskInv == DeskInv /\ [Next]_vars => DeskInv'
<1> SUFFICES ASSUME DeskInv, [Next]_vars PROVE Removing'
  BY NextIInv, NextUnborn DEF DeskInv
<1>1. CASE UNCHANGED vars
  BY <1>1 DEF vars, DeskInv, Removing, requests, lists, curl, history
<1> QED
  BY <1>1, OwnerRemoving, ApplyRemoving, ThreadRemoving DEF Next, Run

Stages == [r \in Requests |-> Stage(r)]
Kept == {r \in Requests : kind[r] = "own"}

LEMMA InitDesk == Init => Desk!Init
BY DEF Init, Desk!Init, Stage

(* A step that changes neither how far a request has come nor whose it is    *)
(* does not show.                                                            *)
LEMMA Unseen ==
  ASSUME UNCHANGED <<life, handle, answers, kind>>
  PROVE  UNCHANGED <<Stages, Kept>>
BY DEF Stages, Kept, Stage

(* A step that takes one request further.                                    *)
LEMMA Moved ==
  ASSUME NEW r \in Requests, \A q \in Requests \ {r} : Stage(q)' = Stage(q)
  PROVE  Stages' = [Stages EXCEPT ![r] = Stage(r)']
<1>1. \A q \in Requests : Stages'[q] = [Stages EXCEPT ![r] = Stage(r)'][q]
  BY DEF Stages
<1> QED
  BY <1>1 DEF Stages

(* The steps of an owner.                                                    *)
LEMMA CreateDesk ==
  ASSUME DeskInv, NEW r \in Requests, NEW k \in Kinds, CreateRequest(r, k)
  PROVE  Desk!Next
<1>1. /\ life[r] = "unborn" /\ life' = [life EXCEPT ![r] = "creating"]
      /\ kind' = [kind EXCEPT ![r] = k]
      /\ UNCHANGED <<handle, answers>>
  BY DEF CreateRequest, history
<1>2. /\ Stage(r) = "none" /\ Stage(r)' = "asked"
      /\ \A q \in Requests \ {r} : Stage(q)' = Stage(q)
  BY <1>1 DEF DeskInv, IInv, Types, Stage
<1>3. Kept' \in {Kept, Kept \union {r}}
  <2>1. /\ kind'[r] = k
        /\ \A q \in Requests \ {r} : kind'[q] = kind[q]
    BY <1>1 DEF DeskInv, IInv, Types
  <2>2. CASE k = "own"
    <3>1. Kept' = Kept \union {r}
      BY <2>1, <2>2 DEF Kept
    <3> QED
      BY <3>1
  <2>3. CASE k # "own" /\ kind[r] # "own"
    <3>1. Kept' = Kept
      BY <2>1, <2>3 DEF Kept
    <3> QED
      BY <3>1
  <2>4. kind[r] # "own"
    BY <1>1 DEF DeskInv, Unborn
  <2> QED
    BY <2>2, <2>3, <2>4
<1>4. Desk!Ask(r)
  BY <1>2, <1>3, Moved DEF Desk!Ask, Desk!Move, Stages, Kept
<1> QED
  BY <1>4 DEF Desk!Next

LEMMA EndCreateDesk ==
  ASSUME DeskInv, NEW r \in Requests, EndCreate(r)
  PROVE  UNCHANGED <<Stages, Kept>>
<1>1. /\ life[r] = "creating" /\ life' = [life EXCEPT ![r] = "created"]
      /\ UNCHANGED <<handle, kind, answers>>
  BY DEF EndCreate, history
<1>2. \A q \in Requests : Stage(q)' = Stage(q)
  BY <1>1 DEF DeskInv, IInv, Types, Stage
<1> QED
  BY <1>1, <1>2 DEF Stages, Kept

LEMMA SendDesk ==
  ASSUME DeskInv, NEW r \in Requests, Send(r)
  PROVE  UNCHANGED <<Stages, Kept>>
<1>1. /\ life[r] = "created" /\ life' = [life EXCEPT ![r] = "sending"]
      /\ handle' = [handle EXCEPT ![r] = TRUE]
      /\ UNCHANGED <<kind, answers>>
  BY DEF Send, uses, history
<1>2. \A q \in Requests : Stage(q)' = Stage(q)
  BY <1>1 DEF DeskInv, IInv, Types, Stage
<1> QED
  BY <1>1, <1>2 DEF Stages, Kept

LEMMA AddDesk ==
  ASSUME DeskInv, NEW r \in Requests, Add(r)
  PROVE  Desk!Next
<1>1. /\ life[r] = "sending" /\ life' = [life EXCEPT ![r] = "sent"]
      /\ UNCHANGED <<handle, kind, answers>>
  BY DEF Add, uses, history
<1>2. answers[r] = <<>>
  BY <1>1 DEF DeskInv, IInv, Sending, Reporting
<1>3. /\ Stage(r) = "asked" /\ Stage(r)' = "waiting"
      /\ \A q \in Requests \ {r} : Stage(q)' = Stage(q)
  BY <1>1, <1>2 DEF DeskInv, IInv, Types, Stage
<1>4. Desk!Send(r)
  BY <1>1, <1>3, Moved DEF Desk!Send, Desk!Move, Stages
<1> QED
  BY <1>4 DEF Desk!Next

LEMMA WithdrawDesk ==
  ASSUME DeskInv, NEW r \in Requests, Delete(r)
  PROVE  Desk!Next
<1>1. /\ life[r] \in {"created", "sent"} /\ life' = [life EXCEPT ![r] = "deleted"]
      /\ ~FromAdapter(r) /\ UNCHANGED <<handle, kind, answers>>
  BY DEF Delete, uses
<1>2. kind[r] = "own"
  BY <1>1, KindsAssumption DEF DeskInv, IInv, Sending, FromAdapter, KindsAssumption
<1>3. life'[r] = "deleted" /\ \A q \in Requests \ {r} : Stage(q)' = Stage(q)
  BY <1>1 DEF DeskInv, IInv, Types, Stage
<1>4. r \in Kept
  BY <1>2 DEF Kept
<1>5. CASE life[r] = "created"
  <2>1. Stage(r) = "asked" /\ Stage(r)' = "deleted"
    BY <1>1, <1>3, <1>5 DEF DeskInv, Removing, Stage
  <2> QED
    BY <1>1, <1>3, <1>4, <2>1, Moved DEF Desk!Next, Desk!Withdraw, Desk!Move, Stages, Kept
<1>6. CASE life[r] = "sent"
  <2>1. Stage(r) \in {"waiting", "answered"} /\ Stage(r)' = "withdrawn"
    BY <1>1, <1>3, <1>6 DEF DeskInv, IInv, Sending, Stage
  <2> QED
    BY <1>1, <1>3, <1>4, <2>1, Moved DEF Desk!Next, Desk!Withdraw, Desk!Move, Stages, Kept
<1> QED
  BY <1>1, <1>5, <1>6

(* The client deletes what it has answered, and only when nobody else has.   *)
LEMMA ApplyDesk ==
  ASSUME DeskInv, ApplyChanges
  PROVE  Desk!Next \/ UNCHANGED <<Stages, Kept>>
<1> DEFINE removed == ToSet(removeHandles)
           gone == {r \in removed : private[r]}
<1>1. UNCHANGED <<kind, answers, private>>
  BY DEF ApplyChanges, uses, history
<1>2. CASE UNCHANGED <<life, handle>>
  BY <1>1, <1>2, Unseen
<1>3. CASE /\ \A r \in removed : transfer[r] # "cleaned"
           /\ life' = [r \in Requests |-> IF r \in gone THEN "deleted" ELSE life[r]]
           /\ handle' = [r \in Requests |-> handle[r] /\ r \notin gone]
  <2>1. gone \in SUBSET Requests
    BY ListsType DEF DeskInv, IInv
  <2>2. \A r \in gone : life[r] = "sent" /\ answers[r] # <<>>
    BY <1>3, <2>1 DEF DeskInv, Removing, IInv, Sending
  <2> HIDE DEF gone
  <2>3. \A r \in gone : Stage(r) = "answered"
    BY <2>2 DEF Stage
  <2>4. ASSUME NEW r \in Requests
        PROVE  Stage(r)' = IF r \in gone THEN "deleted" ELSE Stage(r)
    <3>1. /\ life'[r] = IF r \in gone THEN "deleted" ELSE life[r]
          /\ handle'[r] <=> handle[r] /\ r \notin gone
          /\ answers'[r] = answers[r]
      BY <1>1, <1>3
    <3>2. CASE r \in gone
      <4>1. life'[r] = "deleted" /\ ~handle'[r]
        BY <3>1, <3>2
      <4> QED
        BY <4>1, <3>2 DEF Stage
    <3>3. CASE r \notin gone
      <4>1. life'[r] = life[r] /\ (handle'[r] <=> handle[r])
        BY <3>1, <3>3
      <4>2. CASE life[r] = "deleted" /\ handle[r]
        BY <3>3, <4>1, <4>2 DEF Stage
      <4>3. CASE life[r] = "deleted" /\ ~handle[r]
        BY <3>3, <4>1, <4>3 DEF Stage
      <4>4. CASE life[r] \in {"unborn", "creating", "created", "sending", "sent"}
        BY <3>1, <3>3, <4>1, <4>4 DEF Stage
      <4> QED
        BY <4>2, <4>3, <4>4 DEF DeskInv, IInv, Types
    <3> QED
      BY <3>2, <3>3
  <2>5. /\ \A r \in gone : Stages[r] = "answered"
        /\ Stages' = [r \in Requests |-> IF r \in gone THEN "deleted" ELSE Stages[r]]
        /\ UNCHANGED Kept
    BY <1>1, <2>1, <2>3, <2>4 DEF Stages, Kept
  <2>6. Desk!Delete(gone)
    BY <2>5 DEF Desk!Delete, Stages, Kept
  <2> QED
    BY <2>1, <2>6 DEF Desk!Next
<1> QED
  BY <1>2, <1>3 DEF ApplyChanges, DeleteFinished

(* A handler is called for a request that waits, or freed memory is used.    *)
LEMMA ReportDesk ==
  ASSUME DeskInv, NEW r \in Requests, Report(r)
  PROVE  Desk!Next \/ UNCHANGED <<Stages, Kept>>
<1>1. PICK c : answers' = [answers EXCEPT ![r] = Append(@, c)]
  BY DEF Report
<1>2. /\ current = {r} /\ pc = "read" /\ UNCHANGED <<life, handle, kind>>
  BY DEF Report, requests
<1>3. answers[r] = <<>> /\ transfer[r] = "read"
  BY <1>2 DEF DeskInv, IInv, Reporting
<1>4. /\ answers'[r] # <<>> /\ \A q \in Requests \ {r} : answers'[q] = answers[q]
  BY <1>1, <1>3 DEF DeskInv, IInv, Types
<1>5. \A q \in Requests \ {r} : Stage(q)' = Stage(q)
  BY <1>2, <1>4 DEF Stage
<1>6. CASE life[r] = "sent"
  <2>1. Stage(r) = "waiting" /\ Stage(r)' = "answered"
    BY <1>2, <1>3, <1>4, <1>6 DEF Stage
  <2>2. Desk!Answer(r)
    BY <1>2, <1>5, <2>1, Moved DEF Desk!Answer, Desk!Move, Stages
  <2> QED
    BY <2>2 DEF Desk!Next
<1>7. CASE life[r] = "deleted"
  <2>1. \A q \in Requests : Stage(q)' = Stage(q)
    BY <1>2, <1>5, <1>7 DEF Stage
  <2> QED
    BY <1>2, <2>1 DEF Stages, Kept
<1> QED
  BY <1>3, <1>6, <1>7 DEF DeskInv, IInv, Sending

LEMMA NextDesk == DeskInv /\ [Next]_vars => [Desk!Next]_<<Stages, Kept>>
<1> SUFFICES ASSUME DeskInv, [Next]_vars
             PROVE  Desk!Next \/ UNCHANGED <<Stages, Kept>>
  OBVIOUS
<1>1. CASE UNCHANGED <<life, handle, answers, kind>>
  BY <1>1, Unseen
<1> QED
  BY <1>1, CreateDesk, EndCreateDesk, SendDesk, AddDesk, WithdrawDesk, ApplyDesk, ReportDesk
  DEF Next, Run, NoChanges, Perform, EndRead, ReadInfo, Finish, Stop, BoundSetRace, vars,
      requests, uses, history

(* For those who use it, the client is a desk: it deletes a request once, and *)
(* only after it has called its handler; a request that its *)
(* owner has deleted is neither deleted again nor answered, but by a step that *)
(* uses freed memory.                                                        *)
THEOREM DeskImplemented == Spec => ImplementsDesk
<1>1. Init => DeskInv
  BY InitIInv, InitRemoving DEF DeskInv, Init, Unborn
<1>2. Spec => []DeskInv
  BY <1>1, NextDeskInv, PTL DEF Spec
<1>3. Desk!Spec <=> Desk!Init /\ [][Desk!Next]_<<Stages, Kept>>
  BY DEF Desk!Spec, Stages, Kept
<1> QED
  BY <1>2, <1>3, InitDesk, NextDesk, PTL DEF Spec, ImplementsDesk
=============================================================================
