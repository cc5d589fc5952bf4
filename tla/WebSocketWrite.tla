---------------------------- MODULE WebSocketWrite ----------------------------
(***************************************************************************)
(* The write side of WebSocketConnection (platform/websocket.cpp): any      *)
(* thread appends to m_writeBuffer under m_writeSync; the service thread,   *)
(* told by m_wantWrite, swaps that buffer with m_writtenBuffer under the    *)
(* same mutex and hands its messages to libwebsockets without it.           *)
(*                                                                         *)
(* m_webSocket is read by the writers with no lock, before the critical     *)
(* section and again after it; the service thread clears it on close.       *)
(***************************************************************************)
EXTENDS Integers, Sequences

CONSTANTS Threads,      \* threads of the application
          Service,      \* the service thread, whose handlers write as well
          MaxWrites,    \* bound: calls of write by each thread
          MaxSockets    \* bound: sockets the connection object gets

ASSUME ServiceAssumption == Service \notin Threads
ASSUME WriteBoundsAssumption == MaxWrites \in Nat /\ MaxSockets \in Nat

VARIABLES
  webSocket,      \* m_webSocket: 0 for NULL, else which socket it is
  handshake,      \* how the socket's handshake stands: done, the socket gets
                  \* WRITEABLE callbacks; failed, it is destroyed
  sockets,        \* sockets made so far
  writeBuffer,    \* messages of m_writeBuffer
  writtenBuffer,  \* messages of m_writtenBuffer that are still to be sent
  wantWrite,      \* m_wantWrite
  sending,        \* the service thread is in the loop of onWrite
  pc,             \* where each thread is in write
  calls,          \* calls of write each thread has made
  sent,           \* messages handed to lws_write, in order
  crashed         \* libwebsockets was called with a socket that is not there

writeVars == <<webSocket, handshake, sockets, writeBuffer, writtenBuffer, wantWrite,
               sending, pc, calls, sent, crashed>>

Writers == Threads \union {Service}
Messages == Writers \X (1..MaxWrites)

WriteInit ==
  /\ webSocket = 0
  /\ handshake = "pending"
  /\ sockets = 0
  /\ writeBuffer = <<>>
  /\ writtenBuffer = <<>>
  /\ wantWrite = FALSE
  /\ sending = FALSE
  /\ pc = [w \in Writers |-> "idle"]
  /\ calls = [w \in Writers |-> 0]
  /\ sent = <<>>
  /\ crashed = FALSE

-----------------------------------------------------------------------------
\* write(buffer, size)

\* A handler's write happens outside the loop of onWrite.
MayRun(w) == w = Service => ~sending

\* The check at the top: without a socket write returns -1.
Write(w) ==
  /\ pc[w] = "idle"
  /\ MayRun(w)
  /\ calls[w] < MaxWrites
  /\ calls' = [calls EXCEPT ![w] = @ + 1]
  /\ pc' = [pc EXCEPT ![w] = IF webSocket # 0 THEN "append" ELSE "idle"]
  /\ UNCHANGED <<webSocket, handshake, sockets, writeBuffer, writtenBuffer,
                 wantWrite, sending, sent, crashed>>

\* The critical section of write.
AppendMessage(w) ==
  /\ pc[w] = "append"
  /\ writeBuffer' = Append(writeBuffer, <<w, calls[w]>>)
  /\ wantWrite' = TRUE
  /\ pc' = [pc EXCEPT ![w] = "wake"]
  /\ UNCHANGED <<webSocket, handshake, sockets, writtenBuffer, sending, calls,
                 sent, crashed>>

\* lws_cancel_service_pt(m_webSocket): m_webSocket is read again.  NULL stops the
\* program; the memory of a destroyed socket may still be readable.
Wake(w) ==
  /\ pc[w] = "wake"
  /\ pc' = [pc EXCEPT ![w] = "idle"]
  /\ crashed' \in {webSocket = 0, webSocket = 0 \/ handshake = "failed"}
  /\ UNCHANGED <<webSocket, handshake, sockets, writeBuffer, writtenBuffer,
                 wantWrite, sending, calls, sent>>

-----------------------------------------------------------------------------
\* The service thread.

Waiting == ~sending /\ pc[Service] = "idle"

\* Mutant: the flag is left for the end of the loop to clear.
MutClearLate ==
  /\ Waiting /\ handshake = "done" /\ wantWrite
  /\ writeBuffer' = writtenBuffer
  /\ writtenBuffer' = writeBuffer
  /\ sending' = TRUE
  /\ UNCHANGED <<webSocket, handshake, sockets, wantWrite, pc, calls, sent, crashed>>

\* LWS_CALLBACK_CLIENT_WRITEABLE with m_wantWrite set: onWrite swaps the buffers.
SwapBuffers ==
  /\ Waiting /\ handshake = "done" /\ wantWrite
  /\ writeBuffer' = writtenBuffer
  /\ writtenBuffer' = writeBuffer
  /\ wantWrite' = FALSE
  /\ sending' = TRUE
  /\ UNCHANGED <<webSocket, handshake, sockets, pc, calls, sent, crashed>>

\* One turn of the loop: onMessageSent, lws_write.
SendMessage ==
  /\ sending
  /\ writtenBuffer # <<>>
  /\ sent' = Append(sent, Head(writtenBuffer))
  /\ writtenBuffer' = Tail(writtenBuffer)
  /\ UNCHANGED <<webSocket, handshake, sockets, writeBuffer, wantWrite, sending,
                 pc, calls, crashed>>

\* Mutant: the flag is reset once more after the loop.
MutFlagAtEnd ==
  /\ sending
  /\ writtenBuffer = <<>>
  /\ sending' = FALSE
  /\ wantWrite' = FALSE
  /\ UNCHANGED <<webSocket, handshake, sockets, writeBuffer, writtenBuffer,
                 pc, calls, sent, crashed>>

\* Mutant: both buffers are emptied after the loop.
MutEmptyBoth ==
  /\ sending
  /\ writtenBuffer = <<>>
  /\ sending' = FALSE
  /\ writeBuffer' = <<>>
  /\ UNCHANGED <<webSocket, handshake, sockets, writtenBuffer, wantWrite, pc, calls,
                 sent, crashed>>

\* The loop is over and m_writtenBuffer is empty again.
EndWrite ==
  /\ sending
  /\ writtenBuffer = <<>>
  /\ sending' = FALSE
  /\ UNCHANGED <<webSocket, handshake, sockets, writeBuffer, writtenBuffer,
                 wantWrite, pc, calls, sent, crashed>>

\* connect or reconnect, then run(): m_webSocket is set before the handshake.
Connect ==
  /\ Waiting
  /\ webSocket = 0
  /\ sockets < MaxSockets
  /\ sockets' = sockets + 1
  /\ webSocket' = sockets + 1
  /\ UNCHANGED <<handshake, writeBuffer, writtenBuffer, wantWrite, sending, pc,
                 calls, sent, crashed>>

\* LWS_CALLBACK_CLIENT_ESTABLISHED
Established ==
  /\ Waiting
  /\ webSocket # 0 /\ handshake = "pending"
  /\ handshake' = "done"
  /\ UNCHANGED <<webSocket, sockets, writeBuffer, writtenBuffer, wantWrite,
                 sending, pc, calls, sent, crashed>>

\* LWS_CALLBACK_CLIENT_CONNECTION_ERROR: the socket is destroyed, and nothing
\* resets m_webSocket, so that connect will not make another.
ConnectFailed ==
  /\ Waiting
  /\ webSocket # 0 /\ handshake = "pending"
  /\ handshake' = "failed"
  /\ UNCHANGED <<webSocket, sockets, writeBuffer, writtenBuffer, wantWrite,
                 sending, pc, calls, sent, crashed>>

\* LWS_CALLBACK_CLOSED: onClose leaves the buffers and the flag as they are.
OnClose ==
  /\ Waiting
  /\ handshake = "done"
  /\ webSocket' = 0
  /\ handshake' = "pending"
  /\ UNCHANGED <<sockets, writeBuffer, writtenBuffer, wantWrite, sending, pc,
                 calls, sent, crashed>>

-----------------------------------------------------------------------------

WriteNext ==
  /\ ~crashed
  /\ \/ \E w \in Writers : Write(w) \/ AppendMessage(w) \/ Wake(w)
     \/ SwapBuffers \/ SendMessage \/ EndWrite
     \/ Connect \/ Established \/ ConnectFailed \/ OnClose

WriteSpec == WriteInit /\ [][WriteNext]_writeVars

Alive(A) == ~crashed /\ A

\* The service thread keeps running: run() asks for a WRITEABLE callback of each
\* connection after every lws_service.  A handshake ends, one way or the other:
\* libwebsockets gives up on it after a time.
FairWriteSpec ==
  /\ WriteSpec
  /\ \A w \in Writers : WF_writeVars(Alive(AppendMessage(w))) /\ WF_writeVars(Alive(Wake(w)))
  /\ WF_writeVars(Alive(SwapBuffers)) /\ WF_writeVars(Alive(SendMessage))
  /\ WF_writeVars(Alive(EndWrite))
  /\ WF_writeVars(Alive(Established \/ ConnectFailed))

-----------------------------------------------------------------------------

\* Types; the service thread is in one place at a time.
TypeOK ==
  /\ webSocket \in 0..MaxSockets
  /\ handshake \in {"pending", "done", "failed"} /\ (handshake # "pending" => webSocket # 0)
  /\ sockets \in 0..MaxSockets
  /\ writeBuffer \in Seq(Messages)
  /\ writtenBuffer \in Seq(Messages)
  /\ wantWrite \in BOOLEAN
  /\ sending \in BOOLEAN /\ (sending => pc[Service] = "idle")
  /\ pc \in [Writers -> {"idle", "append", "wake"}]
  /\ calls \in [Writers -> 0..MaxWrites]
  /\ sent \in Seq(Messages)
  /\ crashed \in BOOLEAN
  /\ \A w \in Writers : pc[w] = "append" => calls[w] > 0

\* m_wantWrite is read without the mutex, and says what it should whenever it is
\* read: it is set exactly while messages wait in m_writeBuffer, and outside the
\* loop m_writtenBuffer is empty, so that a swap never brings old messages back.
FlagMatchesBuffer ==
  /\ wantWrite <=> writeBuffer # <<>>
  /\ ~sending => writtenBuffer = <<>>

\* The two buffers, the swap and the flag together are one FIFO queue: every
\* message of a write that got past the check is sent at most once and in the
\* order of the critical sections, over reconnections too.
Queue == INSTANCE Outbox WITH outbox <- writtenBuffer \o writeBuffer
ImplementsOutbox == Queue!Spec

\* A message whose write got past the check is sent, unless the connection closes
\* first or its handshake fails: the flag set before the handshake is done, during
\* a swap or during the loop is not lost.
WaitingIsSent ==
  \A w \in Writers, n \in 1..MaxWrites :
    (pc[w] = "append" /\ calls[w] = n) ~>
      \/ crashed \/ webSocket = 0 \/ handshake = "failed"
      \/ \E i \in DOMAIN sent : sent[i] = <<w, n>>
===============================================================================
