---------------------------- MODULE KprWebSocket ----------------------------
(***************************************************************************)
(* A WebSocket connection: the endpoint of new WebSocket(url), the endpoint *)
(* that a WebSocketServer makes for it, and the socket between them.  Each  *)
(* end has a shell thread: its event queue, the passes of its reader        *)
(* (KprSocketReaderDataReader) and the scripts that run in the callbacks.   *)
(*                                                                          *)
(* A native function that calls a script is cut there: what it does         *)
(* afterwards is the frame it leaves on the stack of its thread, and        *)
(* Return... takes it up when the script is done.  The stream carries whole *)
(* frames; of a message it carries its number.                              *)
(***************************************************************************)
EXTENDS Integers, Sequences, SequencesExt

CONSTANTS
  Faults,    \* what may go wrong, one of: "none", "unreachable", "refused",
             \* "rejected", "break", "write", "drop", "stop"
  MaxCalls   \* bound: calls of send and close by the scripts, and pings of the server

ASSUME ConstantsAssumption == MaxCalls \in Nat

End == {"client", "server"}
Peer(e) == IF e = "client" THEN "server" ELSE "client"

VARIABLES
  ep,       \* KprWebSocketEndpointRecord of each end
  freed,    \* whether it has been disposed of
  wrapper,  \* its WebSocket object, xsRemember and xsForget
  queue,    \* the event queue of its shell thread
  stack,    \* what its shell thread will do when the script returns
  wire,     \* what its socket will receive
  backlog,  \* writer->pendingData
  dial,     \* FskNetConnectToHost
  server,   \* KPR_WebSocketServerRecord
  listed,   \* the server's endpoint is in server->clients
  dropped,  \* its network interface was dropped
  said,     \* messages accepted from the script of an end
  heard,    \* messages given to it, in order
  closes,   \* how often onclose was called
  errored,  \* whether onerror was called while there was a connection
  fault,    \* what goes wrong in this behaviour, "none" once it broke
  lost,     \* the kinds of the frames of an end that a failing write dropped
  calls

netVars == <<wire, backlog, dial>>
serverVars == <<server, listed, dropped>>
logVars == <<said, heard, closes, errored>>
boundVars == <<fault, lost, calls>>
vars == <<ep, freed, wrapper, queue, stack, netVars, serverVars, logVars, boundVars>>

Frame(kind) == [kind |-> kind, n |-> 0]
Text(n) == [kind |-> "text", n |-> n]
Sent == {"text", "ping", "pong", "close"}

Ended(w) == w # <<>> /\ Last(w).kind = "fin"
Fits(e) == ep[e].socket # "none" /\ ~Ended(wire[e])

\* KprWebSocketEndpointNew; a client is asked to connect at once.
Endpoint0 ==
  [state |-> "connecting", socket |-> "none", cancelConnection |-> FALSE,
   closeWasSent |-> FALSE, closeWasReceived |-> FALSE, cleanClose |-> FALSE,
   pendingSendCount |-> 0, disposeRequested |-> FALSE]

Init ==
  /\ ep = [e \in End |-> Endpoint0]
  /\ freed = [e \in End |-> FALSE]
  /\ wrapper = [e \in End |-> IF e = "client" THEN "remembered" ELSE "none"]
  /\ queue = [e \in End |-> IF e = "client" THEN <<Frame("start")>> ELSE <<>>]
  /\ stack = [e \in End |-> <<>>]
  /\ wire = [e \in End |-> <<>>] /\ backlog = [e \in End |-> <<>>]
  /\ dial = "idle" /\ server = "live" /\ listed = FALSE /\ dropped = FALSE
  /\ said = [e \in End |-> 0] /\ heard = [e \in End |-> <<>>]
  /\ closes = [e \in End |-> 0] /\ errored = [e \in End |-> FALSE]
  /\ fault \in Faults /\ lost = [e \in End |-> {}] /\ calls = 0

-----------------------------------------------------------------------------
(* Parts of the steps.  r is the record as the function has left it so far, *)
(* rest the stack its frame is put on.                                      *)

\* The destructor clears the callbacks of the script.  closingCallback it leaves:
\* a server end whose interface was dropped may still call it, with the record
\* of its freed object, and no script hears of it.
Callable(e) == wrapper[e] \in {"remembered", "forgotten"}

SetEp(e, r) == ep' = [ep EXCEPT ![e] = r]
SetStack(e, s) == stack' = [stack EXCEPT ![e] = s]
Below(e) == Front(stack[e])
Post(e, f) == queue' = [queue EXCEPT ![e] = Append(@, f)]
\* self->pendingSendCount, a UInt8.
More(r) == [r EXCEPT !.pendingSendCount = (@ + 1) % 256]
\* Mutant: a send that is given up is taken off once more.
Fewer_twice(r) == [r EXCEPT !.pendingSendCount = IF r.disposeRequested THEN @ - 2 ELSE @ - 1]
Fewer(r) == [r EXCEPT !.pendingSendCount = (@ + 255) % 256]

CallError(e, frame, rest) ==
  /\ errored' = [errored EXCEPT ![e] = @ \/ (Callable(e) /\ ep[e].socket = "endpoint")]
  /\ SetStack(e, Append(rest, frame))

\* The peer is told, and may lose what it has not received yet when this end
\* closes without having read everything (a reset instead of an end).
FskNetSocketClose(e) ==
  LET p == Peer(e)
      kept == IF wire[e] = <<>> THEN {Len(wire[p])} ELSE 0 .. Len(wire[p])
  IN  \E n \in kept :
        wire' = [wire EXCEPT ![e] = <<>>,
                   ![p] = IF Fits(p) THEN SubSeq(@, 1, n) \o <<Frame("fin")>> ELSE @]

Closed(r) == [r EXCEPT !.socket = "none", !.state = "closed"]

CallClose(e, rest) ==
  /\ closes' = [closes EXCEPT ![e] = IF Callable(e) THEN @ + 1 ELSE @]
  /\ SetStack(e, Append(rest, "close"))
  /\ listed' = (listed /\ e # "server")

Disconnect(e, r, rest) ==
  /\ SetEp(e, Closed(r))
  /\ FskNetSocketClose(e)
  /\ backlog' = [backlog EXCEPT ![e] = <<>>]
  /\ CallClose(e, rest)

\* KprWebSocketEndpointClose, to its first callback.
Closing(r) ==
  CASE r.state = "connecting" -> [r EXCEPT !.state = "closing", !.cancelConnection = TRUE]
    [] r.state = "open" -> [r EXCEPT !.state = "closing"]
    [] OTHER -> r

Close(e, rest) ==
  /\ SetEp(e, Closing(ep[e]))
  /\ SetStack(e, IF ep[e].state = "open" THEN Append(rest, "closing") ELSE rest)

Takes(e) == ~ep[e].closeWasSent /\ ep[e].socket = "endpoint"

SendRawFrame(e, f, rest) ==
  IF Takes(e)
  THEN /\ Post(e, f) /\ SetEp(e, More(ep[e]))
       /\ SetStack(e, rest) /\ UNCHANGED errored
  ELSE CallError(e, "error", rest) /\ UNCHANGED <<ep, queue>>

-----------------------------------------------------------------------------
(* Scripts. *)

Idle(e) == stack[e] = <<>>
Top(e, frame) == ~Idle(e) /\ Last(stack[e]) = frame

\* closingCallback is only set by a server, for its clients.
Scripted(e) ==
  /\ Callable(e)
  /\ \/ Idle(e)
     \/ \E f \in {"connect", "message", "error", "closed", "failed", "close"} : Top(e, f)
     \/ Top(e, "closing") /\ e = "server" /\ server = "live"

KPR_websocketclient_send(e) ==
  /\ Scripted(e) /\ calls < MaxCalls
  /\ ep[e].state # "connecting"
  /\ calls' = calls + 1
  /\ SendRawFrame(e, Text(said[e] + 1), stack[e])
  /\ said' = [said EXCEPT ![e] = IF Takes(e) THEN @ + 1 ELSE @]
  /\ UNCHANGED <<freed, wrapper, netVars, serverVars, heard, closes, fault, lost>>

KPR_websocketclient_close(e) ==
  /\ Scripted(e) /\ calls < MaxCalls
  /\ ep[e].state \in {"connecting", "open"}
  /\ calls' = calls + 1
  /\ Close(e, stack[e])
  /\ UNCHANGED <<freed, wrapper, queue, netVars, serverVars, logVars, fault, lost>>

\* The collector destroys an object that is no longer remembered.
KPR_websocketclient(e) ==
  /\ wrapper[e] = "forgotten" /\ Idle(e)
  /\ wrapper' = [wrapper EXCEPT ![e] = "collected"]
  /\ Post(e, Frame("dispose"))
  /\ listed' = (listed /\ e # "server")
  /\ UNCHANGED <<ep, freed, stack, netVars, server, dropped, logVars, boundVars>>

-----------------------------------------------------------------------------
(* The connection is made. *)

\* A write fails though the connection is there, and what it should write is dropped.
Drops(e, kinds) == fault = "write" /\ lost' = [lost EXCEPT ![e] = @ \union kinds]

StartConnect ==
  /\ Idle("client") /\ queue["client"] # <<>> /\ Head(queue["client"]).kind = "start"
  /\ queue' = [queue EXCEPT !["client"] = Tail(@)]
  /\ dial' = "calling"
  /\ UNCHANGED <<ep, freed, wrapper, stack, wire, backlog, serverVars, logVars, boundVars>>

Answered == dial = "calling" /\ Idle("client")

\* The name does not resolve: there is no socket, and onerror is all.
ConnectCallback_none ==
  /\ Answered /\ fault = "unreachable"
  /\ dial' = "failed"
  /\ CallError("client", "error", <<>>)
  /\ UNCHANGED <<ep, freed, wrapper, queue, wire, backlog, serverVars, said, heard, closes,
                 boundVars>>

\* Connected: the server has accepted (KprWebSocketServerAcceptNewConnection).
ConnectCallback ==
  /\ Answered /\ server # "stopped" /\ ~ep["client"].cancelConnection
  /\ dial' = "done"
  /\ ep' = [ep EXCEPT !["client"].socket = "endpoint", !["server"].socket = "request"]
  /\ wire' = [wire EXCEPT !["server"] = <<Frame("request")>>]
  /\ UNCHANGED <<freed, wrapper, queue, stack, backlog, serverVars, logVars, boundVars>>

\* Nobody listens: the request cannot be written.
ConnectCallback_refused ==
  /\ Answered /\ (server = "stopped" \/ fault = "refused")
  /\ ~ep["client"].cancelConnection
  /\ dial' = "done"
  /\ ep' = [ep EXCEPT !["client"].socket = "endpoint"]
  /\ wire' = [wire EXCEPT !["client"] = <<Frame("fin")>>]
  /\ CallError("client", "failed", <<>>)
  /\ UNCHANGED <<freed, wrapper, queue, backlog, serverVars, said, heard, closes, boundVars>>

\* Connected, but the request cannot be written.
ConnectCallback_unsent ==
  /\ Answered /\ server # "stopped" /\ ~ep["client"].cancelConnection
  /\ Drops("client", {"request"})
  /\ dial' = "done"
  /\ ep' = [ep EXCEPT !["client"].socket = "endpoint", !["server"].socket = "request"]
  /\ CallError("client", "failed", <<>>)
  /\ UNCHANGED <<freed, wrapper, queue, wire, backlog, serverVars, said, heard, closes, fault,
                 calls>>

\* The script closed meanwhile: the new socket is closed again.
ConnectCallback_cancelled ==
  /\ Answered /\ ep["client"].cancelConnection
  /\ dial' = "done"
  /\ SetEp("client", Closed(ep["client"]))
  /\ CallClose("client", <<>>)
  /\ UNCHANGED <<freed, wrapper, queue, wire, backlog, server, dropped, said, heard, errored,
                 boundVars>>

\* KprWebSocketServerHandleRequest: the response, then onconnect with a new
\* WebSocket.
HandleRequest ==
  /\ ep["server"].socket = "request" /\ Idle("server") /\ server = "live"
  /\ wire["server"] # <<>> /\ Head(wire["server"]).kind = "request"
  /\ wire' = [wire EXCEPT !["server"] = Tail(@),
                !["client"] = IF Fits("client") THEN Append(@, Frame("response")) ELSE @]
  /\ wrapper' = [wrapper EXCEPT !["server"] = "remembered"]
  /\ SetStack("server", <<"connect">>)
  /\ UNCHANGED <<ep, freed, queue, backlog, dial, serverVars, logVars, boundVars>>

PeerGone(e) == ep[Peer(e)].socket = "none" \/ Ended(wire[e]) \/ Ended(wire[Peer(e)])

\* Another server, which does not upgrade the connection, or a response that
\* cannot be written: the request is disposed of with its socket.
RejectRequest ==
  /\ ep["server"].socket = "request" /\ Idle("server") /\ server = "live"
  /\ wire["server"] # <<>> /\ Head(wire["server"]).kind = "request"
  /\ \E answer \in {<<Frame("refusal"), Frame("fin")>>, <<Frame("fin")>>} :
       /\ IF Head(answer).kind = "refusal" THEN fault = "rejected"
          ELSE fault = "write" \/ PeerGone("server")
       /\ wire' = [wire EXCEPT !["server"] = <<>>,
                     !["client"] = IF Fits("client") THEN @ \o answer ELSE @]
  /\ ep' = [ep EXCEPT !["server"].socket = "none"]
  /\ UNCHANGED <<freed, wrapper, queue, stack, backlog, dial, serverVars, logVars, boundVars>>

\* onconnect has given the object a callback: KprWebSocketEndpointOpenWithSocket.
ReturnConnect ==
  /\ Top("server", "connect")
  /\ SetEp("server", [ep["server"] EXCEPT !.socket = "endpoint", !.state = "open"])
  /\ Post("server", Frame("open"))
  /\ listed' = TRUE
  /\ SetStack("server", Below("server"))
  /\ UNCHANGED <<freed, wrapper, netVars, server, dropped, logVars, boundVars>>

\* It has not: the socket is closed.
ReturnUnhandled ==
  /\ Top("server", "connect")
  /\ SetEp("server", [ep["server"] EXCEPT !.socket = "none"])
  /\ FskNetSocketClose("server")
  /\ SetStack("server", Below("server"))
  /\ UNCHANGED <<freed, wrapper, queue, backlog, dial, serverVars, logVars, boundVars>>

-----------------------------------------------------------------------------
(* The event queue. *)

Called(e, kinds) == Idle(e) /\ queue[e] # <<>> /\ Head(queue[e]).kind \in kinds
Dequeue(e) == queue' = [queue EXCEPT ![e] = Tail(@)]

\* KPR_WebSocketClient_OpenDeferred
OpenDeferred(e) ==
  /\ Called(e, {"open"}) /\ Dequeue(e)
  /\ SetStack(e, <<"message">>)
  /\ UNCHANGED <<ep, freed, wrapper, netVars, serverVars, logVars, boundVars>>

Free(e, r) ==
  /\ freed' = [freed EXCEPT ![e] = TRUE]
  /\ IF r.socket = "endpoint"
     THEN SetEp(e, Closed(r)) /\ FskNetSocketClose(e) /\ backlog' = [backlog EXCEPT ![e] = <<>>]
     ELSE SetEp(e, r) /\ UNCHANGED <<wire, backlog>>

\* Mutant: deferred sends do not keep the endpoint.
EndpointDispose_now(e) ==
  /\ Called(e, {"dispose"}) /\ Dequeue(e)
  /\ Free(e, ep[e])
  /\ UNCHANGED <<wrapper, stack, dial, serverVars, logVars, boundVars>>

EndpointDispose(e) ==
  /\ Called(e, {"dispose"}) /\ Dequeue(e)
  /\ IF ep[e].pendingSendCount > 0
     THEN SetEp(e, [ep[e] EXCEPT !.disposeRequested = TRUE]) /\ UNCHANGED <<freed, wire, backlog>>
     ELSE Free(e, ep[e])
  /\ UNCHANGED <<wrapper, stack, dial, serverVars, logVars, boundVars>>

\* KprWebSocketEndpointSendBytesDeferred when the endpoint is to be disposed of.
SendDisposed(e) ==
  LET r == Fewer(ep[e])
  IN  /\ Called(e, Sent) /\ Dequeue(e)
      /\ r.disposeRequested
      /\ IF r.pendingSendCount = 0 THEN Free(e, r)
         ELSE SetEp(e, r) /\ UNCHANGED <<freed, wire, backlog>>
      /\ UNCHANGED <<wrapper, stack, dial, serverVars, logVars, boundVars>>

Arrives(e, frames) ==
  wire' = IF Fits(Peer(e)) THEN [wire EXCEPT ![Peer(e)] = @ \o frames] ELSE wire

\* It is written, or put behind what is pending, or becomes pending.
\* Mutant: what is pending is not looked at.
SendBytes_ahead(e) ==
  /\ Called(e, Sent) /\ Dequeue(e)
  /\ ~ep[e].disposeRequested
  /\ SetEp(e, Fewer(ep[e]))
  /\ IF ep[e].socket # "endpoint" THEN UNCHANGED <<wire, backlog>>
     ELSE \/ Arrives(e, <<Head(queue[e])>>) /\ UNCHANGED backlog
          \/ /\ backlog[e] = <<>> /\ fault = "write"
             /\ backlog' = [backlog EXCEPT ![e] = Append(@, Head(queue[e]))]
             /\ UNCHANGED wire
  /\ UNCHANGED <<freed, wrapper, stack, dial, serverVars, logVars, boundVars>>

SendBytes(e) ==
  /\ Called(e, Sent) /\ Dequeue(e)
  /\ ~ep[e].disposeRequested
  /\ SetEp(e, Fewer(ep[e]))
  /\ IF ep[e].socket # "endpoint" THEN UNCHANGED <<wire, backlog>>
     ELSE \/ backlog[e] = <<>> /\ Arrives(e, <<Head(queue[e])>>) /\ UNCHANGED backlog
          \/ /\ backlog[e] # <<>> \/ fault = "write"
             /\ backlog' = [backlog EXCEPT ![e] = Append(@, Head(queue[e]))]
             /\ UNCHANGED wire
  /\ UNCHANGED <<freed, wrapper, stack, dial, serverVars, logVars, boundVars>>

\* The write fails: KprWebSocket_onWriteError with kFskErrConnectionClosed.
SendBytesFails(e) ==
  /\ Called(e, Sent) /\ Dequeue(e)
  /\ ~ep[e].disposeRequested /\ ep[e].socket = "endpoint" /\ backlog[e] = <<>>
  /\ PeerGone(e)
  /\ SetEp(e, Fewer(ep[e]))
  /\ CallError(e, "closed", <<>>)
  /\ UNCHANGED <<freed, wrapper, netVars, serverVars, said, heard, closes, boundVars>>

\* KprWebSocketHandleError with another error: an end that is closing already
\* goes on as if nothing had happened.
HandleError(e) ==
  IF ep[e].state \in {"connecting", "open"} THEN CallError(e, "failed", <<>>)
  ELSE SetStack(e, <<>>) /\ UNCHANGED errored

\* The write fails with such an error.
SendBytesError(e) ==
  /\ Called(e, Sent) /\ Dequeue(e)
  /\ ~ep[e].disposeRequested /\ ep[e].socket = "endpoint" /\ backlog[e] = <<>>
  /\ Drops(e, {Head(queue[e]).kind})
  /\ SetEp(e, Fewer(ep[e]))
  /\ HandleError(e)
  /\ UNCHANGED <<freed, wrapper, netVars, serverVars, said, heard, closes, fault, calls>>

\* The socket is writable again: some of what is pending is written.
KprSocketWriterDataWriter(e) ==
  /\ Idle(e) /\ backlog[e] # <<>>
  /\ \E n \in 1 .. Len(backlog[e]) :
       /\ Arrives(e, SubSeq(backlog[e], 1, n))
       /\ backlog' = [backlog EXCEPT ![e] = SubSeq(@, n + 1, Len(@))]
  /\ UNCHANGED <<ep, freed, wrapper, queue, stack, dial, serverVars, logVars, boundVars>>

DataWriterFails(e) ==
  /\ Idle(e) /\ backlog[e] # <<>> /\ PeerGone(e)
  /\ backlog' = [backlog EXCEPT ![e] = <<>>]
  /\ CallError(e, "closed", <<>>)
  /\ UNCHANGED <<ep, freed, wrapper, queue, wire, dial, serverVars, said, heard, closes, boundVars>>

DataWriterError(e) ==
  /\ Idle(e) /\ backlog[e] # <<>>
  /\ Drops(e, {backlog[e][i].kind : i \in DOMAIN backlog[e]})
  /\ backlog' = [backlog EXCEPT ![e] = <<>>]
  /\ HandleError(e)
  /\ UNCHANGED <<ep, freed, wrapper, queue, wire, dial, serverVars, said, heard, closes, fault,
                 calls>>

-----------------------------------------------------------------------------
(* The reader: a pass reads until nothing is left or the reader is disposed *)
(* of, and nothing else of the thread runs before it ends.                  *)

Pass == <<"pass">>

Reads(e, kinds) ==
  /\ ep[e].socket = "endpoint" /\ (Idle(e) \/ Top(e, "pass"))
  /\ wire[e] # <<>> /\ Head(wire[e]).kind \in kinds

Consumed(e) == wire' = [wire EXCEPT ![e] = Tail(@)]

EndPass(e) ==
  /\ Top(e, "pass")
  /\ SetStack(e, Below(e))
  /\ UNCHANGED <<ep, freed, wrapper, queue, netVars, serverVars, logVars, boundVars>>

HandleResponse(e) ==
  /\ Reads(e, {"response"}) /\ ~ep[e].cancelConnection
  /\ Consumed(e)
  /\ SetEp(e, [ep[e] EXCEPT !.state = "open"])
  /\ Post(e, Frame("open"))
  /\ SetStack(e, Pass)
  /\ UNCHANGED <<freed, wrapper, backlog, dial, serverVars, logVars, boundVars>>

\* The connection was cancelled, or not upgraded.
HandleRefusal(e) ==
  /\ Reads(e, {"response", "refusal"})
  /\ Head(wire[e]).kind = "refusal" \/ ep[e].cancelConnection
  /\ Disconnect(e, ep[e], Pass)
  /\ UNCHANGED <<freed, wrapper, queue, dial, server, dropped, said, heard, errored, boundVars>>

HandleTextMessage(e) ==
  /\ Reads(e, {"text"}) /\ Consumed(e)
  /\ heard' = [heard EXCEPT ![e] = IF Callable(e) THEN Append(@, Head(wire[e]).n) ELSE @]
  /\ SetStack(e, Append(Pass, "message"))
  /\ UNCHANGED <<ep, freed, wrapper, queue, backlog, dial, serverVars, said, closes, errored,
                 boundVars>>

HandlePing(e) ==
  /\ Reads(e, {"ping"}) /\ Consumed(e)
  /\ SendRawFrame(e, Frame("pong"), Pass)
  /\ UNCHANGED <<freed, wrapper, backlog, dial, serverVars, said, heard, closes, boundVars>>

HandlePong(e) ==
  /\ Reads(e, {"pong"}) /\ Consumed(e)
  /\ SetStack(e, Pass)
  /\ UNCHANGED <<ep, freed, wrapper, queue, backlog, dial, serverVars, logVars, boundVars>>

Received(e) == [ep[e] EXCEPT !.closeWasReceived = TRUE]

\* Mutant: the error the reader is given makes it report the end once more.
HandleCloseFrame_twice(e) ==
  /\ Reads(e, {"close"}) /\ ep[e].closeWasSent
  /\ Disconnect(e, Received(e), Append(Pass, "closed"))
  /\ UNCHANGED <<freed, wrapper, queue, dial, server, dropped, said, heard, errored, boundVars>>

HandleCloseFrame(e) ==
  /\ Reads(e, {"close"}) /\ ep[e].closeWasSent
  /\ Disconnect(e, Received(e), Pass)
  /\ UNCHANGED <<freed, wrapper, queue, dial, server, dropped, said, heard, errored, boundVars>>

\* The other end has closed: KprWebSocketEndpointClose answers.
AnswerCloseFrame(e) ==
  /\ Reads(e, {"close"}) /\ ~ep[e].closeWasSent
  /\ Consumed(e)
  /\ SetEp(e, [Received(e) EXCEPT !.state = "closing"])
  /\ SetStack(e, Append(Pass, "closing"))
  /\ UNCHANGED <<freed, wrapper, queue, backlog, dial, serverVars, logVars, boundVars>>

\* An error ends the pass (KprWebSocket_onReadError, KprWebSocketHandleError).
\* Mutant: an endpoint that is closing is left to its handshake.
ReadClosed_open(e) ==
  /\ Reads(e, {"fin"}) /\ Consumed(e)
  /\ IF ep[e].state \in {"connecting", "open"} THEN CallError(e, "closed", <<>>)
     ELSE SetStack(e, <<>>) /\ UNCHANGED errored
  /\ UNCHANGED <<ep, freed, wrapper, queue, backlog, dial, serverVars, said, heard, closes,
                 boundVars>>

\* The end of the stream:
ReadClosed(e) ==
  /\ Reads(e, {"fin"}) /\ Consumed(e)
  /\ CallError(e, "closed", <<>>)
  /\ UNCHANGED <<ep, freed, wrapper, queue, backlog, dial, serverVars, said, heard, closes,
                 boundVars>>

\* Another error of the socket:
ReadFails(e) ==
  /\ Reads(e, {"fail"}) /\ Consumed(e)
  /\ HandleError(e)
  /\ UNCHANGED <<ep, freed, wrapper, queue, backlog, dial, serverVars, said, heard, closes,
                 boundVars>>

-----------------------------------------------------------------------------
(* Scripts return. *)

ReturnScript(e) ==
  /\ Top(e, "message") \/ Top(e, "error")
  /\ SetStack(e, Below(e))
  /\ UNCHANGED <<ep, freed, wrapper, queue, netVars, serverVars, logVars, boundVars>>

ReturnClosed(e) ==
  /\ Top(e, "closed")
  /\ Disconnect(e, ep[e], Below(e))
  /\ UNCHANGED <<freed, wrapper, queue, dial, server, dropped, said, heard, errored, boundVars>>

ReturnFailed(e) ==
  /\ Top(e, "failed")
  /\ Close(e, Below(e))
  /\ UNCHANGED <<freed, wrapper, queue, netVars, serverVars, logVars, boundVars>>

\* KprWebSocketEndpointStartClosingHandshake after its callback: the close frame
\* is posted like any other, and an end that has received one disconnects.
ReturnClosing(e) ==
  LET r == [More(ep[e]) EXCEPT !.closeWasSent = TRUE]
  IN  /\ Top(e, "closing")
      /\ Post(e, Frame("close"))
      /\ IF r.closeWasReceived
         THEN Disconnect(e, [r EXCEPT !.cleanClose = TRUE], Below(e))
         ELSE SetEp(e, r) /\ SetStack(e, Below(e)) /\ UNCHANGED <<wire, backlog, listed, closes>>
      /\ UNCHANGED <<freed, wrapper, dial, server, dropped, said, heard, errored, boundVars>>

\* KPR_WebSocketClient_onClose and KPR_WebSocketServer_onClientClose: xsForget.
ReturnClose(e) ==
  /\ Top(e, "close")
  /\ wrapper' = [wrapper EXCEPT ![e] = IF @ = "remembered" THEN "forgotten" ELSE @]
  /\ SetStack(e, Below(e))
  /\ UNCHANGED <<ep, freed, queue, netVars, serverVars, logVars, boundVars>>

-----------------------------------------------------------------------------
(* The server, and the network. *)

KPR_websocketserver_timeToPing ==
  /\ Idle("server") /\ server = "live" /\ listed /\ calls < MaxCalls
  /\ ep["server"].state = "open"
  /\ calls' = calls + 1
  /\ SendRawFrame("server", Frame("ping"), <<>>)
  /\ UNCHANGED <<freed, wrapper, netVars, serverVars, said, heard, closes, fault, lost>>

KPR_WebSocketServer_onInterfaceDrop ==
  /\ fault = "drop" /\ Idle("server") /\ server = "live" /\ listed
  /\ dropped' = TRUE
  /\ CallClose("server", <<>>)
  /\ UNCHANGED <<ep, freed, wrapper, queue, netVars, server, said, heard, errored, boundVars>>

\* The collector destroys the server: its clients are closed, without a callback.
KPR_websocketserver ==
  LET open == listed /\ ep["server"].state = "open"
  IN  /\ fault = "stop" /\ Idle("server") /\ server = "live"
      /\ server' = "collected" /\ listed' = FALSE
      /\ ep' = IF open
               THEN [ep EXCEPT !["server"] =
                       [More(@) EXCEPT !.state = "closing", !.closeWasSent = TRUE]]
               ELSE ep
      /\ queue' = [queue EXCEPT !["server"] =
                     @ \o (IF open THEN <<Frame("close")>> ELSE <<>>) \o <<Frame("stop")>>]
      /\ UNCHANGED <<freed, wrapper, stack, netVars, dropped, logVars, boundVars>>

KprWebSocketServerDispose ==
  /\ Called("server", {"stop"}) /\ Dequeue("server")
  /\ server' = "stopped"
  /\ IF ep["server"].socket = "request"
     THEN /\ SetEp("server", [ep["server"] EXCEPT !.socket = "none"])
          /\ FskNetSocketClose("server")
     ELSE UNCHANGED <<ep, wire>>
  /\ UNCHANGED <<freed, wrapper, stack, backlog, dial, listed, dropped, logVars, boundVars>>

\* The connection breaks: what was on its way is lost.  One end is told by the
\* end of its stream, the other may be given another error first.
Break ==
  /\ fault = "break" /\ fault' = "none"
  /\ \A e \in End : Fits(e)
  /\ \E e \in End, told \in {<<>>, <<Frame("fail")>>} :
       wire' = [wire EXCEPT ![e] = told \o <<Frame("fin")>>, ![Peer(e)] = <<Frame("fin")>>]
  /\ UNCHANGED <<ep, freed, wrapper, queue, stack, backlog, dial, serverVars, logVars, lost, calls>>

-----------------------------------------------------------------------------

Script(e) ==
  KPR_websocketclient_send(e) \/ KPR_websocketclient_close(e) \/ KPR_websocketclient(e)

Connects ==
  \/ ConnectCallback_none \/ ConnectCallback
  \/ ConnectCallback_refused \/ ConnectCallback_unsent \/ ConnectCallback_cancelled

Accepts ==
  HandleRequest \/ RejectRequest \/ ReturnConnect \/ ReturnUnhandled \/ KprWebSocketServerDispose

Calls(e) ==
  \/ OpenDeferred(e) \/ EndpointDispose(e) \/ SendDisposed(e) \/ SendBytes(e)
  \/ SendBytesFails(e) \/ SendBytesError(e) \/ KprSocketWriterDataWriter(e)
  \/ DataWriterFails(e) \/ DataWriterError(e)

Passes(e) ==
  \/ EndPass(e) \/ HandleResponse(e) \/ HandleRefusal(e) \/ HandleTextMessage(e)
  \/ HandlePing(e) \/ HandlePong(e) \/ HandleCloseFrame(e) \/ AnswerCloseFrame(e)
  \/ ReadClosed(e) \/ ReadFails(e)

Returns(e) ==
  \/ ReturnScript(e) \/ ReturnClosed(e) \/ ReturnFailed(e) \/ ReturnClosing(e) \/ ReturnClose(e)

Loop(e) == Calls(e) \/ Passes(e) \/ Returns(e)

Next ==
  \/ \E e \in End : Script(e) \/ Loop(e)
  \/ StartConnect \/ Connects \/ Accepts
  \/ KPR_websocketserver_timeToPing \/ KPR_WebSocketServer_onInterfaceDrop
  \/ KPR_websocketserver \/ Break

Spec == Init /\ [][Next]_vars

FairSpec ==
  /\ Spec
  /\ \A e \in End : WF_vars(Loop(e))
  /\ WF_vars(StartConnect) /\ WF_vars(Connects) /\ WF_vars(Accepts)

-----------------------------------------------------------------------------
(* Properties. *)

\* Every variable has its type (KprWebSocketEndpointRecord).
TypeOK ==
  /\ ep \in [End ->
       [state : {"connecting", "open", "closing", "closed"},
        socket : {"none", "request", "endpoint"}, cancelConnection : BOOLEAN,
        closeWasSent : BOOLEAN, closeWasReceived : BOOLEAN, cleanClose : BOOLEAN,
        pendingSendCount : 0 .. 255, disposeRequested : BOOLEAN]]
  /\ freed \in [End -> BOOLEAN] /\ errored \in [End -> BOOLEAN]
  /\ wrapper \in [End -> {"none", "remembered", "forgotten", "collected"}]
  /\ \A e \in End : /\ \A i \in DOMAIN queue[e] :
                         queue[e][i].kind \in Sent \union {"start", "open", "dispose", "stop"}
                    /\ \A i \in DOMAIN stack[e] :
                         stack[e][i] \in {"connect", "message", "error", "closed", "failed",
                                          "closing", "close", "pass"}
  /\ dial \in {"idle", "calling", "failed", "done"}
  /\ server \in {"live", "collected", "stopped"}
  /\ listed \in BOOLEAN /\ dropped \in BOOLEAN
  /\ lost \in [End -> SUBSET (Sent \union {"request"})]

\* Nothing that is posted, connecting or on the stack refers to an endpoint
\* that has been disposed of, although sends are deferred and the reader goes on
\* between the destructor and KprWebSocketEndpointDispose.  (An onopen that is
\* still posted refers to the record of the script object, not to the endpoint.)
NoFreed ==
  \A e \in End : freed[e] =>
    /\ \A i \in DOMAIN queue[e] : queue[e][i].kind \in {"open", "stop"}
    /\ e = "client" => dial = "done"
    /\ Idle(e) /\ ep[e].socket = "none" /\ backlog[e] = <<>>

\* When an end reports a clean close, its script has been given every message
\* the other end accepted: the close frame passes none of them, neither in the
\* event queue nor in the writer.  (A message whose write failed is dropped, and
\* the close frame that follows it is sent all the same; a lost ping, pong or
\* close frame costs no message.)
NothingLost ==
  \A e \in End : closes[e] > 0 /\ ep[e].cleanClose /\ ~dropped /\ "text" \notin lost[Peer(e)] =>
    heard[e] = [i \in 1 .. said[Peer(e)] |-> i]

\* onclose is called once, and no message is reported after it: the pass of
\* the reader in which it is called ends there.  (After an interface was
\* dropped the server reports the end of the connection again.)
CloseIsLast ==
  [][\A e \in End :
       (heard'[e] # heard[e] \/ closes'[e] # closes[e]) /\ ~(dropped /\ e = "server")
         => closes[e] = 0]_vars

\* Whoever has closed, was told of an error or has lost its peer is told of the
\* end by onclose, unless no connection could be made (then onerror is all), or
\* the request or the close frame of this very end could not be written: then it
\* waits for what its peer does.
Concerned(e) ==
  \/ errored[e]
  \/ ep[e].state = "closing" /\ (e = "client" \/ ep[e].socket = "endpoint")
  \/ ep[e].socket = "endpoint" /\ ep[Peer(e)].socket = "none"

Ends ==
  \A e \in End : Concerned(e) ~>
    \/ closes[e] > 0 \/ (e = "client" /\ dial = "failed")
    \/ {"request", "close"} \cap lost[e] # {}

=============================================================================
