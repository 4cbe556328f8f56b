------------------------- MODULE KprWebSocketProofs -------------------------
(***************************************************************************)
(* KprWebSocket keeps its types, uses no endpoint that was disposed of,     *)
(* reports nothing after onclose, and loses no message before a clean close.*)
(* Inv is the inductive invariant; each of its parts has a lemma about      *)
(* Next.                                                                    *)
(***************************************************************************)
EXTENDS KprWebSocket, FiniteSetTheorems, FunctionTheorems, WellFoundedInduction, ListTheorems

-----------------------------------------------------------------------------
(* Types. *)

Kind ==
  Sent \union {"start", "open", "dispose", "stop", "request", "response", "refusal", "fin", "fail"}
Item == [kind : Kind, n : Nat]
Place == {"connect", "message", "error", "closed", "failed", "closing", "close", "pass"}

EndpointRecord ==
  [state : {"connecting", "open", "closing", "closed"},
   socket : {"none", "request", "endpoint"}, cancelConnection : BOOLEAN,
   closeWasSent : BOOLEAN, closeWasReceived : BOOLEAN, cleanClose : BOOLEAN,
   pendingSendCount : 0 .. 255, disposeRequested : BOOLEAN]

EndType ==
  /\ ep \in [End -> EndpointRecord]
  /\ freed \in [End -> BOOLEAN] /\ errored \in [End -> BOOLEAN]
  /\ wrapper \in [End -> {"none", "remembered", "forgotten", "collected"}]

LineType ==
  /\ queue \in [End -> Seq(Item)] /\ stack \in [End -> Seq(Place)]
  /\ wire \in [End -> Seq(Item)] /\ backlog \in [End -> Seq(Item)]

LogType ==
  /\ said \in [End -> Nat] /\ heard \in [End -> Seq(Nat)] /\ closes \in [End -> Nat]
  /\ dial \in {"idle", "calling", "failed", "done"}
  /\ server \in {"live", "collected", "stopped"}
  /\ listed \in BOOLEAN /\ dropped \in BOOLEAN

Typed == EndType /\ LineType /\ LogType

\* Frames and messages are items of a line.
LEMMA Items ==
  /\ \A k \in Kind : Frame(k) \in Item /\ Frame(k).kind = k
  /\ \A k \in Nat : Text(k) \in Item /\ Text(k).kind = "text" /\ Text(k).n = k
  BY DEF Frame, Text, Item, Kind, Sent

\* What the first n elements of a line are, and what Front and Last of
\* SequencesExt give.
LEMMA PrefixFacts ==
  ASSUME NEW S, NEW q \in Seq(S), NEW k \in 0 .. Len(q)
  PROVE  /\ SubSeq(q, 1, k) \in Seq(S) /\ Len(SubSeq(q, 1, k)) = k
         /\ \A x \in 1 .. k : SubSeq(q, 1, k)[x] = q[x]
OBVIOUS

LEMMA SuffixFacts ==
  ASSUME NEW S, NEW q \in Seq(S), NEW k \in 0 .. Len(q)
  PROVE  /\ SubSeq(q, k + 1, Len(q)) \in Seq(S) /\ Len(SubSeq(q, k + 1, Len(q))) = Len(q) - k
         /\ \A x \in 1 .. Len(q) - k : SubSeq(q, k + 1, Len(q))[x] = q[k + x]
OBVIOUS

LEMMA FrontLast ==
  ASSUME NEW S, NEW q \in Seq(S), q # <<>>
  PROVE  /\ Front(q) \in Seq(S) /\ Len(Front(q)) = Len(q) - 1
         /\ \A x \in 1 .. Len(q) - 1 : Front(q)[x] = q[x]
         /\ Last(q) \in S /\ Last(q) = q[Len(q)] /\ Len(q) \in Nat \ {0}
<1>1. Len(q) \in Nat \ {0} /\ Len(q) - 1 \in 0 .. Len(q)
  OBVIOUS
<1>2. Front(q) = SubSeq(q, 1, Len(q) - 1) /\ Last(q) = q[Len(q)]
  BY DEF Front, Last
<1>3. /\ SubSeq(q, 1, Len(q) - 1) \in Seq(S) /\ Len(SubSeq(q, 1, Len(q) - 1)) = Len(q) - 1
      /\ \A x \in 1 .. Len(q) - 1 : SubSeq(q, 1, Len(q) - 1)[x] = q[x]
  BY <1>1, PrefixFacts
<1> QED BY <1>1, <1>2, <1>3

-----------------------------------------------------------------------------
(* What the steps make of an endpoint record.  The changes that are written *)
(* out in an action have a name here.                                       *)

Requested(r) == [r EXCEPT !.disposeRequested = TRUE]
Opened(r) == [r EXCEPT !.state = "open"]
Joined(r) == [r EXCEPT !.socket = "endpoint", !.state = "open"]
Plugged(r) == [r EXCEPT !.socket = "endpoint"]
Offered(r) == [r EXCEPT !.socket = "request"]
Unplugged(r) == [r EXCEPT !.socket = "none"]
Got(r) == [r EXCEPT !.closeWasReceived = TRUE]
Answering(r) == [r EXCEPT !.state = "closing"]
Announced(r) == [r EXCEPT !.closeWasSent = TRUE]
Stopped(r) == [r EXCEPT !.state = "closing", !.closeWasSent = TRUE]
Clean(r) == [r EXCEPT !.cleanClose = TRUE]

LEMMA MoreFacts ==
  ASSUME NEW r \in EndpointRecord
  PROVE  /\ More(r) \in EndpointRecord
         /\ More(r).state = r.state /\ More(r).socket = r.socket
         /\ More(r).closeWasSent = r.closeWasSent
         /\ More(r).closeWasReceived = r.closeWasReceived
         /\ More(r).cleanClose = r.cleanClose
         /\ More(r).pendingSendCount = (r.pendingSendCount + 1) % 256
         /\ More(r).disposeRequested = r.disposeRequested
<1>1. (r.pendingSendCount + 1) % 256 \in 0 .. 255
  BY DEF EndpointRecord
<1>2. More(r) \in EndpointRecord
  BY <1>1 DEF More, EndpointRecord
<1> QED BY <1>2 DEF More, EndpointRecord

LEMMA FewerFacts ==
  ASSUME NEW r \in EndpointRecord
  PROVE  /\ Fewer(r) \in EndpointRecord
         /\ Fewer(r).state = r.state /\ Fewer(r).socket = r.socket
         /\ Fewer(r).closeWasSent = r.closeWasSent
         /\ Fewer(r).closeWasReceived = r.closeWasReceived
         /\ Fewer(r).cleanClose = r.cleanClose
         /\ Fewer(r).pendingSendCount = (r.pendingSendCount + 255) % 256
         /\ Fewer(r).disposeRequested = r.disposeRequested
<1>1. (r.pendingSendCount + 255) % 256 \in 0 .. 255
  BY DEF EndpointRecord
<1>2. Fewer(r) \in EndpointRecord
  BY <1>1 DEF Fewer, EndpointRecord
<1> QED BY <1>2 DEF Fewer, EndpointRecord

LEMMA ClosedFacts ==
  ASSUME NEW r \in EndpointRecord
  PROVE  /\ Closed(r) \in EndpointRecord
         /\ Closed(r).state = "closed" /\ Closed(r).socket = "none"
         /\ Closed(r).closeWasSent = r.closeWasSent
         /\ Closed(r).closeWasReceived = r.closeWasReceived
         /\ Closed(r).cleanClose = r.cleanClose
         /\ Closed(r).pendingSendCount = r.pendingSendCount
         /\ Closed(r).disposeRequested = r.disposeRequested
  BY DEF Closed, EndpointRecord

LEMMA RequestedFacts ==
  ASSUME NEW r \in EndpointRecord
  PROVE  /\ Requested(r) \in EndpointRecord
         /\ Requested(r).state = r.state /\ Requested(r).socket = r.socket
         /\ Requested(r).closeWasSent = r.closeWasSent
         /\ Requested(r).closeWasReceived = r.closeWasReceived
         /\ Requested(r).cleanClose = r.cleanClose
         /\ Requested(r).pendingSendCount = r.pendingSendCount
         /\ Requested(r).disposeRequested = TRUE
  BY DEF Requested, EndpointRecord

LEMMA OpenedFacts ==
  ASSUME NEW r \in EndpointRecord
  PROVE  /\ Opened(r) \in EndpointRecord
         /\ Opened(r).state = "open" /\ Opened(r).socket = r.socket
         /\ Opened(r).closeWasSent = r.closeWasSent
         /\ Opened(r).closeWasReceived = r.closeWasReceived
         /\ Opened(r).cleanClose = r.cleanClose
         /\ Opened(r).pendingSendCount = r.pendingSendCount
         /\ Opened(r).disposeRequested = r.disposeRequested
  BY DEF Opened, EndpointRecord

LEMMA JoinedFacts ==
  ASSUME NEW r \in EndpointRecord
  PROVE  /\ Joined(r) \in EndpointRecord
         /\ Joined(r).state = "open" /\ Joined(r).socket = "endpoint"
         /\ Joined(r).closeWasSent = r.closeWasSent
         /\ Joined(r).closeWasReceived = r.closeWasReceived
         /\ Joined(r).cleanClose = r.cleanClose
         /\ Joined(r).pendingSendCount = r.pendingSendCount
         /\ Joined(r).disposeRequested = r.disposeRequested
  BY DEF Joined, EndpointRecord

LEMMA PluggedFacts ==
  ASSUME NEW r \in EndpointRecord
  PROVE  /\ Plugged(r) \in EndpointRecord
         /\ Plugged(r).state = r.state /\ Plugged(r).socket = "endpoint"
         /\ Plugged(r).closeWasSent = r.closeWasSent
         /\ Plugged(r).closeWasReceived = r.closeWasReceived
         /\ Plugged(r).cleanClose = r.cleanClose
         /\ Plugged(r).pendingSendCount = r.pendingSendCount
         /\ Plugged(r).disposeRequested = r.disposeRequested
  BY DEF Plugged, EndpointRecord

LEMMA OfferedFacts ==
  ASSUME NEW r \in EndpointRecord
  PROVE  /\ Offered(r) \in EndpointRecord
         /\ Offered(r).state = r.state /\ Offered(r).socket = "request"
         /\ Offered(r).closeWasSent = r.closeWasSent
         /\ Offered(r).closeWasReceived = r.closeWasReceived
         /\ Offered(r).cleanClose = r.cleanClose
         /\ Offered(r).pendingSendCount = r.pendingSendCount
         /\ Offered(r).disposeRequested = r.disposeRequested
  BY DEF Offered, EndpointRecord

LEMMA UnpluggedFacts ==
  ASSUME NEW r \in EndpointRecord
  PROVE  /\ Unplugged(r) \in EndpointRecord
         /\ Unplugged(r).state = r.state /\ Unplugged(r).socket = "none"
         /\ Unplugged(r).closeWasSent = r.closeWasSent
         /\ Unplugged(r).closeWasReceived = r.closeWasReceived
         /\ Unplugged(r).cleanClose = r.cleanClose
         /\ Unplugged(r).pendingSendCount = r.pendingSendCount
         /\ Unplugged(r).disposeRequested = r.disposeRequested
  BY DEF Unplugged, EndpointRecord

LEMMA GotFacts ==
  ASSUME NEW r \in EndpointRecord
  PROVE  /\ Got(r) \in EndpointRecord
         /\ Got(r).state = r.state /\ Got(r).socket = r.socket
         /\ Got(r).closeWasSent = r.closeWasSent /\ Got(r).closeWasReceived = TRUE
         /\ Got(r).cleanClose = r.cleanClose /\ Got(r).pendingSendCount = r.pendingSendCount
         /\ Got(r).disposeRequested = r.disposeRequested
  BY DEF Got, EndpointRecord

LEMMA AnsweringFacts ==
  ASSUME NEW r \in EndpointRecord
  PROVE  /\ Answering(r) \in EndpointRecord
         /\ Answering(r).state = "closing" /\ Answering(r).socket = r.socket
         /\ Answering(r).closeWasSent = r.closeWasSent
         /\ Answering(r).closeWasReceived = r.closeWasReceived
         /\ Answering(r).cleanClose = r.cleanClose
         /\ Answering(r).pendingSendCount = r.pendingSendCount
         /\ Answering(r).disposeRequested = r.disposeRequested
  BY DEF Answering, EndpointRecord

LEMMA AnnouncedFacts ==
  ASSUME NEW r \in EndpointRecord
  PROVE  /\ Announced(r) \in EndpointRecord
         /\ Announced(r).state = r.state /\ Announced(r).socket = r.socket
         /\ Announced(r).closeWasSent = TRUE
         /\ Announced(r).closeWasReceived = r.closeWasReceived
         /\ Announced(r).cleanClose = r.cleanClose
         /\ Announced(r).pendingSendCount = r.pendingSendCount
         /\ Announced(r).disposeRequested = r.disposeRequested
  BY DEF Announced, EndpointRecord

LEMMA StoppedFacts ==
  ASSUME NEW r \in EndpointRecord
  PROVE  /\ Stopped(r) \in EndpointRecord
         /\ Stopped(r).state = "closing" /\ Stopped(r).socket = r.socket
         /\ Stopped(r).closeWasSent = TRUE
         /\ Stopped(r).closeWasReceived = r.closeWasReceived
         /\ Stopped(r).cleanClose = r.cleanClose
         /\ Stopped(r).pendingSendCount = r.pendingSendCount
         /\ Stopped(r).disposeRequested = r.disposeRequested
  BY DEF Stopped, EndpointRecord

LEMMA CleanFacts ==
  ASSUME NEW r \in EndpointRecord
  PROVE  /\ Clean(r) \in EndpointRecord
         /\ Clean(r).state = r.state /\ Clean(r).socket = r.socket
         /\ Clean(r).closeWasSent = r.closeWasSent
         /\ Clean(r).closeWasReceived = r.closeWasReceived /\ Clean(r).cleanClose = TRUE
         /\ Clean(r).pendingSendCount = r.pendingSendCount
         /\ Clean(r).disposeRequested = r.disposeRequested
  BY DEF Clean, EndpointRecord

LEMMA ClosingFacts ==
  ASSUME NEW r \in EndpointRecord
  PROVE  /\ Closing(r) \in EndpointRecord
         /\ Closing(r).state = IF r.state = "closed" THEN "closed" ELSE "closing"
         /\ Closing(r).pendingSendCount = r.pendingSendCount
         /\ Closing(r).socket = r.socket
         /\ Closing(r).closeWasSent = r.closeWasSent
         /\ Closing(r).closeWasReceived = r.closeWasReceived
         /\ Closing(r).cleanClose = r.cleanClose
         /\ Closing(r).disposeRequested = r.disposeRequested
<1>1. r.state \in {"connecting", "open", "closing", "closed"}
  BY DEF EndpointRecord
<1>2. CASE r.state = "connecting"
  BY <1>2 DEF Closing, EndpointRecord
<1>3. CASE r.state = "open"
  BY <1>3 DEF Closing, EndpointRecord
<1>4. CASE r.state \notin {"connecting", "open"}
  BY <1>1, <1>4 DEF Closing
<1> QED BY <1>1, <1>2, <1>3, <1>4

LEMMA EpMoves ==
  ASSUME NEW e \in End
  PROVE  /\ EndpointDispose(e) =>
              IF ep[e].pendingSendCount > 0
              THEN SetEp(e, Requested(ep[e])) /\ UNCHANGED <<freed, wire, backlog>>
              ELSE Free(e, ep[e])
         /\ HandleResponse(e) => SetEp(e, Opened(ep[e]))
         /\ HandleCloseFrame(e) => Disconnect(e, Got(ep[e]), Pass)
         /\ AnswerCloseFrame(e) => SetEp(e, Answering(Got(ep[e])))
         /\ ReturnClosing(e) =>
              IF Announced(More(ep[e])).closeWasReceived
              THEN Disconnect(e, Clean(Announced(More(ep[e]))), Below(e))
              ELSE /\ SetEp(e, Announced(More(ep[e]))) /\ SetStack(e, Below(e))
                   /\ UNCHANGED <<wire, backlog, listed, closes>>
  BY DEF EndpointDispose, HandleResponse, HandleCloseFrame, AnswerCloseFrame, ReturnClosing,
     Requested, Opened, Received, Got, Answering, Announced, Clean

LEMMA ServerEpMoves ==
  ASSUME Typed
  PROVE  /\ ReturnConnect => SetEp("server", Joined(ep["server"]))
         /\ ReturnUnhandled => SetEp("server", Unplugged(ep["server"]))
         /\ RejectRequest => SetEp("server", Unplugged(ep["server"]))
         /\ KprWebSocketServerDispose =>
              IF ep["server"].socket = "request"
              THEN SetEp("server", Unplugged(ep["server"])) /\ FskNetSocketClose("server")
              ELSE UNCHANGED <<ep, wire>>
         /\ KPR_websocketserver =>
              IF listed /\ ep["server"].state = "open"
              THEN SetEp("server", Stopped(More(ep["server"]))) ELSE UNCHANGED ep
         /\ ConnectCallback =>
              ep' = [ep EXCEPT !["client"] = Plugged(ep["client"]), !["server"] = Offered(ep["server"])]
         /\ ConnectCallback_refused => SetEp("client", Plugged(ep["client"]))
         /\ ConnectCallback_unsent =>
              ep' = [ep EXCEPT !["client"] = Plugged(ep["client"]), !["server"] = Offered(ep["server"])]
<1>0. ep \in [End -> EndpointRecord]
  BY DEF Typed, EndType
<1>1. RejectRequest => SetEp("server", Unplugged(ep["server"]))
  BY <1>0 DEF RejectRequest, Unplugged, SetEp, End
<1>2. ConnectCallback =>
        ep' = [ep EXCEPT !["client"] = Plugged(ep["client"]), !["server"] = Offered(ep["server"])]
  BY <1>0 DEF ConnectCallback, Plugged, Offered, End
<1>3. ConnectCallback_refused => SetEp("client", Plugged(ep["client"]))
  BY <1>0 DEF ConnectCallback_refused, Plugged, SetEp, End
<1>4. KPR_websocketserver =>
        IF listed /\ ep["server"].state = "open"
        THEN SetEp("server", Stopped(More(ep["server"]))) ELSE UNCHANGED ep
  BY DEF KPR_websocketserver, Stopped, SetEp
<1>5. KprWebSocketServerDispose =>
        IF ep["server"].socket = "request"
        THEN SetEp("server", Unplugged(ep["server"])) /\ FskNetSocketClose("server")
        ELSE UNCHANGED <<ep, wire>>
  BY DEF KprWebSocketServerDispose, Unplugged
<1>6. /\ ReturnConnect => SetEp("server", Joined(ep["server"]))
      /\ ReturnUnhandled => SetEp("server", Unplugged(ep["server"]))
  BY DEF ReturnConnect, ReturnUnhandled, Joined, Unplugged
<1>7. ConnectCallback_unsent =>
        ep' = [ep EXCEPT !["client"] = Plugged(ep["client"]), !["server"] = Offered(ep["server"])]
  BY <1>0 DEF ConnectCallback_unsent, Plugged, Offered, End
<1> QED BY <1>1, <1>2, <1>3, <1>4, <1>5, <1>6, <1>7

LEMMA EpTyped ==
  ASSUME Typed, Next
  PROVE  ep' \in [End -> EndpointRecord]
<1>0. ep \in [End -> EndpointRecord]
  BY DEF Typed, EndType
<1>d. ASSUME NEW e \in End, NEW r \in EndpointRecord, SetEp(e, r)
      PROVE  ep' \in [End -> EndpointRecord]
  BY <1>0, <1>d DEF SetEp
<1>1. ASSUME NEW e \in End, Script(e) PROVE ep' \in [End -> EndpointRecord]
  BY <1>0, <1>1, <1>d, MoreFacts, ClosingFacts DEF Script, KPR_websocketclient_send,
     KPR_websocketclient_close, KPR_websocketclient, SendRawFrame, Close
<1>2. ASSUME NEW e \in End, Calls(e) PROVE ep' \in [End -> EndpointRecord]
  BY <1>0, <1>2, <1>d, EpMoves, RequestedFacts, FewerFacts, ClosedFacts DEF Calls, OpenDeferred,
     SendDisposed, SendBytes, SendBytesFails, SendBytesError, KprSocketWriterDataWriter,
     DataWriterFails, DataWriterError, HandleError, Free
<1>3. ASSUME NEW e \in End, Passes(e) PROVE ep' \in [End -> EndpointRecord]
  BY <1>0, <1>3, <1>d, EpMoves, OpenedFacts, GotFacts, AnsweringFacts, MoreFacts, ClosedFacts
     DEF Passes, EndPass, HandleRefusal, HandleTextMessage, HandlePing, HandlePong, ReadClosed,
     ReadFails, HandleError, Disconnect, SendRawFrame
<1>4. ASSUME NEW e \in End, Returns(e) PROVE ep' \in [End -> EndpointRecord]
  BY <1>0, <1>4, <1>d, EpMoves, MoreFacts, AnnouncedFacts, CleanFacts, ClosedFacts, ClosingFacts
     DEF Returns, ReturnScript, ReturnClosed, ReturnFailed, ReturnClose, Disconnect, Close
<1>5. ASSUME StartConnect \/ Connects PROVE ep' \in [End -> EndpointRecord]
  BY <1>0, <1>5, <1>d, ServerEpMoves, PluggedFacts, OfferedFacts, ClosedFacts DEF StartConnect,
     Connects, ConnectCallback_none, ConnectCallback_cancelled, End
<1>6. ASSUME Accepts PROVE ep' \in [End -> EndpointRecord]
  BY <1>0, <1>6, <1>d, ServerEpMoves, JoinedFacts, UnpluggedFacts DEF Accepts, HandleRequest, End
<1>7. ASSUME \/ KPR_websocketserver_timeToPing \/ KPR_WebSocketServer_onInterfaceDrop
             \/ KPR_websocketserver \/ Break
      PROVE  ep' \in [End -> EndpointRecord]
  BY <1>0, <1>7, <1>d, ServerEpMoves, StoppedFacts, MoreFacts DEF KPR_websocketserver_timeToPing,
     KPR_WebSocketServer_onInterfaceDrop, Break, SendRawFrame, End
<1> QED BY <1>1, <1>2, <1>3, <1>4, <1>5, <1>6, <1>7 DEF Next, Loop

LEMMA StackTyped ==
  ASSUME Typed, Next
  PROVE  stack' \in [End -> Seq(Place)]
<1>0. stack \in [End -> Seq(Place)]
  BY DEF Typed, LineType
<1>d. ASSUME NEW e \in End, NEW s \in Seq(Place), SetStack(e, s)
      PROVE  stack' \in [End -> Seq(Place)]
  BY <1>0, <1>d DEF SetStack
<1>a. \A s \in Seq(Place), f \in Place : Append(s, f) \in Seq(Place)
  OBVIOUS
<1>p. \A f \in Place : f \in Place /\ <<f>> \in Seq(Place)
  OBVIOUS
<1>b. ASSUME NEW e \in End, NEW f, Top(e, f) PROVE Below(e) \in Seq(Place)
  BY <1>0, <1>b, FrontLast DEF Top, Idle, Below
<1>c. /\ {"connect", "message", "error", "closed", "failed", "closing", "close", "pass"} \subseteq Place
      /\ <<>> \in Seq(Place) /\ Pass \in Seq(Place)
  BY DEF Place, Pass
<1> USE <1>0, <1>a, <1>b, <1>c, <1>d, <1>p
<1>1. ASSUME NEW e \in End, Script(e) PROVE stack' \in [End -> Seq(Place)]
  BY <1>1 DEF Script, KPR_websocketclient_send, KPR_websocketclient_close, KPR_websocketclient,
     SendRawFrame, CallError, Close
<1>2. ASSUME NEW e \in End, Calls(e) PROVE stack' \in [End -> Seq(Place)]
  BY <1>2 DEF Calls, OpenDeferred, EndpointDispose, SendDisposed, SendBytes, SendBytesFails,
     SendBytesError, KprSocketWriterDataWriter, DataWriterFails, DataWriterError, HandleError,
     CallError
<1>3. ASSUME NEW e \in End, Passes(e) PROVE stack' \in [End -> Seq(Place)]
  BY <1>3 DEF Passes, EndPass, HandleResponse, HandleRefusal, HandleTextMessage, HandlePing,
     HandlePong, HandleCloseFrame, AnswerCloseFrame, ReadClosed, ReadFails, HandleError,
     Disconnect, CallClose, SendRawFrame, CallError
<1>4. ASSUME NEW e \in End, Returns(e) PROVE stack' \in [End -> Seq(Place)]
  BY <1>4 DEF Returns, ReturnScript, ReturnClosed, ReturnFailed, ReturnClosing, ReturnClose,
     Disconnect, CallClose, Close
<1>5. ASSUME StartConnect \/ Connects PROVE stack' \in [End -> Seq(Place)]
  BY <1>5 DEF StartConnect, Connects, ConnectCallback_none, ConnectCallback,
     ConnectCallback_refused, ConnectCallback_unsent, ConnectCallback_cancelled, CallError,
     CallClose, End
<1>6. ASSUME Accepts PROVE stack' \in [End -> Seq(Place)]
  BY <1>6 DEF Accepts, HandleRequest, RejectRequest, ReturnConnect, ReturnUnhandled,
     KprWebSocketServerDispose, End
<1>7. ASSUME \/ KPR_websocketserver_timeToPing \/ KPR_WebSocketServer_onInterfaceDrop
             \/ KPR_websocketserver \/ Break
      PROVE  stack' \in [End -> Seq(Place)]
  BY <1>7 DEF KPR_websocketserver_timeToPing, KPR_WebSocketServer_onInterfaceDrop,
     KPR_websocketserver, Break, SendRawFrame, CallError, CallClose, End
<1> QED BY <1>1, <1>2, <1>3, <1>4, <1>5, <1>6, <1>7 DEF Next, Loop

LEMMA QueueTyped ==
  ASSUME Typed, Next
  PROVE  queue' \in [End -> Seq(Item)]
<1>0. queue \in [End -> Seq(Item)]
  BY DEF Typed, LineType
<1>p. ASSUME NEW e \in End, NEW f \in Item, Post(e, f) PROVE queue' \in [End -> Seq(Item)]
  BY <1>0, <1>p DEF Post
<1>q. ASSUME NEW e \in End, queue[e] # <<>>, Dequeue(e) PROVE queue' \in [End -> Seq(Item)]
  BY <1>0, <1>q DEF Dequeue
<1>k. /\ \A x \in Sent \union {"start", "open", "dispose", "stop"} : Frame(x) \in Item
      /\ \A e \in End : Text(said[e] + 1) \in Item
      /\ Sent = {"text", "ping", "pong", "close"}
  BY Items DEF Sent, Kind, Typed, LogType
<1> USE <1>0, <1>p, <1>q, <1>k
<1>1. ASSUME NEW e \in End, Script(e) PROVE queue' \in [End -> Seq(Item)]
  BY <1>1 DEF Script, KPR_websocketclient_send, KPR_websocketclient_close, KPR_websocketclient,
     SendRawFrame
<1>2. ASSUME NEW e \in End, Calls(e) PROVE queue' \in [End -> Seq(Item)]
  BY <1>2 DEF Calls, OpenDeferred, EndpointDispose, SendDisposed, SendBytes, SendBytesFails,
     SendBytesError, KprSocketWriterDataWriter, DataWriterFails, DataWriterError, HandleError,
     Called
<1>3. ASSUME NEW e \in End, Passes(e) PROVE queue' \in [End -> Seq(Item)]
  BY <1>3 DEF Passes, EndPass, HandleResponse, HandleRefusal, HandleTextMessage, HandlePing,
     HandlePong, HandleCloseFrame, AnswerCloseFrame, ReadClosed, ReadFails, HandleError,
     SendRawFrame
<1>4. ASSUME NEW e \in End, Returns(e) PROVE queue' \in [End -> Seq(Item)]
  BY <1>4 DEF Returns, ReturnScript, ReturnClosed, ReturnFailed, ReturnClosing, ReturnClose
<1>5. ASSUME StartConnect \/ Connects PROVE queue' \in [End -> Seq(Item)]
  BY <1>5 DEF StartConnect, Connects, ConnectCallback_none, ConnectCallback,
     ConnectCallback_refused, ConnectCallback_unsent, ConnectCallback_cancelled, Dequeue, End
<1>6. ASSUME Accepts PROVE queue' \in [End -> Seq(Item)]
  BY <1>6 DEF Accepts, HandleRequest, RejectRequest, ReturnConnect, ReturnUnhandled,
     KprWebSocketServerDispose, Called, End
<1>7. ASSUME \/ KPR_websocketserver_timeToPing \/ KPR_WebSocketServer_onInterfaceDrop \/ Break
      PROVE  queue' \in [End -> Seq(Item)]
  BY <1>7 DEF KPR_websocketserver_timeToPing, KPR_WebSocketServer_onInterfaceDrop,
     Break, SendRawFrame, End
<1>8. ASSUME KPR_websocketserver PROVE queue' \in [End -> Seq(Item)]
  BY <1>8 DEF KPR_websocketserver, End
<1> QED BY <1>1, <1>2, <1>3, <1>4, <1>5, <1>6, <1>7, <1>8 DEF Next, Loop

LEMMA Ends2 ==
  /\ End = {"client", "server"} /\ Peer("client") = "server" /\ Peer("server") = "client"
  /\ \A e \in End : Peer(e) \in End /\ Peer(e) # e /\ Peer(Peer(e)) = e
  /\ \A e, d \in End : d # e => d = Peer(e)
  BY DEF End, Peer

LEMMA Lines ==
  /\ <<>> \in Seq(Item)
  /\ \A f \in Item : <<f>> \in Seq(Item)
  /\ \A f, g \in Item : <<f, g>> \in Seq(Item)
  /\ \A s, t \in Seq(Item) : s \o t \in Seq(Item)
  /\ \A s \in Seq(Item), f \in Item : Append(s, f) \in Seq(Item)
  /\ \A s \in Seq(Item) : s # <<>> => Head(s) \in Item /\ Tail(s) \in Seq(Item)
  OBVIOUS

LEMMA SetLine ==
  ASSUME NEW f \in [End -> Seq(Item)], NEW e \in End, NEW d \in End,
         NEW s \in Seq(Item), NEW t \in Seq(Item)
  PROVE  /\ [f EXCEPT ![e] = s] \in [End -> Seq(Item)]
         /\ [f EXCEPT ![e] = s, ![d] = t] \in [End -> Seq(Item)]
  OBVIOUS

LEMMA CloseTyped ==
  ASSUME Typed, NEW e \in End, FskNetSocketClose(e)
  PROVE  wire' \in [End -> Seq(Item)]
<1> DEFINE p == Peer(e)
<1>0. wire \in [End -> Seq(Item)] /\ p \in End /\ p # e
  BY Ends2 DEF Typed, LineType
<1>1. PICK k \in 0 .. Len(wire[p]) :
        wire' = [wire EXCEPT ![e] = <<>>,
                   ![p] = IF Fits(p) THEN SubSeq(@, 1, k) \o <<Frame("fin")>> ELSE @]
  <2>1. Len(wire[p]) \in 0 .. Len(wire[p])
    BY <1>0
  <2> QED BY <2>1 DEF FskNetSocketClose
<1>2. SubSeq(wire[p], 1, k) \in Seq(Item) /\ Frame("fin") \in Item
  BY <1>0, PrefixFacts, Items DEF Kind
<1>3. SubSeq(wire[p], 1, k) \o <<Frame("fin")>> \in Seq(Item)
  BY <1>2
<1>4. (IF Fits(p) THEN SubSeq(wire[p], 1, k) \o <<Frame("fin")>> ELSE wire[p]) \in Seq(Item)
  BY <1>0, <1>3
<1>5. [wire EXCEPT ![e] = <<>>, ![p] = IF Fits(p) THEN SubSeq(@, 1, k) \o <<Frame("fin")>> ELSE @]
        = [wire EXCEPT ![e] = <<>>,
             ![p] = IF Fits(p) THEN SubSeq(wire[p], 1, k) \o <<Frame("fin")>> ELSE wire[p]]
  BY <1>0
<1> QED BY <1>0, <1>1, <1>4, <1>5, Lines, SetLine

LEMMA WireTyped ==
  ASSUME Typed, Next
  PROVE  wire' \in [End -> Seq(Item)]
<1>0. wire \in [End -> Seq(Item)] /\ queue \in [End -> Seq(Item)] /\ backlog \in [End -> Seq(Item)]
  BY DEF Typed, LineType
<1>c. ASSUME NEW e \in End, Reads(e, Kind), Consumed(e) PROVE wire' \in [End -> Seq(Item)]
  BY <1>0, <1>c DEF Reads, Consumed
<1>r. \A e \in End, K \in SUBSET Kind : Reads(e, K) => Reads(e, Kind)
  BY DEF Reads
<1>k. {"response", "refusal", "text", "ping", "pong", "close", "fin", "fail"} \subseteq Kind
  BY DEF Kind, Sent
<1>a. ASSUME NEW e \in End, NEW s \in Seq(Item), Arrives(e, s) PROVE wire' \in [End -> Seq(Item)]
  <2>1. Peer(e) \in End
    BY Ends2
  <2> QED BY <1>0, <1>a, <2>1 DEF Arrives
<1>1. ASSUME NEW e \in End, Script(e) PROVE wire' \in [End -> Seq(Item)]
  BY <1>0, <1>1 DEF Script, KPR_websocketclient_send, KPR_websocketclient_close, KPR_websocketclient,
     netVars
<1>2. ASSUME NEW e \in End, \/ OpenDeferred(e) \/ SendBytesFails(e) \/ DataWriterFails(e)
                            \/ SendBytesError(e) \/ DataWriterError(e)
      PROVE  wire' \in [End -> Seq(Item)]
  BY <1>0, <1>2 DEF OpenDeferred, SendBytesFails, SendBytesError, DataWriterFails,
     DataWriterError, HandleError, netVars
<1>3. ASSUME NEW e \in End, EndpointDispose(e) \/ SendDisposed(e) PROVE wire' \in [End -> Seq(Item)]
  BY <1>0, <1>3, CloseTyped DEF EndpointDispose, SendDisposed, Free
<1>4. ASSUME NEW e \in End, SendBytes(e) PROVE wire' \in [End -> Seq(Item)]
  <2>1. <<Head(queue[e])>> \in Seq(Item)
    BY <1>0, <1>4 DEF SendBytes, Called
  <2> QED BY <1>0, <1>4, <1>a, <2>1 DEF SendBytes
<1>5. ASSUME NEW e \in End, KprSocketWriterDataWriter(e) PROVE wire' \in [End -> Seq(Item)]
  <2>1. PICK k \in 1 .. Len(backlog[e]) : Arrives(e, SubSeq(backlog[e], 1, k))
    BY <1>5 DEF KprSocketWriterDataWriter
  <2>2. SubSeq(backlog[e], 1, k) \in Seq(Item)
    BY <1>0, PrefixFacts
  <2> QED BY <1>a, <2>1, <2>2
<1>6. ASSUME NEW e \in End, Passes(e) PROVE wire' \in [End -> Seq(Item)]
  BY <1>0, <1>6, <1>c, <1>r, <1>k, CloseTyped DEF Passes, EndPass, HandleResponse, HandleRefusal,
     HandleTextMessage, HandlePing, HandlePong, HandleCloseFrame, AnswerCloseFrame, ReadClosed,
     ReadFails, HandleError, Disconnect, netVars
<1>7. ASSUME NEW e \in End, Returns(e) PROVE wire' \in [End -> Seq(Item)]
  BY <1>0, <1>7, CloseTyped DEF Returns, ReturnScript, ReturnClosed, ReturnFailed, ReturnClosing,
     ReturnClose, Disconnect, netVars
<1>f. \A x \in {"request", "response", "refusal", "fin", "fail"} : Frame(x) \in Item
  BY Items DEF Kind
<1>8. ASSUME StartConnect \/ Connects PROVE wire' \in [End -> Seq(Item)]
  <2>1. <<Frame("request")>> \in Seq(Item) /\ <<Frame("fin")>> \in Seq(Item)
    BY <1>f, Lines
  <2>2. ASSUME ConnectCallback \/ ConnectCallback_refused PROVE wire' \in [End -> Seq(Item)]
    BY <1>0, <2>1, <2>2, SetLine DEF ConnectCallback, ConnectCallback_refused, End
  <2> QED BY <1>0, <1>8, <2>2 DEF StartConnect, Connects, ConnectCallback_none,
        ConnectCallback_unsent, ConnectCallback_cancelled
<1>9. ASSUME Accepts PROVE wire' \in [End -> Seq(Item)]
  <2>1. ASSUME HandleRequest PROVE wire' \in [End -> Seq(Item)]
    <3> DEFINE c == IF Fits("client") THEN Append(wire["client"], Frame("response"))
                    ELSE wire["client"]
    <3>1. c \in Seq(Item) /\ Tail(wire["server"]) \in Seq(Item)
      BY <1>0, <1>f, <2>1, Lines DEF HandleRequest, End
    <3>2. wire' = [wire EXCEPT !["server"] = Tail(wire["server"]), !["client"] = c]
      BY <1>0, <2>1 DEF HandleRequest, End
    <3> QED BY <1>0, <3>1, <3>2, SetLine DEF End
  <2>2. ASSUME RejectRequest PROVE wire' \in [End -> Seq(Item)]
    <3>1. PICK answer \in {<<Frame("refusal"), Frame("fin")>>, <<Frame("fin")>>} :
            wire' = [wire EXCEPT !["server"] = <<>>,
                       !["client"] = IF Fits("client") THEN @ \o answer ELSE @]
      BY <2>2 DEF RejectRequest
    <3> DEFINE c == IF Fits("client") THEN wire["client"] \o answer ELSE wire["client"]
    <3>2. answer \in Seq(Item)
      BY <1>f, <3>1, Lines
    <3>3. c \in Seq(Item) /\ <<>> \in Seq(Item)
      BY <1>0, <3>2, Lines DEF End
    <3>4. wire' = [wire EXCEPT !["server"] = <<>>, !["client"] = c]
      BY <1>0, <3>1 DEF End
    <3> QED BY <1>0, <3>3, <3>4, SetLine DEF End
  <2> QED BY <1>0, <1>9, <2>1, <2>2, CloseTyped DEF Accepts, ReturnConnect, ReturnUnhandled,
        KprWebSocketServerDispose, netVars, End
<1>10. ASSUME Break PROVE wire' \in [End -> Seq(Item)]
  <2>1. PICK e \in End, told \in {<<>>, <<Frame("fail")>>} :
          wire' = [wire EXCEPT ![e] = told \o <<Frame("fin")>>, ![Peer(e)] = <<Frame("fin")>>]
    BY <1>10 DEF Break
  <2>2. told \o <<Frame("fin")>> \in Seq(Item) /\ <<Frame("fin")>> \in Seq(Item)
    BY <1>f, Lines
  <2> QED BY <1>0, <2>1, <2>2, SetLine, Ends2
<1>11. ASSUME \/ KPR_websocketserver_timeToPing \/ KPR_WebSocketServer_onInterfaceDrop
              \/ KPR_websocketserver
       PROVE  wire' \in [End -> Seq(Item)]
  BY <1>0, <1>11 DEF KPR_websocketserver_timeToPing, KPR_WebSocketServer_onInterfaceDrop,
     KPR_websocketserver, netVars
<1> QED BY <1>1, <1>2, <1>3, <1>4, <1>5, <1>6, <1>7, <1>8, <1>9, <1>10, <1>11 DEF Next, Loop, Calls

LEMMA BacklogTyped ==
  ASSUME Typed, Next
  PROVE  backlog' \in [End -> Seq(Item)]
<1>0. backlog \in [End -> Seq(Item)] /\ queue \in [End -> Seq(Item)]
  BY DEF Typed, LineType
<1>1. ASSUME NEW e \in End, Script(e) PROVE backlog' \in [End -> Seq(Item)]
  BY <1>0, <1>1 DEF Script, KPR_websocketclient_send, KPR_websocketclient_close,
     KPR_websocketclient, netVars
<1>2. ASSUME NEW e \in End, Calls(e) PROVE backlog' \in [End -> Seq(Item)]
  <2>1. ASSUME SendBytes(e) PROVE backlog' \in [End -> Seq(Item)]
    <3>1. Append(backlog[e], Head(queue[e])) \in Seq(Item)
      BY <1>0, <2>1, Lines DEF SendBytes, Called
    <3> QED BY <1>0, <2>1, <3>1, SetLine DEF SendBytes
  <2>2. ASSUME KprSocketWriterDataWriter(e) PROVE backlog' \in [End -> Seq(Item)]
    <3>1. PICK k \in 1 .. Len(backlog[e]) :
            backlog' = [backlog EXCEPT ![e] = SubSeq(@, k + 1, Len(@))]
      BY <2>2 DEF KprSocketWriterDataWriter
    <3>2. k \in 0 .. Len(backlog[e])
      OBVIOUS
    <3>3. SubSeq(backlog[e], k + 1, Len(backlog[e])) \in Seq(Item)
      BY <1>0, <3>2, SuffixFacts
    <3> QED BY <1>0, <3>1, <3>3
  <2> QED BY <1>0, <1>2, <2>1, <2>2, Lines, SetLine DEF Calls, OpenDeferred, EndpointDispose, SendDisposed,
        SendBytesFails, SendBytesError, DataWriterFails, DataWriterError, HandleError, Free, netVars
<1>3. ASSUME NEW e \in End, Passes(e) PROVE backlog' \in [End -> Seq(Item)]
  BY <1>0, <1>3, Lines, SetLine DEF Passes, EndPass, HandleResponse, HandleRefusal, HandleTextMessage, HandlePing,
     HandlePong, HandleCloseFrame, AnswerCloseFrame, ReadClosed, ReadFails, HandleError,
     Disconnect, netVars
<1>4. ASSUME NEW e \in End, Returns(e) PROVE backlog' \in [End -> Seq(Item)]
  BY <1>0, <1>4, Lines, SetLine DEF Returns, ReturnScript, ReturnClosed, ReturnFailed, ReturnClosing, ReturnClose,
     Disconnect, netVars
<1>5. ASSUME StartConnect \/ Connects \/ Accepts \/ Break PROVE backlog' \in [End -> Seq(Item)]
  BY <1>0, <1>5 DEF StartConnect, Connects, ConnectCallback_none, ConnectCallback,
     ConnectCallback_refused, ConnectCallback_unsent, ConnectCallback_cancelled, Accepts,
     HandleRequest, RejectRequest, ReturnConnect, ReturnUnhandled, KprWebSocketServerDispose,
     Break, netVars
<1>6. ASSUME \/ KPR_websocketserver_timeToPing \/ KPR_WebSocketServer_onInterfaceDrop
             \/ KPR_websocketserver
      PROVE  backlog' \in [End -> Seq(Item)]
  BY <1>0, <1>6 DEF KPR_websocketserver_timeToPing, KPR_WebSocketServer_onInterfaceDrop,
     KPR_websocketserver, netVars
<1> QED BY <1>1, <1>2, <1>3, <1>4, <1>5, <1>6 DEF Next, Loop

LEMMA FlagsTyped ==
  ASSUME Typed, Next
  PROVE  /\ freed' \in [End -> BOOLEAN] /\ errored' \in [End -> BOOLEAN]
         /\ wrapper' \in [End -> {"none", "remembered", "forgotten", "collected"}]
<1> USE DEF logVars
<1>0. /\ freed \in [End -> BOOLEAN] /\ errored \in [End -> BOOLEAN]
      /\ wrapper \in [End -> {"none", "remembered", "forgotten", "collected"}]
  BY DEF Typed, EndType
<1>e. ASSUME NEW e \in End, NEW f, NEW s, CallError(e, f, s) PROVE errored' \in [End -> BOOLEAN]
  BY <1>0, <1>e DEF CallError
<1>r. ASSUME NEW e \in End, NEW f, NEW s, SendRawFrame(e, f, s) PROVE errored' \in [End -> BOOLEAN]
  BY <1>0, <1>e, <1>r DEF SendRawFrame
<1>1. errored' \in [End -> BOOLEAN]
  <2>1. ASSUME NEW e \in End, Script(e) \/ Calls(e) PROVE errored' \in [End -> BOOLEAN]
    BY <1>0, <1>e, <1>r, <2>1 DEF Script, KPR_websocketclient_send, KPR_websocketclient_close,
       KPR_websocketclient, Calls, OpenDeferred, EndpointDispose, SendDisposed, SendBytes,
       SendBytesFails, SendBytesError, KprSocketWriterDataWriter, DataWriterFails,
       DataWriterError, HandleError
  <2>2. ASSUME NEW e \in End, Passes(e) \/ Returns(e) PROVE errored' \in [End -> BOOLEAN]
    BY <1>0, <1>e, <1>r, <2>2 DEF Passes, EndPass, HandleResponse, HandleRefusal,
       HandleTextMessage, HandlePing, HandlePong, HandleCloseFrame, AnswerCloseFrame, ReadClosed,
       ReadFails, HandleError, Returns, ReturnScript, ReturnClosed, ReturnFailed, ReturnClosing,
       ReturnClose
  <2>3. ASSUME StartConnect \/ Connects \/ Accepts PROVE errored' \in [End -> BOOLEAN]
    BY <1>0, <1>e, <2>3 DEF StartConnect, Connects, ConnectCallback_none, ConnectCallback,
       ConnectCallback_refused, ConnectCallback_unsent, ConnectCallback_cancelled, Accepts,
       HandleRequest, RejectRequest, ReturnConnect, ReturnUnhandled, KprWebSocketServerDispose, End
  <2>4. ASSUME \/ KPR_websocketserver_timeToPing \/ KPR_WebSocketServer_onInterfaceDrop
               \/ KPR_websocketserver \/ Break
        PROVE  errored' \in [End -> BOOLEAN]
    BY <1>0, <1>r, <2>4 DEF KPR_websocketserver_timeToPing, KPR_WebSocketServer_onInterfaceDrop,
       KPR_websocketserver, Break, End
  <2> QED BY <2>1, <2>2, <2>3, <2>4 DEF Next, Loop
<1>2. freed' \in [End -> BOOLEAN]
  <2>1. ASSUME NEW e \in End, Script(e) \/ Passes(e) \/ Returns(e) PROVE freed' \in [End -> BOOLEAN]
    BY <1>0, <2>1 DEF Script, KPR_websocketclient_send, KPR_websocketclient_close,
       KPR_websocketclient, Passes, EndPass, HandleResponse, HandleRefusal,
       HandleTextMessage, HandlePing, HandlePong, HandleCloseFrame, AnswerCloseFrame, ReadClosed,
       ReadFails, HandleError, Returns, ReturnScript, ReturnClosed, ReturnFailed, ReturnClosing,
       ReturnClose
  <2>2. ASSUME NEW e \in End, Calls(e) PROVE freed' \in [End -> BOOLEAN]
    BY <1>0, <2>2 DEF Calls, OpenDeferred, EndpointDispose, SendDisposed, SendBytes,
       SendBytesFails, SendBytesError, KprSocketWriterDataWriter, DataWriterFails,
       DataWriterError, HandleError, Free
  <2>3. ASSUME StartConnect \/ Connects \/ Accepts PROVE freed' \in [End -> BOOLEAN]
    BY <1>0, <2>3 DEF StartConnect, Connects, ConnectCallback_none, ConnectCallback,
       ConnectCallback_refused, ConnectCallback_unsent, ConnectCallback_cancelled, Accepts,
       HandleRequest, RejectRequest, ReturnConnect, ReturnUnhandled, KprWebSocketServerDispose
  <2>4. ASSUME \/ KPR_websocketserver_timeToPing \/ KPR_WebSocketServer_onInterfaceDrop
               \/ KPR_websocketserver \/ Break
        PROVE  freed' \in [End -> BOOLEAN]
    BY <1>0, <2>4 DEF KPR_websocketserver_timeToPing, KPR_WebSocketServer_onInterfaceDrop,
       KPR_websocketserver, Break
  <2> QED BY <2>1, <2>2, <2>3, <2>4 DEF Next, Loop
<1>3. wrapper' \in [End -> {"none", "remembered", "forgotten", "collected"}]
  <2>1. ASSUME NEW e \in End, Script(e) \/ Calls(e)
        PROVE  wrapper' \in [End -> {"none", "remembered", "forgotten", "collected"}]
    BY <1>0, <2>1 DEF Script, KPR_websocketclient_send, KPR_websocketclient_close,
       KPR_websocketclient, Calls, OpenDeferred, EndpointDispose, SendDisposed, SendBytes,
       SendBytesFails, SendBytesError, KprSocketWriterDataWriter, DataWriterFails,
       DataWriterError, HandleError
  <2>2. ASSUME NEW e \in End, Passes(e) \/ Returns(e)
        PROVE  wrapper' \in [End -> {"none", "remembered", "forgotten", "collected"}]
    BY <1>0, <2>2 DEF Passes, EndPass, HandleResponse, HandleRefusal,
       HandleTextMessage, HandlePing, HandlePong, HandleCloseFrame, AnswerCloseFrame, ReadClosed,
       ReadFails, HandleError, Returns, ReturnScript, ReturnClosed, ReturnFailed, ReturnClosing,
       ReturnClose
  <2>3. ASSUME StartConnect \/ Connects \/ Accepts
        PROVE  wrapper' \in [End -> {"none", "remembered", "forgotten", "collected"}]
    BY <1>0, <2>3 DEF StartConnect, Connects, ConnectCallback_none, ConnectCallback,
       ConnectCallback_refused, ConnectCallback_unsent, ConnectCallback_cancelled, Accepts,
       HandleRequest, RejectRequest, ReturnConnect, ReturnUnhandled, KprWebSocketServerDispose, End
  <2>4. ASSUME \/ KPR_websocketserver_timeToPing \/ KPR_WebSocketServer_onInterfaceDrop
               \/ KPR_websocketserver \/ Break
        PROVE  wrapper' \in [End -> {"none", "remembered", "forgotten", "collected"}]
    BY <1>0, <2>4 DEF KPR_websocketserver_timeToPing, KPR_WebSocketServer_onInterfaceDrop,
       KPR_websocketserver, Break
  <2> QED BY <2>1, <2>2, <2>3, <2>4 DEF Next, Loop
<1> QED BY <1>1, <1>2, <1>3

LEMMA LogTyped ==
  ASSUME Typed, Next
  PROVE  LogType'
<1> USE DEF logVars, serverVars, netVars
<1>0. LogType /\ wire \in [End -> Seq(Item)]
  BY DEF Typed, LineType
<1>c. ASSUME NEW e \in End, NEW s, CallClose(e, s)
      PROVE  closes' \in [End -> Nat] /\ listed' \in BOOLEAN
  BY <1>0, <1>c DEF CallClose, LogType
<1>1. ASSUME NEW e \in End, Script(e) PROVE LogType'
  <2>1. ASSUME KPR_websocketclient_send(e) PROVE LogType'
    <3>1. said' \in [End -> Nat]
      BY <1>0, <2>1 DEF KPR_websocketclient_send, LogType
    <3> QED BY <1>0, <2>1, <3>1 DEF KPR_websocketclient_send, LogType
  <2>2. ASSUME KPR_websocketclient(e) PROVE LogType'
    <3>1. listed' \in BOOLEAN
      BY <1>0, <2>2 DEF KPR_websocketclient, LogType
    <3> QED BY <1>0, <2>2, <3>1 DEF KPR_websocketclient, LogType
  <2> QED BY <1>0, <1>1, <2>1, <2>2 DEF Script, KPR_websocketclient_close, LogType
<1>2. ASSUME NEW e \in End, Calls(e) PROVE LogType'
  BY <1>0, <1>2 DEF Calls, OpenDeferred, EndpointDispose, SendDisposed, SendBytes,
     SendBytesFails, SendBytesError, KprSocketWriterDataWriter, DataWriterFails, DataWriterError,
     HandleError, LogType
<1>3. ASSUME NEW e \in End, HandleTextMessage(e) PROVE LogType'
  <2>1. Head(wire[e]).n \in Nat
    <3>1. Head(wire[e]) \in Item
      BY <1>0, <1>3, Lines DEF HandleTextMessage, Reads
    <3> QED BY <3>1 DEF Item
  <2> QED BY <1>0, <1>3, <2>1 DEF HandleTextMessage, LogType
<1>4. ASSUME NEW e \in End, Passes(e) PROVE LogType'
  BY <1>0, <1>3, <1>4, <1>c DEF Passes, EndPass, HandleResponse, HandleRefusal,
     HandlePing, HandlePong, HandleCloseFrame, AnswerCloseFrame, ReadClosed,
     ReadFails, HandleError, Disconnect, LogType
<1>5. ASSUME NEW e \in End, Returns(e) PROVE LogType'
  BY <1>0, <1>5, <1>c DEF Returns, ReturnScript, ReturnClosed, ReturnFailed, ReturnClosing,
     ReturnClose, Disconnect, LogType
<1>6. ASSUME StartConnect \/ Connects PROVE LogType'
  BY <1>0, <1>6, <1>c DEF StartConnect, Connects, ConnectCallback_none, ConnectCallback,
     ConnectCallback_refused, ConnectCallback_unsent, ConnectCallback_cancelled, LogType, End
<1>7. ASSUME Accepts PROVE LogType'
  BY <1>0, <1>7 DEF Accepts, HandleRequest, RejectRequest,
     ReturnConnect, ReturnUnhandled, KprWebSocketServerDispose, LogType
<1>8. ASSUME \/ KPR_websocketserver_timeToPing \/ KPR_WebSocketServer_onInterfaceDrop
             \/ KPR_websocketserver \/ Break
      PROVE  LogType'
  BY <1>0, <1>8, <1>c DEF KPR_websocketserver_timeToPing, KPR_WebSocketServer_onInterfaceDrop,
     KPR_websocketserver, Break, LogType, End
<1> QED BY <1>1, <1>2, <1>4, <1>5, <1>6, <1>7, <1>8 DEF Next, Loop

LEMMA TypedStep ==
  ASSUME Typed, Next
  PROVE  Typed'
  BY EpTyped, StackTyped, QueueTyped, WireTyped, BacklogTyped, FlagsTyped, LogTyped
     DEF Typed, EndType, LineType

-----------------------------------------------------------------------------
(* The inductive invariant. *)

Has(s, f) == \E i \in 1 .. Len(s) : s[i] = f
HasKind(s, kinds) == \E i \in 1 .. Len(s) : s[i].kind \in kinds
Only(s, kinds) == \A i \in 1 .. Len(s) : s[i].kind \in kinds

\* These frames are at the bottom of a stack: nothing calls their functions.
Base == {"connect", "failed", "closed", "pass"}
WellShaped(q) == \A i \in 1 .. Len(q) : q[i] \in Base => i = 1
Shape(e) == WellShaped(stack[e])

\* The closing handshake: one call of the closing callback, one close frame; a
\* close frame of the peer is answered in the pass of the reader that read it.
Late == {"closing", "closed"}
Answers(q, r) ==
  /\ r.closeWasSent => r.state \in Late /\ ~Has(q, "closing")
  /\ \A i \in 1 .. Len(q) : q[i] = "closing" =>
       /\ r.state \in Late
       /\ \A j \in 1 .. Len(q) : q[j] = "closing" => i = j
       /\ r.closeWasReceived => i = 2 /\ q[1] = "pass"
  /\ r.closeWasReceived => r.state \in Late
  /\ r.cleanClose => r.closeWasReceived
Handshake(e) == Answers(stack[e], ep[e])

\* pendingSendCount is the number of posted sends, as far as a UInt8 goes.
SentCount(q) == Cardinality({i \in 1 .. Len(q) : q[i].kind \in Sent})
Counted(e) == ep[e].pendingSendCount = SentCount(queue[e]) % 256

\* What is posted and pending: at most one close frame.
Posted(e) ==
  /\ Only(queue[e], Sent \union {"start", "open", "dispose", "stop"})
  /\ Only(backlog[e], Sent)
  /\ HasKind(queue[e], {"start"}) => e = "client" /\ dial = "idle"
  /\ \A i \in 1 .. Len(queue[e]) : queue[e][i].kind = "close" =>
       /\ ep[e].closeWasSent
       /\ \A j \in 1 .. Len(queue[e]) : queue[e][j].kind = "close" => i = j
  /\ backlog[e] # <<>> => ep[e].socket = "endpoint"

\* Behind the dispose there is at most a close frame, and nothing else that
\* needs the endpoint; so the count of what is left cannot have wrapped.
Disposal(e) ==
  /\ \A i \in 1 .. Len(queue[e]) : queue[e][i].kind = "dispose" =>
       /\ wrapper[e] = "collected" /\ ~ep[e].disposeRequested /\ ~freed[e]
       /\ \A j \in i + 1 .. Len(queue[e]) : queue[e][j].kind \in {"close", "stop"}
  /\ ep[e].disposeRequested \/ freed[e] =>
       wrapper[e] = "collected" /\ Only(queue[e], {"close", "stop"})
  /\ freed[e] => Only(queue[e], {"stop"}) /\ stack[e] = <<>> /\ ep[e].socket = "none"

\* Once onclose was called the socket is closed, unless the interface of a
\* server was dropped, and nothing on the stack will report the end again.
Left(e) == closes[e] > 0 \/ Has(stack[e], "close") \/ wrapper[e] \in {"forgotten", "collected"}
Gone(e) ==
  Left(e) =>
    /\ e = "client" => dial = "done"
    /\ e = "server" => ~listed /\ ep[e].socket # "request"
    /\ ~(dropped /\ e = "server") =>
         /\ ep[e].socket = "none" /\ ~Has(stack[e], "closed")
         /\ ~(ep[e].closeWasReceived /\ Has(stack[e], "closing"))

\* An end that has not opened or closed yet.
Fresh(e) ==
  /\ ~ep[e].closeWasSent /\ ~ep[e].closeWasReceived
  /\ ep[e].state # "open" /\ ~Has(stack[e], "closing")

\* Before the client is connected.
Dialling ==
  dial # "done" =>
    /\ ep["server"] = Endpoint0 /\ wrapper["server"] = "none" /\ stack["server"] = <<>> /\ ~listed
    /\ Fresh("client") /\ ep["client"].socket = "none" /\ ~Has(stack["client"], "closed")
    /\ \A e \in End : ~Left(e) /\ wire[e] = <<>> /\ said[e] = 0 /\ heard[e] = <<>>
    /\ Only(queue["server"], {"stop"})
    /\ queue["client"] = IF dial = "idle" THEN <<Frame("start")>> ELSE <<>>

\* Before the server's onconnect has returned.
Accepting ==
  /\ ep["server"].socket = "request" =>
       /\ Fresh("server") /\ dial = "done" /\ ~listed
       /\ wrapper["server"] \in {"none", "remembered"}
       /\ Only(queue["server"], {"stop"})
       /\ said["server"] = 0 /\ heard["client"] = <<>>
       /\ ~HasKind(wire["client"], {"text", "close"})
  /\ \A e \in End : Has(stack[e], "connect") =>
       e = "server" /\ ep[e].socket = "request" /\ wrapper[e] = "remembered"
  /\ ep["server"].socket = "endpoint" => wrapper["server"] # "none"
  /\ wrapper["client"] # "none"

\* There is one request and one answer to it, and nothing of the server is
\* before the answer.
Response ==
  /\ ~HasKind(wire["server"], {"response", "ping"}) /\ ~HasKind(queue["client"], {"ping"})
  /\ ~HasKind(backlog["client"], {"ping"})
  /\ \A i \in 1 .. Len(wire["server"]) : wire["server"][i].kind = "request" =>
       /\ i = 1 /\ ep["server"].socket = "request"
       /\ Fresh("client") /\ Only(wire["client"], {"fin", "fail"})
       /\ wire["client"] = <<>> \/ Ended(wire["client"])
  /\ \A i \in 1 .. Len(wire["client"]) : wire["client"][i].kind = "response" =>
       i = 1 /\ Fresh("client") /\ ~HasKind(wire["server"], {"request"})
  /\ Has(stack["server"], "connect") => ~HasKind(wire["server"], {"request"})

-----------------------------------------------------------------------------
(* What a step of one end leaves alone, and what is on its stack afterwards. *)

LEMMA Elsewhere ==
  ASSUME Typed, NEW e \in End, Script(e) \/ Loop(e), NEW d \in End, d # e
  PROVE  /\ ep'[d] = ep[d] /\ stack'[d] = stack[d] /\ queue'[d] = queue[d]
         /\ backlog'[d] = backlog[d] /\ wrapper'[d] = wrapper[d] /\ freed'[d] = freed[d]
         /\ closes'[d] = closes[d] /\ heard'[d] = heard[d] /\ said'[d] = said[d]
         /\ dial' = dial /\ dropped' = dropped /\ server' = server
         /\ listed' => listed
<1> USE DEF netVars, serverVars, logVars, boundVars, SetEp, SetStack, Post, Dequeue
<1>0. EndType /\ LineType /\ LogType
  BY DEF Typed
<1> USE DEF EndType, LineType, LogType
<1>1. CASE Script(e)
  BY <1>0, <1>1 DEF Script, KPR_websocketclient_send, KPR_websocketclient_close,
     KPR_websocketclient, SendRawFrame, CallError, Close
<1>2. CASE Calls(e)
  <2>1. CASE OpenDeferred(e) \/ EndpointDispose(e) \/ SendDisposed(e)
    BY <1>0, <2>1 DEF OpenDeferred, EndpointDispose, SendDisposed, Free
  <2>2. CASE SendBytes(e) \/ SendBytesFails(e) \/ SendBytesError(e)
    BY <1>0, <2>2 DEF SendBytes, SendBytesFails, SendBytesError, HandleError, CallError
  <2>3. CASE KprSocketWriterDataWriter(e) \/ DataWriterFails(e) \/ DataWriterError(e)
    BY <1>0, <2>3 DEF KprSocketWriterDataWriter, DataWriterFails, DataWriterError, HandleError,
       CallError
  <2> QED BY <1>2, <2>1, <2>2, <2>3 DEF Calls
<1>3. CASE Passes(e)
  BY <1>0, <1>3 DEF Passes, EndPass, HandleResponse, HandleRefusal, HandleTextMessage, HandlePing,
     HandlePong, HandleCloseFrame, AnswerCloseFrame, ReadClosed, ReadFails, HandleError,
     Disconnect, CallClose, SendRawFrame, CallError
<1>4. CASE Returns(e)
  BY <1>0, <1>4 DEF Returns, ReturnScript, ReturnClosed, ReturnFailed, ReturnClosing, ReturnClose,
     Disconnect, CallClose, Close
<1> QED BY <1>1, <1>2, <1>3, <1>4 DEF Loop

LEMMA HasFacts ==
  ASSUME NEW q \in Seq(Place), NEW f \in Place
  PROVE  /\ \A x \in Place : Has(Append(q, f), x) <=> Has(q, x) \/ f = x
         /\ \A x : ~Has(<<>>, x)
         /\ \A x : Has(<<f>>, x) <=> f = x
         /\ \A g \in Place, x \in Place : Has(<<f, g>>, x) <=> f = x \/ g = x
         /\ \A x : q # <<>> /\ Has(Front(q), x) => Has(q, x)
         /\ \A x : q # <<>> /\ Has(q, x) /\ Last(q) # x => Has(Front(q), x)
<1>1. \A x \in Place : Has(Append(q, f), x) <=> Has(q, x) \/ f = x
  BY DEF Has
<1>2. /\ \A x : ~Has(<<>>, x)
      /\ \A x : Has(<<f>>, x) <=> f = x
      /\ \A g \in Place, x \in Place : Has(<<f, g>>, x) <=> f = x \/ g = x
  BY DEF Has
<1>3. \A x : q # <<>> /\ Has(Front(q), x) => Has(q, x)
  BY FrontLast DEF Has
<1>4. \A x : q # <<>> /\ Has(q, x) /\ Last(q) # x => Has(Front(q), x)
  BY FrontLast DEF Has
<1> QED BY <1>1, <1>2, <1>3, <1>4

LEMMA ShapeFacts ==
  ASSUME NEW q \in Seq(Place), WellShaped(q)
  PROVE  /\ \A f \in Place \ Base : WellShaped(Append(q, f))
         /\ q # <<>> => WellShaped(Front(q))
         /\ q # <<>> /\ Last(q) \in Base => q = <<Last(q)>> /\ Front(q) = <<>>
<1>1. \A f \in Place \ Base : WellShaped(Append(q, f))
  BY DEF WellShaped
<1>2. q # <<>> => WellShaped(Front(q))
  BY FrontLast DEF WellShaped
<1>3. ASSUME q # <<>>, Last(q) \in Base PROVE q = <<Last(q)>> /\ Front(q) = <<>>
  <2>1. /\ Last(q) = q[Len(q)] /\ Len(q) \in 1 .. Len(q)
        /\ Front(q) \in Seq(Place) /\ Len(Front(q)) = Len(q) - 1
    BY <1>3, FrontLast
  <2>2. Len(q) = 1
    BY <1>3, <2>1 DEF WellShaped
  <2> QED BY <2>1, <2>2
<1> QED BY <1>1, <1>2, <1>3

LEMMA BaseTop ==
  ASSUME Typed, NEW e \in End, Shape(e), NEW f \in Base, Top(e, f)
  PROVE  stack[e] = <<f>> /\ Below(e) = <<>>
<1>1. stack[e] \in Seq(Place) /\ stack[e] # <<>> /\ Last(stack[e]) = f
  BY DEF Typed, LineType, Top, Idle
<1> QED BY <1>1, ShapeFacts DEF Shape, Below

LEMMA ShapeStep ==
  ASSUME Typed, NEW e \in End, Shape(e), Script(e) \/ Loop(e)
  PROVE  Shape(e)'
<1>0. stack \in [End -> Seq(Place)] /\ stack[e] \in Seq(Place) /\ WellShaped(stack[e])
  BY DEF Typed, LineType, Shape
<1>1. WellShaped(<<>>) /\ WellShaped(Pass) /\ \A f \in Place : WellShaped(<<f>>)
  BY DEF WellShaped, Pass
<1>2. \A f : Top(e, f) => Below(e) \in Seq(Place) /\ WellShaped(Below(e))
  BY <1>0, FrontLast, ShapeFacts DEF Top, Idle, Below
<1>3. /\ {"error", "closing", "message", "close"} \subseteq Place \ Base
      /\ Base \subseteq Place
  BY DEF Place, Base
<1>t. <<>> \in Seq(Place) /\ Pass \in Seq(Place) /\ \A f \in Place : <<f>> \in Seq(Place)
  BY DEF Place, Pass
<1>c. \A f \in Place : WellShaped(Append(<<>>, f))
  BY DEF WellShaped
<1>4. ASSUME NEW q \in Seq(Place), SetStack(e, q), WellShaped(q) PROVE WellShaped(stack'[e])
  BY <1>0, <1>4 DEF SetStack
<1>a. ASSUME NEW q \in Seq(Place), WellShaped(q), NEW f \in Place \ Base
      PROVE  Append(q, f) \in Seq(Place) /\ WellShaped(Append(q, f))
  BY <1>a, ShapeFacts
<1>5. Top(e, "closed") \/ Top(e, "failed") => Below(e) = <<>>
  BY BaseTop DEF Base
<1>f. {"connect", "message", "error", "closed", "failed", "closing", "close", "pass"} = Place
  BY DEF Place
<1>r. \A f \in Place : Append(<<>>, f) \in Seq(Place)
  OBVIOUS
<1> USE <1>0, <1>1, <1>2, <1>3, <1>4, <1>a, <1>t, <1>c, <1>f, <1>r
<1>6. ASSUME Script(e) PROVE WellShaped(stack'[e])
  BY <1>6 DEF Script, KPR_websocketclient_send, KPR_websocketclient_close,
     KPR_websocketclient, SendRawFrame, CallError, Close
<1>7. ASSUME Calls(e) PROVE WellShaped(stack'[e])
  BY <1>7 DEF Calls, OpenDeferred, EndpointDispose, SendDisposed, SendBytes,
     SendBytesFails, SendBytesError, KprSocketWriterDataWriter, DataWriterFails, DataWriterError,
     HandleError, CallError
<1>8. ASSUME Passes(e) PROVE WellShaped(stack'[e])
  BY <1>8 DEF Passes, EndPass, HandleResponse, HandleRefusal,
     HandleTextMessage, HandlePing, HandlePong, HandleCloseFrame, AnswerCloseFrame, ReadClosed,
     ReadFails, HandleError, Disconnect, CallClose, SendRawFrame, CallError
<1>9. ASSUME Returns(e) PROVE WellShaped(stack'[e])
  BY <1>9 DEF Returns, ReturnScript, ReturnClosed, ReturnFailed,
     ReturnClosing, ReturnClose, Disconnect, CallClose, Close
<1>10. WellShaped(stack'[e])
  BY <1>6, <1>7, <1>8, <1>9 DEF Loop
<1> QED BY <1>10 DEF Shape

\* A record that goes no further in the handshake than another.
Kin(r, t) ==
  /\ r.state \in Late => t.state \in Late
  /\ t.closeWasSent = r.closeWasSent /\ t.closeWasReceived = r.closeWasReceived
  /\ t.cleanClose = r.cleanClose

LEMMA AnswersFacts ==
  ASSUME NEW q \in Seq(Place), NEW r \in EndpointRecord, Answers(q, r)
  PROVE  /\ \A t : Kin(r, t) => Answers(q, t)
         /\ \A f \in Place \ {"closing"} : Answers(Append(q, f), r)
         /\ q # <<>> => Answers(Front(q), r)
         /\ \A s \in Seq(Place) : ~Has(s, "closing") => Answers(s, r)
<1>1. \A t : Kin(r, t) => Answers(q, t)
  BY DEF Kin, Answers
<1>2. ASSUME NEW f \in Place \ {"closing"} PROVE Answers(Append(q, f), r)
  <2>1. Has(Append(q, f), "closing") <=> Has(q, "closing")
    BY HasFacts DEF Place
  <2>2. /\ Len(Append(q, f)) = Len(q) + 1 /\ \A i \in 1 .. Len(q) : Append(q, f)[i] = q[i]
        /\ Append(q, f)[Len(q) + 1] = f /\ Len(q) \in Nat
    OBVIOUS
  <2>3. \A i \in 1 .. Len(q) + 1 : Append(q, f)[i] = "closing" => i \in 1 .. Len(q)
    BY <2>2
  <2> QED BY <2>1, <2>2, <2>3 DEF Answers
<1>3. ASSUME q # <<>> PROVE Answers(Front(q), r)
  <2>1. Has(Front(q), "closing") => Has(q, "closing")
    BY <1>3, HasFacts DEF Place
  <2>2. /\ Len(Front(q)) = Len(q) - 1 /\ \A i \in 1 .. Len(q) - 1 : Front(q)[i] = q[i]
        /\ Len(q) \in Nat \ {0}
    BY <1>3, FrontLast
  <2> QED BY <2>1, <2>2 DEF Answers
<1>4. \A s \in Seq(Place) : ~Has(s, "closing") => Answers(s, r)
  BY DEF Answers, Has
<1> QED BY <1>1, <1>2, <1>3, <1>4

LEMMA ClosingTop ==
  ASSUME NEW q \in Seq(Place), NEW r \in EndpointRecord, Answers(q, r), q # <<>>,
         Last(q) = "closing"
  PROVE  /\ ~Has(Front(q), "closing") /\ ~r.closeWasSent /\ r.state \in Late
         /\ r.closeWasReceived => Front(q) = Pass
<1>1. /\ q[Len(q)] = "closing" /\ Len(q) \in 1 .. Len(q)
      /\ Front(q) \in Seq(Place) /\ Len(Front(q)) = Len(q) - 1
      /\ \A i \in 1 .. Len(q) - 1 : Front(q)[i] = q[i]
  BY FrontLast
<1>2. ~r.closeWasSent /\ r.state \in Late
  BY <1>1 DEF Answers, Has
<1>3. ~Has(Front(q), "closing")
  <2>1. \A i \in 1 .. Len(q) - 1 : q[i] # "closing"
    BY <1>1 DEF Answers
  <2> QED BY <1>1, <2>1 DEF Has
<1>4. ASSUME r.closeWasReceived PROVE Front(q) = Pass
  <2>1. Len(q) = 2 /\ q[1] = "pass"
    BY <1>1, <1>4 DEF Answers
  <2>2. Len(Front(q)) = 1 /\ Front(q)[1] = "pass"
    BY <1>1, <2>1
  <2> QED BY <1>1, <2>2 DEF Pass
<1> QED BY <1>2, <1>3, <1>4

\* The closing callback is called: from the open state, or for a close frame.
LEMMA ClosingPushed ==
  ASSUME NEW q \in Seq(Place), NEW r \in EndpointRecord, NEW t \in EndpointRecord,
         Answers(q, r), t.state = "closing", t.closeWasSent = r.closeWasSent
  PROVE  /\ r.state = "open" /\ Kin(r, t) => Answers(Append(q, "closing"), t)
         /\ ~r.closeWasSent /\ t.closeWasReceived => Answers(Append(Pass, "closing"), t)
<1>1. ASSUME r.state = "open", Kin(r, t) PROVE Answers(Append(q, "closing"), t)
  <2>1. ~t.closeWasSent /\ ~t.closeWasReceived /\ ~t.cleanClose
    BY <1>1 DEF Answers, Kin, Late
  <2>2. \A i \in 1 .. Len(q) : q[i] # "closing"
    BY <1>1 DEF Answers, Late
  <2>3. /\ Len(Append(q, "closing")) = Len(q) + 1 /\ \A i \in 1 .. Len(q) : Append(q, "closing")[i] = q[i]
        /\ Len(q) \in Nat
    OBVIOUS
  <2>4. \A i \in 1 .. Len(q) + 1 : Append(q, "closing")[i] = "closing" => i = Len(q) + 1
    BY <2>2, <2>3
  <2> QED BY <2>1, <2>3, <2>4 DEF Answers, Late
<1>2. ASSUME ~r.closeWasSent, t.closeWasReceived PROVE Answers(Append(Pass, "closing"), t)
  <2>1. /\ Len(Append(Pass, "closing")) = 2
        /\ Append(Pass, "closing")[1] = "pass"
    BY DEF Pass
  <2>2. \A i \in 1 .. 2 : Append(Pass, "closing")[i] = "closing" => i = 2
    BY <2>1
  <2> QED BY <1>2, <2>1, <2>2 DEF Answers, Late
<1> QED BY <1>1, <1>2

LEMMA HandshakeStep ==
  ASSUME Typed, NEW e \in End, Shape(e), Handshake(e), Response, Script(e) \/ Loop(e)
  PROVE  Handshake(e)'
<1> DEFINE q == stack[e]
           r == ep[e]
<1>0. /\ ep \in [End -> EndpointRecord] /\ stack \in [End -> Seq(Place)]
      /\ q \in Seq(Place) /\ r \in EndpointRecord /\ Answers(q, r)
  BY DEF Typed, EndType, LineType, Handshake
<1> HIDE DEF q, r
<1>s. ASSUME NEW s, SetStack(e, s) PROVE stack'[e] = s
  BY <1>0, <1>s DEF SetStack
<1>p. ASSUME NEW t, SetEp(e, t) PROVE ep'[e] = t
  BY <1>0, <1>p DEF SetEp
<1>u. /\ UNCHANGED stack => stack'[e] = q
      /\ UNCHANGED ep => ep'[e] = r
  BY DEF q, r
<1>k. /\ Kin(r, r) /\ Kin(r, More(r)) /\ Kin(r, Fewer(r)) /\ Kin(r, Closed(r)) /\ Kin(r, Closing(r))
      /\ Kin(r, Requested(r)) /\ Kin(r, Closed(Fewer(r)))
  <2>1. Fewer(r) \in EndpointRecord
    BY <1>0, FewerFacts
  <2>2. Kin(r, r) /\ Kin(r, More(r)) /\ Kin(r, Fewer(r)) /\ Kin(r, Requested(r))
    BY <1>0, MoreFacts, FewerFacts, RequestedFacts DEF Kin
  <2>3. Kin(r, Closed(r)) /\ Kin(r, Closing(r))
    BY <1>0, ClosedFacts, ClosingFacts DEF Kin, Late
  <2>4. Kin(r, Closed(Fewer(r)))
    BY <1>0, <2>1, FewerFacts, ClosedFacts DEF Kin, Late
  <2> QED BY <2>2, <2>3, <2>4
<1>t. ASSUME NEW s \in Seq(Place), NEW t \in EndpointRecord, Answers(s, r), Kin(r, t)
      PROVE  Answers(s, t)
  BY <1>0, <1>t, AnswersFacts
<1>1. ASSUME Script(e) PROVE Answers(stack'[e], ep'[e])
  <2>1. ASSUME KPR_websocketclient_send(e) PROVE Answers(stack'[e], ep'[e])
    <3>1. \/ ep'[e] = More(r) /\ stack'[e] = q
          \/ ep'[e] = r /\ stack'[e] = Append(q, "error")
      BY <1>s, <1>p, <1>u, <2>1 DEF KPR_websocketclient_send, SendRawFrame, CallError, q, r
    <3> QED BY <1>0, <1>k, <3>1, AnswersFacts DEF Place
  <2>2. ASSUME KPR_websocketclient_close(e) PROVE Answers(stack'[e], ep'[e])
    <3>1. /\ ep'[e] = Closing(r)
          /\ stack'[e] = IF r.state = "open" THEN Append(q, "closing") ELSE q
      BY <1>s, <1>p, <2>2 DEF KPR_websocketclient_close, Close, q, r
    <3> QED BY <1>0, <1>k, <3>1, AnswersFacts, ClosingPushed, ClosingFacts
  <2> QED BY <1>0, <1>1, <1>u, <2>1, <2>2 DEF Script, KPR_websocketclient
<1>n. /\ ~Has(Pass, "closing") /\ Pass \in Seq(Place) /\ ~Has(<<>>, "closing") /\ <<>> \in Seq(Place)
      /\ \A f \in Place \ {"closing"} :
           /\ ~Has(Append(Pass, f), "closing") /\ Append(Pass, f) \in Seq(Place)
           /\ ~Has(Append(<<>>, f), "closing") /\ Append(<<>>, f) \in Seq(Place)
      /\ <<"message">> \in Seq(Place) /\ ~Has(<<"message">>, "closing")
      /\ {"message", "error", "close", "closed", "failed", "connect"} \subseteq Place \ {"closing"}
  BY DEF Has, Place, Pass
<1>2. ASSUME Calls(e) PROVE Answers(stack'[e], ep'[e])
  <2>1. \/ ep'[e] \in {r, Fewer(r), Requested(r), Closed(r), Closed(Fewer(r))}
           /\ (stack'[e] = q \/ stack'[e] = <<"message">>)
        \/ /\ ep'[e] \in {r, Fewer(r)}
           /\ stack'[e] \in {<<>>, Append(<<>>, "closed"), Append(<<>>, "failed")}
    BY <1>2, <1>s, <1>p, <1>u, EpMoves DEF Calls, OpenDeferred, SendDisposed, SendBytes,
       SendBytesFails, SendBytesError, KprSocketWriterDataWriter, DataWriterFails,
       DataWriterError, HandleError, EndpointDispose, Free, CallError, q, r
  <2>2. Kin(r, ep'[e])
    BY <1>k, <2>1
  <2>3. stack'[e] = q \/ (stack'[e] \in Seq(Place) /\ ~Has(stack'[e], "closing"))
    <3>1. \/ stack'[e] = q \/ stack'[e] = <<"message">>
          \/ stack'[e] \in {<<>>, Append(<<>>, "closed"), Append(<<>>, "failed")}
      BY <2>1
    <3>2. {"closed", "failed"} \subseteq Place \ {"closing"}
      BY <1>n
    <3>3. <<>> \in Seq(Place) /\ ~Has(<<>>, "closing")
      BY DEF Has
    <3> QED BY <1>n, <3>1, <3>2, <3>3
  <2> QED BY <1>0, <2>2, <2>3, AnswersFacts
<1>3. ASSUME Passes(e) PROVE Answers(stack'[e], ep'[e])
  <2>1. ASSUME HandleResponse(e) PROVE Answers(stack'[e], ep'[e])
    <3>1. stack'[e] = Pass /\ ep'[e] = Opened(r)
      BY <1>s, <1>p, <2>1, EpMoves DEF HandleResponse, r
    <3>2. ~r.closeWasSent /\ ~r.closeWasReceived
      <4>1. /\ wire[e] \in Seq(Item) /\ wire[e] # <<>>
            /\ Head(wire[e]).kind = "response"
        BY <2>1 DEF HandleResponse, Reads, Typed, LineType
      <4>2. 1 \in 1 .. Len(wire[e]) /\ wire[e][1].kind = "response"
        BY <4>1
      <4>3. e = "client"
        BY <4>2, Ends2 DEF Response, HasKind
      <4> QED BY <4>2, <4>3 DEF Response, Fresh, r
    <3>3. Opened(r).closeWasSent = r.closeWasSent /\ Opened(r).closeWasReceived = r.closeWasReceived
          /\ Opened(r).cleanClose = r.cleanClose
      BY <1>0, OpenedFacts
    <3>4. ~r.cleanClose
      BY <1>0, <3>2 DEF Answers
    <3> QED BY <1>n, <3>1, <3>2, <3>3, <3>4 DEF Answers, Has
  <2>2. ASSUME AnswerCloseFrame(e) PROVE Answers(stack'[e], ep'[e])
    <3>1. stack'[e] = Append(Pass, "closing") /\ ep'[e] = Answering(Got(r)) /\ ~r.closeWasSent
      BY <1>s, <1>p, <2>2, EpMoves DEF AnswerCloseFrame, r
    <3>2. Got(r) \in EndpointRecord /\ Answering(Got(r)) \in EndpointRecord
      BY <1>0, GotFacts, AnsweringFacts
    <3>3. /\ Answering(Got(r)).state = "closing" /\ Answering(Got(r)).closeWasReceived
          /\ Answering(Got(r)).closeWasSent = r.closeWasSent
      BY <1>0, <3>2, GotFacts, AnsweringFacts
    <3> QED BY <1>0, <3>1, <3>2, <3>3, ClosingPushed
  <2>3. ASSUME HandleCloseFrame(e) PROVE Answers(stack'[e], ep'[e])
    <3>1. stack'[e] = Append(Pass, "close") /\ ep'[e] = Closed(Got(r))
      BY <1>s, <1>p, <2>3, EpMoves DEF Disconnect, CallClose, r
    <3>2. Got(r) \in EndpointRecord
      BY <1>0, GotFacts
    <3>3. /\ Closed(Got(r)).state = "closed" /\ Closed(Got(r)).closeWasReceived
      BY <1>0, <3>2, GotFacts, ClosedFacts
    <3> QED BY <1>n, <3>1, <3>3 DEF Answers, Has, Late
  <2>4. ASSUME EndPass(e) PROVE Answers(stack'[e], ep'[e])
    <3>1. stack'[e] = <<>> /\ ep'[e] = r
      BY <1>s, <1>u, <2>4, BaseTop DEF EndPass, Base
    <3> QED BY <1>0, <1>n, <3>1, AnswersFacts
  <2>5. ASSUME HandleRefusal(e) PROVE Answers(stack'[e], ep'[e])
    <3>1. stack'[e] = Append(Pass, "close") /\ ep'[e] = Closed(r)
      BY <1>s, <1>p, <2>5 DEF HandleRefusal, Disconnect, CallClose, r
    <3>2. Closed(r) \in EndpointRecord /\ Answers(q, Closed(r))
      BY <1>0, <1>k, ClosedFacts, AnswersFacts
    <3> QED BY <1>0, <1>n, <3>1, <3>2, AnswersFacts
  <2>6. ASSUME \/ HandleTextMessage(e) \/ HandlePing(e) \/ HandlePong(e) \/ ReadClosed(e)
               \/ ReadFails(e)
        PROVE  Answers(stack'[e], ep'[e])
    <3>1. /\ ep'[e] = r \/ ep'[e] = More(r)
          /\ stack'[e] \in Seq(Place) /\ ~Has(stack'[e], "closing")
      BY <1>s, <1>p, <1>u, <1>n, <2>6 DEF HandleTextMessage, HandlePing, HandlePong, ReadClosed,
         ReadFails, HandleError, SendRawFrame, CallError, r
    <3>2. ep'[e] \in EndpointRecord /\ Answers(q, ep'[e])
      BY <1>0, <1>k, <3>1, MoreFacts, AnswersFacts
    <3> QED BY <1>0, <3>1, <3>2, AnswersFacts
  <2> QED BY <1>3, <2>1, <2>2, <2>3, <2>4, <2>5, <2>6 DEF Passes
<1>4. ASSUME Returns(e) PROVE Answers(stack'[e], ep'[e])
  <2>b. \A f : Top(e, f) => q # <<>> /\ Last(q) = f /\ Below(e) = Front(q)
    BY DEF Top, Idle, Below, q
  <2>1. ASSUME ReturnScript(e) \/ ReturnClose(e) PROVE Answers(stack'[e], ep'[e])
    <3>1. q # <<>> /\ stack'[e] = Front(q) /\ ep'[e] = r
      BY <1>s, <1>u, <2>1, <2>b DEF ReturnScript, ReturnClose
    <3> QED BY <1>0, <3>1, AnswersFacts
  <2>2. ASSUME ReturnClosed(e) PROVE Answers(stack'[e], ep'[e])
    <3>1. stack'[e] = Append(<<>>, "close") /\ ep'[e] = Closed(r)
      BY <1>s, <1>p, <2>2, BaseTop DEF ReturnClosed, Disconnect, CallClose, Base, r
    <3>2. Closed(r) \in EndpointRecord /\ Answers(q, Closed(r))
      BY <1>0, <1>k, ClosedFacts, AnswersFacts
    <3> QED BY <1>0, <1>n, <3>1, <3>2, AnswersFacts
  <2>3. ASSUME ReturnFailed(e) PROVE Answers(stack'[e], ep'[e])
    <3>1. /\ stack'[e] = IF r.state = "open" THEN Append(<<>>, "closing") ELSE <<>>
          /\ ep'[e] = Closing(r)
      BY <1>s, <1>p, <2>3, BaseTop DEF ReturnFailed, Close, Base, r
    <3>2. Closing(r) \in EndpointRecord /\ Answers(q, Closing(r)) /\ Answers(<<>>, r)
      BY <1>0, <1>k, <1>n, ClosingFacts, AnswersFacts
    <3>3. Closing(r).closeWasSent = r.closeWasSent /\ (r.state = "open" => Closing(r).state = "closing")
      BY <1>0, ClosingFacts
    <3>4. CASE r.state = "open"
      BY <1>0, <1>k, <1>n, <3>1, <3>2, <3>3, <3>4, ClosingPushed
    <3>5. CASE r.state # "open"
      BY <1>0, <1>k, <1>n, <3>1, <3>2, <3>5, AnswersFacts
    <3> QED BY <3>4, <3>5
  <2>4. ASSUME ReturnClosing(e) PROVE Answers(stack'[e], ep'[e])
    <3> DEFINE a == Announced(More(r))
    <3>1. More(r) \in EndpointRecord /\ a \in EndpointRecord
      BY <1>0, MoreFacts, AnnouncedFacts
    <3>2. /\ a.state = r.state /\ a.closeWasReceived = r.closeWasReceived /\ a.cleanClose = r.cleanClose
      <4>1. /\ More(r).state = r.state /\ More(r).closeWasReceived = r.closeWasReceived
            /\ More(r).cleanClose = r.cleanClose
        BY <1>0, MoreFacts
      <4> QED BY <3>1, <4>1, AnnouncedFacts
    <3>3. Clean(a) \in EndpointRecord
      BY <3>1, CleanFacts
    <3>4. /\ Closed(Clean(a)).state = "closed"
          /\ Closed(Clean(a)).closeWasReceived = r.closeWasReceived
      BY <3>1, <3>2, <3>3, CleanFacts, ClosedFacts
    <3>5. q # <<>> /\ Last(q) = "closing" /\ Below(e) = Front(q)
      BY <2>4, <2>b DEF ReturnClosing
    <3>6. /\ ~Has(Front(q), "closing") /\ r.state \in Late
          /\ r.closeWasReceived => Front(q) = Pass
      BY <1>0, <3>5, ClosingTop
    <3>7. IF r.closeWasReceived
          THEN ep'[e] = Closed(Clean(a)) /\ stack'[e] = Append(Front(q), "close")
          ELSE ep'[e] = a /\ stack'[e] = Front(q)
      BY <1>s, <1>p, <2>4, <3>2, <3>5, EpMoves DEF Disconnect, CallClose, r
    <3>8. CASE r.closeWasReceived
      BY <1>n, <3>4, <3>6, <3>7, <3>8 DEF Answers, Has, Late
    <3>9. CASE ~r.closeWasReceived
      <4>1. ~r.cleanClose
        BY <1>0, <3>9 DEF Answers
      <4> HIDE DEF a
      <4> QED BY <3>2, <3>6, <3>7, <3>9, <4>1 DEF Answers, Has
    <3> QED BY <3>8, <3>9
  <2> QED BY <1>4, <2>1, <2>2, <2>3, <2>4 DEF Returns
<1> QED BY <1>1, <1>2, <1>3, <1>4 DEF Handshake, Loop

-----------------------------------------------------------------------------
(* The number of posted sends. *)

LEMMA CountNat ==
  ASSUME NEW q \in Seq(Item)
  PROVE  /\ IsFiniteSet({i \in 1 .. Len(q) : q[i].kind \in Sent})
         /\ SentCount(q) \in Nat
<1>1. IsFiniteSet(1 .. Len(q))
  BY FS_Interval
<1>2. IsFiniteSet({i \in 1 .. Len(q) : q[i].kind \in Sent})
  BY <1>1, FS_Subset
<1> QED BY <1>2, FS_CardinalityType DEF SentCount

LEMMA CountAppend ==
  ASSUME NEW q \in Seq(Item), NEW f \in Item
  PROVE  SentCount(Append(q, f)) = IF f.kind \in Sent THEN SentCount(q) + 1 ELSE SentCount(q)
<1> DEFINE A == {i \in 1 .. Len(q) : q[i].kind \in Sent}
           B == {i \in 1 .. Len(Append(q, f)) : Append(q, f)[i].kind \in Sent}
<1>1. /\ Len(Append(q, f)) = Len(q) + 1 /\ Len(q) \in Nat
      /\ \A i \in 1 .. Len(q) : Append(q, f)[i] = q[i]
      /\ Append(q, f)[Len(q) + 1] = f
  OBVIOUS
<1>2. IsFiniteSet(A) /\ Len(q) + 1 \notin A
  BY <1>1, CountNat
<1>3. CASE f.kind \in Sent
  <2>1. B = A \cup {Len(q) + 1}
    BY <1>1, <1>3
  <2> QED BY <1>2, <1>3, <2>1, FS_AddElement DEF SentCount
<1>4. CASE f.kind \notin Sent
  <2>1. B = A
    BY <1>1, <1>4
  <2> QED BY <1>4, <2>1 DEF SentCount
<1> QED BY <1>3, <1>4

LEMMA CountTail ==
  ASSUME NEW q \in Seq(Item), q # <<>>
  PROVE  SentCount(q) = IF Head(q).kind \in Sent THEN SentCount(Tail(q)) + 1 ELSE SentCount(Tail(q))
<1> DEFINE A == {i \in 1 .. Len(Tail(q)) : Tail(q)[i].kind \in Sent}
           C == {i \in 2 .. Len(q) : q[i].kind \in Sent}
           B == {i \in 1 .. Len(q) : q[i].kind \in Sent}
           g == [i \in A |-> i + 1]
<1>1. /\ Tail(q) \in Seq(Item) /\ Len(Tail(q)) = Len(q) - 1 /\ Len(q) \in Nat \ {0}
      /\ \A i \in 1 .. Len(q) - 1 : Tail(q)[i] = q[i + 1]
      /\ Head(q) = q[1]
  OBVIOUS
<1>2. IsFiniteSet(A) /\ SentCount(Tail(q)) = Cardinality(A)
  BY <1>1, CountNat DEF SentCount
<1>3. IsFiniteSet(C) /\ Cardinality(C) = Cardinality(A)
  <2>1. \A i \in A : i \in 1 .. Len(q) - 1 /\ i + 1 \in C
    BY <1>1
  <2>2. \A j \in C : j - 1 \in A /\ j = (j - 1) + 1
    BY <1>1
  <2>3. g \in [A -> C] /\ (\A i, j \in A : g[i] = g[j] => i = j)
    BY <2>1
  <2>4. \A j \in C : \E i \in A : g[i] = j
    BY <2>2
  <2>5. ExistsBijection(A, C)
    <3> HIDE DEF g, A, C
    <3>1. g \in Bijection(A, C)
      BY <2>3, <2>4, Fun_IsBij
    <3> QED BY <3>1 DEF ExistsBijection
  <2> QED BY <1>2, <2>5, FS_Bijection
<1>4. CASE Head(q).kind \in Sent
  <2>1. B = C \cup {1} /\ 1 \notin C
    BY <1>1, <1>4
  <2> QED BY <1>2, <1>3, <1>4, <2>1, FS_AddElement DEF SentCount
<1>5. CASE Head(q).kind \notin Sent
  <2>1. B = C
    BY <1>1, <1>5
  <2> QED BY <1>2, <1>3, <1>5, <2>1 DEF SentCount
<1> QED BY <1>4, <1>5

LEMMA CountNone ==
  ASSUME NEW q \in Seq(Item)
  PROVE  SentCount(q) = 0 => \A i \in 1 .. Len(q) : q[i].kind \notin Sent
<1> DEFINE A == {i \in 1 .. Len(q) : q[i].kind \in Sent}
<1>1. IsFiniteSet(A) /\ SentCount(q) = Cardinality(A)
  BY CountNat DEF SentCount
<1>2. SentCount(q) = 0 => A = {}
  <2> HIDE DEF A
  <2> QED BY <1>1, FS_EmptySet
<1> QED BY <1>2

LEMMA CountOne ==
  ASSUME NEW q \in Seq(Item),
         \A i, j \in 1 .. Len(q) : q[i].kind \in Sent /\ q[j].kind \in Sent => i = j
  PROVE  SentCount(q) \in {0, 1}
<1> DEFINE A == {i \in 1 .. Len(q) : q[i].kind \in Sent}
<1>1. CASE A = {}
  BY <1>1, FS_EmptySet DEF SentCount
<1>2. CASE A # {}
  <2>1. PICK i : i \in A
    BY <1>2
  <2>2. A = {i}
    BY <2>1
  <2> QED BY <2>2, FS_Singleton DEF SentCount
<1> QED BY <1>1, <1>2

-----------------------------------------------------------------------------
(* What an end does to its event queue. *)

\* The fields that go with the queue stay as they are.
Steady(e) ==
  /\ ep'[e].pendingSendCount = ep[e].pendingSendCount
  /\ ep'[e].closeWasSent = ep[e].closeWasSent

\* One more send, one send less.
CountsOn(e) == ep'[e].pendingSendCount = (ep[e].pendingSendCount + 1) % 256
CountsOff(e) ==
  /\ ep'[e].pendingSendCount = (ep[e].pendingSendCount + 255) % 256
  /\ ep'[e].closeWasSent = ep[e].closeWasSent

Keeps(e) == freed'[e] = freed[e] /\ ep'[e].disposeRequested = ep[e].disposeRequested

Stays(e) ==
  /\ queue'[e] = queue[e] /\ Steady(e) /\ Keeps(e)
  /\ wrapper'[e] = "collected" <=> wrapper[e] = "collected"

Posts(e, f) == queue'[e] = Append(queue[e], f) /\ Keeps(e)

Sends(e) ==
  /\ \E f \in Item : f.kind \in {"text", "pong"} /\ Posts(e, f)
  /\ CountsOn(e) /\ ep'[e].closeWasSent = ep[e].closeWasSent /\ wrapper'[e] = wrapper[e]
  /\ Callable(e) \/ Reads(e, {"ping"})

Announces(e) ==
  /\ Posts(e, Frame("close")) /\ CountsOn(e) /\ wrapper'[e] = wrapper[e]
  /\ ~ep[e].closeWasSent /\ ep'[e].closeWasSent

Opens(e) ==
  /\ Posts(e, Frame("open")) /\ Steady(e) /\ Reads(e, {"response"}) /\ wrapper'[e] = wrapper[e]

Destroys(e) ==
  /\ Posts(e, Frame("dispose")) /\ Steady(e)
  /\ wrapper[e] = "forgotten" /\ wrapper'[e] = "collected"

TakesOff(e) == queue'[e] = Tail(queue[e]) /\ wrapper'[e] = wrapper[e] /\ stack[e] = <<>>

LEMMA QueueMoves ==
  ASSUME Typed, NEW e \in End, Handshake(e), Script(e) \/ Loop(e)
  PROVE  \/ Stays(e) \/ Sends(e) \/ Announces(e) \/ Opens(e) \/ Destroys(e)
         \/ /\ TakesOff(e)
            /\ \/ Called(e, {"open"}) /\ Steady(e) /\ Keeps(e)
               \/ EndpointDispose(e) /\ Steady(e)
               \/ SendDisposed(e) /\ CountsOff(e) /\ ep'[e].disposeRequested = ep[e].disposeRequested
               \/ Called(e, Sent) /\ ~ep[e].disposeRequested /\ CountsOff(e) /\ Keeps(e)
<1> DEFINE r == ep[e]
<1>0. /\ ep \in [End -> EndpointRecord] /\ queue \in [End -> Seq(Item)] /\ r \in EndpointRecord
      /\ freed \in [End -> BOOLEAN]
      /\ wrapper \in [End -> {"none", "remembered", "forgotten", "collected"}]
  BY DEF Typed, EndType, LineType
<1> HIDE DEF r
<1>p. ASSUME NEW t, SetEp(e, t) PROVE ep'[e] = t
  BY <1>0, <1>p DEF SetEp
<1>q. /\ \A f : Post(e, f) => queue'[e] = Append(queue[e], f)
      /\ Dequeue(e) => queue'[e] = Tail(queue[e])
  BY <1>0 DEF Post, Dequeue
<1>u. UNCHANGED ep => ep'[e] = r
  BY DEF r
<1>m. /\ More(r).pendingSendCount = (r.pendingSendCount + 1) % 256
      /\ More(r).closeWasSent = r.closeWasSent /\ More(r).disposeRequested = r.disposeRequested
      /\ More(r).closeWasReceived = r.closeWasReceived /\ More(r) \in EndpointRecord
  BY <1>0, MoreFacts
<1>f. /\ Fewer(r).pendingSendCount = (r.pendingSendCount + 255) % 256
      /\ Fewer(r).closeWasSent = r.closeWasSent /\ Fewer(r).disposeRequested = r.disposeRequested
      /\ Fewer(r) \in EndpointRecord
  BY <1>0, FewerFacts
<1> DEFINE Tame(t) == /\ t.pendingSendCount = r.pendingSendCount /\ t.closeWasSent = r.closeWasSent
                      /\ t.disposeRequested = r.disposeRequested
<1>g. Got(r) \in EndpointRecord /\ Tame(Got(r))
  BY <1>0, GotFacts
<1>t. /\ Tame(r) /\ Tame(Closed(r)) /\ Tame(Closing(r)) /\ Tame(Opened(r)) /\ Tame(Closed(Got(r)))
      /\ Tame(Answering(Got(r)))
  BY <1>0, <1>g, ClosedFacts, ClosingFacts, OpenedFacts, AnsweringFacts
<1>e. ASSUME ep'[e] \in {r, Closed(r), Closing(r), Opened(r), Closed(Got(r)), Answering(Got(r))}
      PROVE  Steady(e) /\ ep'[e].disposeRequested = ep[e].disposeRequested
  BY <1>e, <1>t DEF Steady, r
<1> HIDE DEF Tame
<1>1. ASSUME Script(e) PROVE Stays(e) \/ Sends(e) \/ Destroys(e)
  <2>1. ASSUME KPR_websocketclient_send(e) PROVE Stays(e) \/ Sends(e)
    <3>1. CASE Takes(e)
      <4>1. /\ queue'[e] = Append(queue[e], Text(said[e] + 1)) /\ ep'[e] = More(r)
            /\ UNCHANGED <<freed, wrapper>> /\ Callable(e)
        BY <1>p, <1>q, <2>1, <3>1 DEF KPR_websocketclient_send, SendRawFrame, Scripted, r
      <4>2. Text(said[e] + 1) \in Item /\ Text(said[e] + 1).kind = "text"
        <5>1. said[e] + 1 \in Nat
          BY DEF Typed, LogType
        <5> QED BY <5>1, Items
      <4> QED BY <1>m, <4>1, <4>2 DEF Sends, Posts, Keeps, CountsOn, r
    <3>2. CASE ~Takes(e)
      <4>1. UNCHANGED <<queue, ep, freed, wrapper>>
        BY <2>1, <3>2 DEF KPR_websocketclient_send, SendRawFrame
      <4> QED BY <4>1 DEF Stays, Steady, Keeps
    <3> QED BY <3>1, <3>2
  <2>2. ASSUME KPR_websocketclient_close(e) PROVE Stays(e)
    <3>1. ep'[e] = Closing(r) /\ UNCHANGED <<queue, freed, wrapper>>
      BY <1>p, <2>2 DEF KPR_websocketclient_close, Close, r
    <3> QED BY <1>e, <3>1 DEF Stays, Keeps
  <2>3. ASSUME KPR_websocketclient(e) PROVE Destroys(e)
    BY <1>0, <1>q, <2>3 DEF KPR_websocketclient, Destroys, Posts, Steady, Keeps
  <2> QED BY <1>1, <2>1, <2>2, <2>3 DEF Script
<1>2. ASSUME Calls(e)
      PROVE  \/ Stays(e)
             \/ /\ TakesOff(e)
                /\ \/ Called(e, {"open"}) /\ Steady(e) /\ Keeps(e)
                   \/ EndpointDispose(e) /\ Steady(e)
                   \/ SendDisposed(e) /\ CountsOff(e) /\ ep'[e].disposeRequested = ep[e].disposeRequested
                   \/ Called(e, Sent) /\ ~ep[e].disposeRequested /\ CountsOff(e) /\ Keeps(e)
  <2>1. ASSUME OpenDeferred(e) PROVE TakesOff(e) /\ Called(e, {"open"}) /\ Steady(e) /\ Keeps(e)
    BY <1>q, <2>1 DEF OpenDeferred, TakesOff, Called, Idle, Steady, Keeps
  <2>2. ASSUME EndpointDispose(e) PROVE TakesOff(e) /\ Steady(e)
    <3>1. ep'[e] \in {r, Requested(r), Closed(r)}
      BY <1>p, <2>2, EpMoves DEF Free, r
    <3>2. /\ Requested(r).pendingSendCount = r.pendingSendCount
          /\ Requested(r).closeWasSent = r.closeWasSent
          /\ Closed(r).pendingSendCount = r.pendingSendCount
          /\ Closed(r).closeWasSent = r.closeWasSent
      BY <1>0, RequestedFacts, ClosedFacts
    <3>3. Steady(e)
      BY <3>1, <3>2 DEF Steady, r
    <3> QED BY <1>q, <2>2, <3>3 DEF EndpointDispose, TakesOff, Called, Idle
  <2>3. ASSUME SendDisposed(e)
        PROVE  TakesOff(e) /\ CountsOff(e) /\ ep'[e].disposeRequested = ep[e].disposeRequested
    <3>1. ep'[e] \in {Fewer(r), Closed(Fewer(r))}
      BY <1>p, <2>3 DEF SendDisposed, Free, r
    <3>2. CountsOff(e) /\ ep'[e].disposeRequested = ep[e].disposeRequested
      BY <1>f, <3>1, ClosedFacts DEF CountsOff, r
    <3> QED BY <1>q, <2>3, <3>2 DEF SendDisposed, TakesOff, Called, Idle
  <2>4. ASSUME SendBytes(e) \/ SendBytesFails(e) \/ SendBytesError(e)
        PROVE  /\ TakesOff(e) /\ Called(e, Sent) /\ ~ep[e].disposeRequested
               /\ CountsOff(e) /\ Keeps(e)
    <3>1. ep'[e] = Fewer(r) /\ UNCHANGED freed
      BY <1>p, <2>4 DEF SendBytes, SendBytesFails, SendBytesError, r
    <3>2. CountsOff(e) /\ Keeps(e)
      BY <1>f, <3>1 DEF CountsOff, Keeps, r
    <3> QED BY <1>q, <2>4, <3>2 DEF SendBytes, SendBytesFails, SendBytesError, TakesOff, Called,
               Idle
  <2>5. ASSUME KprSocketWriterDataWriter(e) \/ DataWriterFails(e) \/ DataWriterError(e)
        PROVE  Stays(e)
    BY <2>5 DEF KprSocketWriterDataWriter, DataWriterFails, DataWriterError, HandleError, Stays,
       Steady, Keeps
  <2> QED BY <1>2, <2>1, <2>2, <2>3, <2>4, <2>5 DEF Calls
<1>3. ASSUME Passes(e) PROVE Stays(e) \/ Sends(e) \/ Opens(e)
  <2>1. ASSUME HandleResponse(e) PROVE Opens(e)
    <3>1. ep'[e] = Opened(r) /\ UNCHANGED <<freed, wrapper>> /\ queue'[e] = Append(queue[e], Frame("open"))
      BY <1>p, <1>q, <2>1, EpMoves DEF HandleResponse, r
    <3> QED BY <1>e, <2>1, <3>1 DEF Opens, Posts, Keeps, HandleResponse
  <2>2. ASSUME HandlePing(e) PROVE Stays(e) \/ Sends(e)
    <3>1. CASE Takes(e)
      <4>1. /\ queue'[e] = Append(queue[e], Frame("pong")) /\ ep'[e] = More(r)
            /\ UNCHANGED <<freed, wrapper>> /\ Reads(e, {"ping"})
        BY <1>p, <1>q, <2>2, <3>1 DEF HandlePing, SendRawFrame, r
      <4>2. Frame("pong") \in Item /\ Frame("pong").kind = "pong"
        BY Items DEF Kind, Sent
      <4> QED BY <1>m, <4>1, <4>2 DEF Sends, Posts, Keeps, CountsOn, r
    <3>2. CASE ~Takes(e)
      <4>1. UNCHANGED <<queue, ep, freed, wrapper>>
        BY <2>2, <3>2 DEF HandlePing, SendRawFrame
      <4> QED BY <4>1 DEF Stays, Steady, Keeps
    <3> QED BY <3>1, <3>2
  <2>3. ASSUME HandleCloseFrame(e) \/ AnswerCloseFrame(e) \/ HandleRefusal(e) PROVE Stays(e)
    <3>1. /\ ep'[e] \in {Closed(r), Closed(Got(r)), Answering(Got(r))}
          /\ UNCHANGED <<queue, freed, wrapper>>
      BY <1>p, <2>3, EpMoves DEF HandleCloseFrame, AnswerCloseFrame, HandleRefusal, Disconnect, r
    <3> QED BY <1>e, <3>1 DEF Stays, Keeps
  <2>4. ASSUME \/ EndPass(e) \/ HandleTextMessage(e) \/ HandlePong(e) \/ ReadClosed(e) \/ ReadFails(e)
        PROVE  Stays(e)
    BY <2>4 DEF EndPass, HandleTextMessage, HandlePong, ReadClosed, ReadFails, HandleError, Stays,
       Steady, Keeps
  <2> QED BY <1>3, <2>1, <2>2, <2>3, <2>4 DEF Passes
<1>4. ASSUME Returns(e) PROVE Stays(e) \/ Announces(e)
  <2>1. ASSUME ReturnScript(e) PROVE Stays(e)
    BY <2>1 DEF ReturnScript, Stays, Steady, Keeps
  <2>2. ASSUME ReturnClosed(e) \/ ReturnFailed(e) PROVE Stays(e)
    <3>1. ep'[e] \in {Closed(r), Closing(r)} /\ UNCHANGED <<queue, freed, wrapper>>
      BY <1>p, <2>2 DEF ReturnClosed, ReturnFailed, Disconnect, Close, r
    <3> QED BY <1>e, <3>1 DEF Stays, Keeps
  <2>3. ASSUME ReturnClosing(e) PROVE Announces(e)
    <3> DEFINE a == Announced(More(r))
    <3>1. a \in EndpointRecord /\ a.closeWasSent /\ a.disposeRequested = r.disposeRequested
          /\ a.pendingSendCount = (r.pendingSendCount + 1) % 256
      BY <1>m, AnnouncedFacts
    <3> HIDE DEF a
    <3>2. Clean(a) \in EndpointRecord /\ Clean(a).closeWasSent
          /\ Clean(a).disposeRequested = r.disposeRequested
          /\ Clean(a).pendingSendCount = (r.pendingSendCount + 1) % 256
      BY <3>1, CleanFacts
    <3>3. Closed(Clean(a)).closeWasSent
          /\ Closed(Clean(a)).disposeRequested = r.disposeRequested
          /\ Closed(Clean(a)).pendingSendCount = (r.pendingSendCount + 1) % 256
      BY <3>2, ClosedFacts
    <3>4. ep'[e] \in {a, Closed(Clean(a))}
      BY <1>p, <2>3, EpMoves DEF Disconnect, a, r
    <3>5. ~r.closeWasSent
      <4>1. stack[e] \in Seq(Place) /\ stack[e] # <<>> /\ Last(stack[e]) = "closing"
        BY <2>3 DEF ReturnClosing, Top, Idle, Typed, LineType
      <4> QED BY <1>0, <4>1, ClosingTop DEF Handshake, r
    <3>6. UNCHANGED <<freed, wrapper>> /\ queue'[e] = Append(queue[e], Frame("close"))
      BY <1>q, <2>3 DEF ReturnClosing
    <3> QED BY <3>1, <3>3, <3>4, <3>5, <3>6 DEF Announces, Posts, Keeps, CountsOn, r
  <2>4. ASSUME ReturnClose(e) PROVE Stays(e)
    <3>1. /\ UNCHANGED <<ep, queue, freed>>
          /\ wrapper'[e] = IF wrapper[e] = "remembered" THEN "forgotten" ELSE wrapper[e]
      BY <1>0, <2>4 DEF ReturnClose
    <3> QED BY <3>1 DEF Stays, Steady, Keeps
  <2> QED BY <1>4, <2>1, <2>2, <2>3, <2>4 DEF Returns
<1> QED BY <1>1, <1>2, <1>3, <1>4 DEF Loop

\* What becomes of the kinds in a line.
LEMMA OnlyAppend ==
  ASSUME NEW K, NEW q \in Seq(Item), Only(q, K), NEW f \in Item, f.kind \in K
  PROVE  Only(Append(q, f), K)
  BY DEF Only

LEMMA TailFacts ==
  ASSUME NEW q \in Seq(Item), q # <<>>
  PROVE  /\ Tail(q) \in Seq(Item) /\ Len(Tail(q)) = Len(q) - 1 /\ Len(q) \in Nat \ {0}
         /\ Head(q) = q[1] /\ Head(q) \in Item /\ 1 \in 1 .. Len(q)
         /\ \A i \in 1 .. Len(q) - 1 : Tail(q)[i] = q[i + 1] /\ i + 1 \in 1 .. Len(q) /\ i + 1 # 1
  OBVIOUS

LEMMA OnlyTail ==
  ASSUME NEW K, NEW q \in Seq(Item), Only(q, K), q # <<>>
  PROVE  Only(Tail(q), K) /\ Head(q).kind \in K
  BY TailFacts DEF Only

LEMMA HasAppend ==
  ASSUME NEW K, NEW q \in Seq(Item), NEW f \in Item, HasKind(Append(q, f), K)
  PROVE  HasKind(q, K) \/ f.kind \in K
  BY DEF HasKind

LEMMA HasTail ==
  ASSUME NEW K, NEW q \in Seq(Item), q # <<>>
  PROVE  (HasKind(Tail(q), K) => HasKind(q, K)) /\ (Head(q).kind \in K => HasKind(q, K))
  BY TailFacts DEF HasKind

LEMMA Mod256 ==
  ASSUME NEW c \in Nat
  PROVE  ((c % 256) + 1) % 256 = (c + 1) % 256 /\ (((c + 1) % 256) + 255) % 256 = c % 256
  OBVIOUS

LEMMA CountedStep ==
  ASSUME Typed, NEW e \in End, Handshake(e), Counted(e), Script(e) \/ Loop(e)
  PROVE  Counted(e)'
<1>0. /\ ep[e].pendingSendCount = SentCount(queue[e]) % 256
      /\ queue[e] \in Seq(Item) /\ SentCount(queue[e]) \in Nat
  BY CountNat DEF Counted, Typed, LineType
<1>k. Sent = {"text", "ping", "pong", "close"}
  BY DEF Sent
<1>f. \A x \in {"close", "open", "dispose"} : Frame(x) \in Item /\ Frame(x).kind = x
  BY Items DEF Kind, Sent
<1>1. CASE Stays(e)
  BY <1>0, <1>1 DEF Stays, Steady, Counted
<1>2. ASSUME NEW f \in Item, f.kind \in Sent, queue'[e] = Append(queue[e], f), CountsOn(e)
      PROVE  Counted(e)'
  <2>1. SentCount(queue'[e]) = SentCount(queue[e]) + 1
    BY <1>0, <1>2, CountAppend
  <2> QED BY <1>0, <1>2, <2>1, Mod256 DEF CountsOn, Counted
<1>3. ASSUME NEW f \in Item, f.kind \notin Sent, queue'[e] = Append(queue[e], f), Steady(e)
      PROVE  Counted(e)'
  <2>1. SentCount(queue'[e]) = SentCount(queue[e])
    BY <1>0, <1>3, CountAppend
  <2> QED BY <1>0, <1>3, <2>1 DEF Steady, Counted
<1>4. ASSUME queue[e] # <<>>, Head(queue[e]).kind \in Sent, queue'[e] = Tail(queue[e]), CountsOff(e)
      PROVE  Counted(e)'
  <2>1. /\ SentCount(queue[e]) = SentCount(queue'[e]) + 1
        /\ SentCount(queue'[e]) \in Nat
    <3>1. Tail(queue[e]) \in Seq(Item)
      BY <1>0, <1>4
    <3> QED BY <1>0, <1>4, <3>1, CountTail, CountNat
  <2> QED BY <1>0, <1>4, <2>1, Mod256 DEF CountsOff, Counted
<1>5. ASSUME queue[e] # <<>>, Head(queue[e]).kind \notin Sent, queue'[e] = Tail(queue[e]), Steady(e)
      PROVE  Counted(e)'
  <2>1. SentCount(queue[e]) = SentCount(queue'[e])
    BY <1>0, <1>5, CountTail
  <2> QED BY <1>0, <1>5, <2>1 DEF Steady, Counted
<1>6. CASE Sends(e)
  BY <1>2, <1>6, <1>k DEF Sends, Posts
<1>7. CASE Announces(e)
  BY <1>2, <1>7, <1>k, <1>f DEF Announces, Posts
<1>8. CASE Opens(e) \/ Destroys(e)
  BY <1>3, <1>8, <1>k, <1>f DEF Opens, Destroys, Posts
<1>9. ASSUME TakesOff(e), Called(e, {"open"}) \/ EndpointDispose(e), Steady(e) PROVE Counted(e)'
  BY <1>5, <1>9, <1>k DEF TakesOff, Called, EndpointDispose
<1>10. ASSUME TakesOff(e), SendDisposed(e) \/ Called(e, Sent), CountsOff(e) PROVE Counted(e)'
  BY <1>4, <1>10 DEF TakesOff, Called, SendDisposed
<1> QED BY <1>1, <1>6, <1>7, <1>8, <1>9, <1>10, QueueMoves

\* What an end does to its writer and its socket.
LEMMA BacklogMoves ==
  ASSUME Typed, NEW e \in End, Script(e) \/ Loop(e)
  PROVE  \/ backlog'[e] = <<>> /\ ep'[e].socket \in {ep[e].socket, "none"}
         \/ /\ ep'[e].socket = ep[e].socket
            /\ \/ backlog'[e] = backlog[e]
               \/ /\ ep[e].socket = "endpoint" /\ Called(e, Sent)
                  /\ backlog'[e] = Append(backlog[e], Head(queue[e]))
               \/ \E k \in 0 .. Len(backlog[e]) :
                    backlog'[e] = SubSeq(backlog[e], k + 1, Len(backlog[e]))
<1> DEFINE r == ep[e]
<1>0. /\ ep \in [End -> EndpointRecord] /\ backlog \in [End -> Seq(Item)] /\ r \in EndpointRecord
  BY DEF Typed, EndType, LineType
<1> HIDE DEF r
<1>p. ASSUME NEW t, SetEp(e, t) PROVE ep'[e] = t
  BY <1>0, <1>p DEF SetEp
<1>u. UNCHANGED backlog \/ UNCHANGED netVars => backlog'[e] = backlog[e]
  BY DEF netVars
<1>c. ASSUME NEW t \in EndpointRecord, NEW s, Disconnect(e, t, s)
      PROVE  backlog'[e] = <<>> /\ ep'[e].socket = "none"
  BY <1>0, <1>p, <1>c, ClosedFacts DEF Disconnect
<1>m. /\ Got(r) \in EndpointRecord /\ Clean(Announced(More(r))) \in EndpointRecord
      /\ Announced(More(r)).socket = r.socket /\ Answering(Got(r)).socket = r.socket
      /\ Fewer(r) \in EndpointRecord
  <2>1. More(r) \in EndpointRecord /\ More(r).socket = r.socket /\ Got(r) \in EndpointRecord
        /\ Got(r).socket = r.socket /\ Fewer(r) \in EndpointRecord
    BY <1>0, MoreFacts, GotFacts, FewerFacts
  <2>2. Announced(More(r)) \in EndpointRecord /\ Announced(More(r)).socket = r.socket
    BY <2>1, AnnouncedFacts
  <2> QED BY <2>1, <2>2, CleanFacts, AnsweringFacts
<1>n. /\ More(r).socket = r.socket /\ Fewer(r).socket = r.socket /\ Requested(r).socket = r.socket
      /\ Closing(r).socket = r.socket /\ Opened(r).socket = r.socket
  BY <1>0, MoreFacts, FewerFacts, RequestedFacts, ClosingFacts, OpenedFacts
<1>1. ASSUME Script(e) PROVE backlog'[e] = backlog[e] /\ ep'[e].socket = ep[e].socket
  <2>1. ep'[e] \in {r, More(r), Closing(r)} /\ UNCHANGED netVars
    BY <1>1, <1>p DEF Script, KPR_websocketclient_send, KPR_websocketclient_close,
       KPR_websocketclient, SendRawFrame, Close, r
  <2> QED BY <1>u, <1>n, <2>1 DEF r
<1>2. ASSUME Calls(e)
      PROVE  \/ backlog'[e] = <<>> /\ ep'[e].socket \in {ep[e].socket, "none"}
             \/ /\ ep'[e].socket = ep[e].socket
                /\ \/ backlog'[e] = backlog[e]
                   \/ /\ ep[e].socket = "endpoint" /\ Called(e, Sent)
                      /\ backlog'[e] = Append(backlog[e], Head(queue[e]))
                   \/ \E k \in 0 .. Len(backlog[e]) :
                        backlog'[e] = SubSeq(backlog[e], k + 1, Len(backlog[e]))
  <2>f. ASSUME NEW t \in EndpointRecord, t.socket = r.socket, Free(e, t)
        PROVE  \/ backlog'[e] = <<>> /\ ep'[e].socket = "none"
               \/ backlog'[e] = backlog[e] /\ ep'[e].socket = ep[e].socket
    BY <1>0, <1>p, <1>u, <2>f, ClosedFacts DEF Free, r
  <2>1. CASE EndpointDispose(e)
    <3>1. CASE Free(e, r)
      BY <1>0, <2>f, <3>1
    <3>2. CASE ~Free(e, r)
      BY <1>p, <1>u, <1>n, <2>1, <3>2, EpMoves DEF r
    <3> QED BY <3>1, <3>2
  <2>2. CASE SendDisposed(e)
    <3>1. CASE Free(e, Fewer(r))
      BY <1>m, <1>n, <2>f, <3>1
    <3>2. CASE ~Free(e, Fewer(r))
      BY <1>p, <1>u, <1>n, <2>2, <3>2 DEF SendDisposed, r
    <3> QED BY <3>1, <3>2
  <2>3. CASE SendBytes(e)
    <3>1. ep'[e].socket = ep[e].socket /\ Called(e, Sent)
      BY <1>p, <1>n, <2>3 DEF SendBytes, r
    <3>2. \/ backlog'[e] = backlog[e]
          \/ ep[e].socket = "endpoint" /\ backlog'[e] = Append(backlog[e], Head(queue[e]))
      BY <1>0, <2>3 DEF SendBytes
    <3> QED BY <3>1, <3>2
  <2>4. CASE KprSocketWriterDataWriter(e)
    <3>1. PICK k \in 1 .. Len(backlog[e]) :
            backlog' = [backlog EXCEPT ![e] = SubSeq(@, k + 1, Len(@))]
      BY <2>4 DEF KprSocketWriterDataWriter
    <3>2. k \in 0 .. Len(backlog[e]) /\ backlog'[e] = SubSeq(backlog[e], k + 1, Len(backlog[e]))
      BY <1>0, <3>1
    <3>3. UNCHANGED ep
      BY <2>4 DEF KprSocketWriterDataWriter
    <3> QED BY <3>2, <3>3
  <2>5. CASE OpenDeferred(e) \/ SendBytesFails(e) \/ SendBytesError(e)
    BY <1>p, <1>u, <1>n, <2>5 DEF OpenDeferred, SendBytesFails, SendBytesError, r
  <2>6. CASE DataWriterFails(e) \/ DataWriterError(e)
    BY <1>0, <2>6 DEF DataWriterFails, DataWriterError, HandleError
  <2> QED BY <1>2, <2>1, <2>2, <2>3, <2>4, <2>5, <2>6 DEF Calls
<1>3. ASSUME Passes(e)
      PROVE  \/ backlog'[e] = <<>> /\ ep'[e].socket = "none"
             \/ backlog'[e] = backlog[e] /\ ep'[e].socket = ep[e].socket
  <2>1. CASE HandleRefusal(e) \/ HandleCloseFrame(e)
    <3>1. Disconnect(e, r, Pass) \/ Disconnect(e, Got(r), Pass)
      BY <2>1, EpMoves DEF HandleRefusal, r
    <3> QED BY <1>0, <1>c, <1>m, <3>1
  <2>2. CASE ~(HandleRefusal(e) \/ HandleCloseFrame(e))
    <3>1. ep'[e] \in {r, Opened(r), More(r), Answering(Got(r))} /\ backlog'[e] = backlog[e]
      BY <1>3, <1>p, <1>u, <2>2, EpMoves DEF Passes, EndPass, HandleResponse, HandleTextMessage,
         HandlePing, HandlePong, AnswerCloseFrame, ReadClosed, ReadFails, HandleError,
         SendRawFrame, r
    <3> QED BY <1>m, <1>n, <3>1 DEF r
  <2> QED BY <2>1, <2>2
<1>4. ASSUME Returns(e)
      PROVE  \/ backlog'[e] = <<>> /\ ep'[e].socket = "none"
             \/ backlog'[e] = backlog[e] /\ ep'[e].socket = ep[e].socket
  <2>1. CASE ReturnClosed(e)
    BY <1>0, <1>c, <2>1 DEF ReturnClosed, r
  <2>2. CASE ReturnClosing(e)
    <3>1. CASE Announced(More(r)).closeWasReceived
      BY <1>c, <1>m, <2>2, <3>1, EpMoves DEF r
    <3>2. CASE ~Announced(More(r)).closeWasReceived
      BY <1>p, <1>u, <1>m, <2>2, <3>2, EpMoves DEF r
    <3> QED BY <3>1, <3>2
  <2>3. CASE ReturnScript(e) \/ ReturnFailed(e) \/ ReturnClose(e)
    <3>1. ep'[e] \in {r, Closing(r)} /\ UNCHANGED netVars
      BY <1>p, <2>3 DEF ReturnScript, ReturnFailed, ReturnClose, Close, r
    <3> QED BY <1>u, <1>n, <3>1 DEF r
  <2> QED BY <1>4, <2>1, <2>2, <2>3 DEF Returns
<1> QED BY <1>1, <1>2, <1>3, <1>4 DEF Loop

\* A line with at most one close frame, and that only when one was sent.
OneClose(q, sent) ==
  \A i \in 1 .. Len(q) : q[i].kind = "close" =>
    sent /\ \A j \in 1 .. Len(q) : q[j].kind = "close" => i = j

LEMMA OneCloseFacts ==
  ASSUME NEW q \in Seq(Item), NEW s \in BOOLEAN, OneClose(q, s), NEW f \in Item
  PROVE  /\ f.kind # "close" => OneClose(Append(q, f), s)
         /\ ~s => OneClose(Append(q, f), TRUE)
         /\ q # <<>> => OneClose(Tail(q), s)
         /\ q # <<>> /\ Head(q).kind = "close" => ~HasKind(Tail(q), {"close"})
<1>1. /\ Len(Append(q, f)) = Len(q) + 1 /\ Len(q) \in Nat /\ Append(q, f)[Len(q) + 1] = f
      /\ \A i \in 1 .. Len(q) : Append(q, f)[i] = q[i]
  OBVIOUS
<1>2. f.kind # "close" => OneClose(Append(q, f), s)
  BY <1>1 DEF OneClose
<1>3. ASSUME ~s PROVE OneClose(Append(q, f), TRUE)
  <2>1. \A i \in 1 .. Len(q) : q[i].kind # "close"
    BY <1>3 DEF OneClose
  <2> QED BY <1>1, <2>1 DEF OneClose
<1>4. ASSUME q # <<>>
      PROVE  /\ OneClose(Tail(q), s)
             /\ Head(q).kind = "close" => ~HasKind(Tail(q), {"close"})
  <2>1. OneClose(Tail(q), s)
    BY <1>4, TailFacts DEF OneClose
  <2> QED BY <1>4, <2>1, TailFacts DEF OneClose, HasKind
<1> QED BY <1>2, <1>3, <1>4

LEMMA PostedStep ==
  ASSUME Typed, NEW e \in End, Handshake(e), Posted(e), Script(e) \/ Loop(e)
  PROVE  Posted(e)'
<1> DEFINE q == queue[e]
           K == Sent \union {"start", "open", "dispose", "stop"}
<1>0. /\ q \in Seq(Item) /\ backlog[e] \in Seq(Item) /\ ep[e] \in EndpointRecord
      /\ Only(q, K) /\ Only(backlog[e], Sent) /\ OneClose(q, ep[e].closeWasSent)
      /\ HasKind(q, {"start"}) => e = "client" /\ dial = "idle"
      /\ backlog[e] # <<>> => ep[e].socket = "endpoint"
      /\ ep[e].closeWasSent \in BOOLEAN
  BY DEF Typed, EndType, LineType, Posted, OneClose, EndpointRecord
<1> HIDE DEF q, K
<1>k. {"text", "ping", "pong", "close", "start", "open", "dispose", "stop"} = K
  BY DEF K, Sent
<1>s. Sent = {"text", "ping", "pong", "close"}
  BY DEF Sent
<1>f. \A x \in {"close", "open", "dispose"} : Frame(x) \in Item /\ Frame(x).kind = x
  BY Items DEF Kind, Sent
<1>d. dial' = dial
  <2>1. PICK d \in End : d # e
    BY DEF End
  <2> QED BY <2>1, Elsewhere
<1>1. /\ Only(queue'[e], K) /\ (HasKind(queue'[e], {"start"}) => HasKind(q, {"start"}))
      /\ OneClose(queue'[e], ep'[e].closeWasSent)
  <2>1. CASE Stays(e)
    BY <1>0, <2>1 DEF Stays, Steady, q
  <2>2. ASSUME NEW f \in Item, f.kind \in K \ {"start", "close"}, queue'[e] = Append(q, f),
               ep'[e].closeWasSent = ep[e].closeWasSent
        PROVE  /\ Only(queue'[e], K) /\ (HasKind(queue'[e], {"start"}) => HasKind(q, {"start"}))
               /\ OneClose(queue'[e], ep'[e].closeWasSent)
    <3>1. Only(queue'[e], K) /\ (HasKind(queue'[e], {"start"}) => HasKind(q, {"start"}))
      BY <1>0, <1>k, <2>2, OnlyAppend, HasAppend
    <3>2. OneClose(queue'[e], ep'[e].closeWasSent)
      BY <1>0, <2>2, OneCloseFacts
    <3> QED BY <3>1, <3>2
  <2>3. CASE Sends(e)
    BY <1>k, <2>2, <2>3 DEF Sends, Posts, q
  <2>4. CASE Opens(e) \/ Destroys(e)
    BY <1>f, <1>k, <2>2, <2>4 DEF Opens, Destroys, Posts, Steady, q
  <2>5. CASE Announces(e)
    <3>1. /\ queue'[e] = Append(q, Frame("close")) /\ ~ep[e].closeWasSent
          /\ Frame("close") \in Item /\ Frame("close").kind = "close"
      BY <1>f, <2>5 DEF Announces, Posts, q
    <3>2. Only(queue'[e], K) /\ (HasKind(queue'[e], {"start"}) => HasKind(q, {"start"}))
      BY <1>0, <1>k, <3>1, OnlyAppend, HasAppend
    <3>3. OneClose(queue'[e], TRUE)
      BY <1>0, <3>1, OneCloseFacts
    <3> QED BY <2>5, <3>2, <3>3 DEF Announces, OneClose
  <2>6. ASSUME TakesOff(e), q # <<>>, ep'[e].closeWasSent = ep[e].closeWasSent
        PROVE  /\ Only(queue'[e], K) /\ (HasKind(queue'[e], {"start"}) => HasKind(q, {"start"}))
               /\ OneClose(queue'[e], ep'[e].closeWasSent)
    <3>1. queue'[e] = Tail(q)
      BY <2>6 DEF TakesOff, q
    <3>2. PICK f \in Item : TRUE
      BY <1>f
    <3>3. Only(queue'[e], K) /\ (HasKind(queue'[e], {"start"}) => HasKind(q, {"start"}))
      BY <1>0, <2>6, <3>1, OnlyTail, HasTail
    <3>4. OneClose(queue'[e], ep'[e].closeWasSent)
      BY <1>0, <2>6, <3>1, <3>2, OneCloseFacts
    <3> QED BY <3>3, <3>4
  <2>7. ASSUME TakesOff(e), \/ Called(e, {"open"}) /\ Steady(e)
                            \/ EndpointDispose(e) /\ Steady(e)
                            \/ SendDisposed(e) /\ CountsOff(e)
                            \/ Called(e, Sent) /\ CountsOff(e)
        PROVE  /\ Only(queue'[e], K) /\ (HasKind(queue'[e], {"start"}) => HasKind(q, {"start"}))
               /\ OneClose(queue'[e], ep'[e].closeWasSent)
    BY <2>6, <2>7 DEF EndpointDispose, SendDisposed, Called, Steady, CountsOff, q
  <2> QED BY <2>1, <2>3, <2>4, <2>5, <2>7, QueueMoves
<1>2. Only(backlog'[e], Sent) /\ (backlog'[e] # <<>> => ep'[e].socket = "endpoint")
  <2>1. CASE backlog'[e] = <<>>
    BY <2>1 DEF Only
  <2>2. CASE ep'[e].socket = ep[e].socket /\ backlog'[e] = backlog[e]
    BY <1>0, <2>2
  <2>3. ASSUME ep'[e].socket = "endpoint", Called(e, Sent),
               backlog'[e] = Append(backlog[e], Head(queue[e]))
        PROVE  Only(backlog'[e], Sent)
    <3>1. Head(q) \in Item /\ Head(q).kind \in Sent
      BY <1>0, <2>3 DEF Called, q
    <3> QED BY <1>0, <2>3, <3>1, OnlyAppend DEF q
  <2>4. ASSUME NEW k \in 0 .. Len(backlog[e]), ep'[e].socket = ep[e].socket,
               backlog'[e] = SubSeq(backlog[e], k + 1, Len(backlog[e]))
        PROVE  Only(backlog'[e], Sent) /\ (backlog'[e] # <<>> => ep'[e].socket = "endpoint")
    <3>1. Only(backlog'[e], Sent)
      <4>1. /\ Len(backlog'[e]) = Len(backlog[e]) - k
            /\ \A x \in 1 .. Len(backlog[e]) - k : backlog'[e][x] = backlog[e][k + x]
        BY <1>0, <2>4, SuffixFacts
      <4>2. \A x \in 1 .. Len(backlog[e]) - k : k + x \in 1 .. Len(backlog[e])
        BY <1>0
      <4> QED BY <1>0, <4>1, <4>2 DEF Only
    <3>2. backlog[e] = <<>> => backlog'[e] = <<>>
      BY <1>0, <2>4
    <3> QED BY <1>0, <2>4, <3>1, <3>2
  <2> QED BY <2>1, <2>2, <2>3, <2>4, BacklogMoves
<1>3. HasKind(queue'[e], {"start"}) => e = "client" /\ dial' = "idle"
  BY <1>0, <1>1, <1>d
<1> QED BY <1>1, <1>2, <1>3 DEF Posted, OneClose, K

\* Nothing of an end that was disposed of runs.
LEMMA FreedStill ==
  ASSUME Typed, NEW e \in End, Posted(e), Disposal(e), freed[e], Script(e) \/ Loop(e)
  PROVE  FALSE
<1>0. /\ queue[e] \in Seq(Item) /\ Only(queue[e], {"stop"}) /\ stack[e] = <<>>
      /\ ep[e].socket = "none" /\ backlog[e] = <<>> /\ wrapper[e] = "collected"
  BY DEF Typed, LineType, Posted, Disposal
<1>1. \A K : Called(e, K) => "stop" \in K
  <2>1. queue[e] # <<>> => Head(queue[e]).kind = "stop"
    BY <1>0 DEF Only
  <2> QED BY <2>1 DEF Called
<1>2. /\ ~Callable(e) /\ \A K : ~Reads(e, K) /\ ~Top(e, K)
  BY <1>0 DEF Callable, Reads, Top, Idle
<1>3. ~Script(e)
  BY <1>0, <1>2 DEF Script, KPR_websocketclient_send, KPR_websocketclient_close,
     KPR_websocketclient, Scripted
<1>4. ~Calls(e)
  BY <1>0, <1>1 DEF Calls, OpenDeferred, EndpointDispose, SendDisposed, SendBytes, SendBytesFails,
     SendBytesError, KprSocketWriterDataWriter, DataWriterFails, DataWriterError, HandleError, Sent
<1>5. ~Passes(e)
  BY <1>2 DEF Passes, EndPass, HandleResponse, HandleRefusal, HandleTextMessage, HandlePing,
     HandlePong, HandleCloseFrame, AnswerCloseFrame, ReadClosed, ReadFails, HandleError
<1>6. ~Returns(e)
  BY <1>2 DEF Returns, ReturnScript, ReturnClosed, ReturnFailed, ReturnClosing, ReturnClose
<1> QED BY <1>3, <1>4, <1>5, <1>6 DEF Loop

LEMMA DisposalStep ==
  ASSUME Typed, NEW e \in End, Handshake(e), Counted(e), Posted(e), Disposal(e), Gone(e), Response,
         Script(e) \/ Loop(e)
  PROVE  Disposal(e)'
<1> DEFINE q == queue[e]
           After(s, i) == \A j \in i + 1 .. Len(s) : s[j].kind \in {"close", "stop"}
<1>0. /\ q \in Seq(Item) /\ ep[e] \in EndpointRecord /\ freed[e] \in BOOLEAN
      /\ ep[e].disposeRequested \in BOOLEAN /\ wire[e] \in Seq(Item)
  BY DEF Typed, EndType, LineType, EndpointRecord
<1>1. ~freed[e]
  BY FreedStill
<1>2. /\ \A i \in 1 .. Len(q) : q[i].kind = "dispose" =>
           wrapper[e] = "collected" /\ ~ep[e].disposeRequested /\ After(q, i)
      /\ ep[e].disposeRequested => wrapper[e] = "collected" /\ Only(q, {"close", "stop"})
  BY DEF Disposal
<1>3. wrapper[e] = "collected" =>
        /\ ep[e].socket # "endpoint" \/ (dropped /\ e = "server")
        /\ e = "client" => ep[e].socket = "none"
        /\ e = "server" => ep[e].socket # "request"
  BY DEF Gone, Left
<1>4. Reads(e, {"ping"}) \/ Reads(e, {"response"}) \/ Callable(e) => wrapper[e] # "collected"
  <2>1. ASSUME Reads(e, {"ping"}) \/ Reads(e, {"response"}) PROVE e = "client" /\ ep[e].socket = "endpoint"
    <3>1. wire[e] # <<>> /\ Head(wire[e]).kind \in {"ping", "response"} /\ ep[e].socket = "endpoint"
      BY <2>1 DEF Reads
    <3>2. HasKind(wire[e], {"response", "ping"})
      BY <1>0, <3>1, HasTail
    <3> QED BY <3>1, <3>2, Ends2 DEF Response
  <2> QED BY <1>3, <2>1 DEF Callable
<1>f. \A x \in {"close", "open", "dispose"} : Frame(x) \in Item /\ Frame(x).kind = x
  BY Items DEF Kind, Sent
<1>a. \A f \in Item : /\ Len(Append(q, f)) = Len(q) + 1 /\ Append(q, f)[Len(q) + 1] = f
                      /\ \A i \in 1 .. Len(q) : Append(q, f)[i] = q[i]
  BY <1>0
<1>n. Len(q) \in Nat
  BY <1>0
<1> HIDE DEF q
<1>5. CASE Stays(e)
  <2>1. /\ queue'[e] = q /\ ~freed'[e] /\ ep'[e].disposeRequested = ep[e].disposeRequested
        /\ wrapper[e] = "collected" => wrapper'[e] = "collected"
    BY <1>1, <1>5 DEF Stays, Keeps, q
  <2> QED BY <1>2, <2>1 DEF Disposal
<1>6. ASSUME NEW f \in Item, f.kind # "dispose", wrapper[e] # "collected", Posts(e, f)
      PROVE  Disposal(e)'
  <2>1. /\ queue'[e] = Append(q, f) /\ ~freed'[e] /\ ~ep'[e].disposeRequested
    BY <1>1, <1>2, <1>6 DEF Posts, Keeps, q
  <2>2. \A i \in 1 .. Len(queue'[e]) : queue'[e][i].kind # "dispose"
    BY <1>2, <1>6, <1>a, <1>n, <2>1
  <2> QED BY <2>1, <2>2 DEF Disposal
<1>7. CASE Sends(e)
  BY <1>4, <1>6, <1>7 DEF Sends
<1>8. CASE Opens(e)
  BY <1>4, <1>6, <1>8, <1>f DEF Opens
<1>9. CASE Announces(e)
  <2>1. /\ queue'[e] = Append(q, Frame("close")) /\ ~freed'[e] /\ wrapper'[e] = wrapper[e]
        /\ ep'[e].disposeRequested = ep[e].disposeRequested
        /\ Frame("close") \in Item /\ Frame("close").kind = "close"
    BY <1>1, <1>9, <1>f DEF Announces, Posts, Keeps, q
  <2>2. \A i \in 1 .. Len(queue'[e]) : queue'[e][i].kind = "dispose" =>
          wrapper[e] = "collected" /\ ~ep[e].disposeRequested /\ After(queue'[e], i)
    <3>1. \A i \in 1 .. Len(queue'[e]) : i = Len(q) + 1 \/ i \in 1 .. Len(q)
      BY <1>a, <1>n, <2>1
    <3> QED BY <1>2, <1>a, <1>n, <2>1, <3>1
  <2>3. Only(q, {"close", "stop"}) => Only(queue'[e], {"close", "stop"})
    BY <1>0, <2>1, OnlyAppend
  <2> QED BY <1>2, <2>1, <2>2, <2>3 DEF Disposal
<1>10. CASE Destroys(e)
  <2>1. /\ queue'[e] = Append(q, Frame("dispose")) /\ ~freed'[e] /\ ~ep'[e].disposeRequested
        /\ wrapper[e] = "forgotten" /\ wrapper'[e] = "collected" /\ Frame("dispose") \in Item
    BY <1>1, <1>2, <1>10, <1>f DEF Destroys, Posts, Keeps, q
  <2>2. \A i \in 1 .. Len(queue'[e]) : queue'[e][i].kind = "dispose" => i = Len(queue'[e])
    BY <1>2, <1>a, <1>n, <2>1
  <2>3. \A i \in 1 .. Len(queue'[e]) : queue'[e][i].kind = "dispose" => After(queue'[e], i)
    BY <1>a, <1>n, <2>1, <2>2
  <2> QED BY <2>1, <2>3 DEF Disposal
<1>11. ASSUME TakesOff(e), q # <<>>
       PROVE  /\ \A i \in 1 .. Len(queue'[e]) : queue'[e][i].kind = "dispose" =>
                   wrapper'[e] = "collected" /\ ~ep[e].disposeRequested /\ After(queue'[e], i)
              /\ Only(q, {"close", "stop"}) => Only(queue'[e], {"close", "stop"})
              /\ wrapper'[e] = wrapper[e] /\ stack[e] = <<>>
              /\ queue'[e] = Tail(q)
  <2>1. queue'[e] = Tail(q) /\ wrapper'[e] = wrapper[e] /\ stack[e] = <<>>
    BY <1>11 DEF TakesOff, q
  <2>2. \A i \in 1 .. Len(queue'[e]) : queue'[e][i].kind = "dispose" =>
          wrapper'[e] = "collected" /\ ~ep[e].disposeRequested /\ After(queue'[e], i)
    <3>1. \A i \in 1 .. Len(queue'[e]) : i + 1 \in 1 .. Len(q) /\ queue'[e][i] = q[i + 1]
      BY <1>0, <1>11, <2>1, TailFacts
    <3>2. Len(queue'[e]) = Len(q) - 1
      BY <1>0, <1>11, <2>1, TailFacts
    <3> QED BY <1>2, <1>n, <2>1, <3>1, <3>2
  <2>3. Only(q, {"close", "stop"}) => Only(queue'[e], {"close", "stop"})
    BY <1>0, <1>11, <2>1, OnlyTail
  <2> QED BY <2>1, <2>2, <2>3
<1>12. ASSUME TakesOff(e), Called(e, {"open"}) \/ Called(e, Sent), Keeps(e) PROVE Disposal(e)'
  <2>1. q # <<>> /\ ~freed'[e] /\ ep'[e].disposeRequested = ep[e].disposeRequested
    BY <1>1, <1>12 DEF Called, Keeps, q
  <2> QED BY <1>2, <1>11, <1>12, <2>1 DEF Disposal
<1>13. ASSUME TakesOff(e), EndpointDispose(e) PROVE Disposal(e)'
  <2>1. q # <<>> /\ Head(q).kind = "dispose"
    BY <1>13 DEF EndpointDispose, Called, q
  <2>2. wrapper[e] = "collected" /\ ~ep[e].disposeRequested /\ After(q, 1)
    BY <1>0, <1>2, <2>1, TailFacts
  <2>3. Only(Tail(q), {"close", "stop"})
    BY <1>0, <2>1, <2>2, TailFacts DEF Only
  <2>4. \A i \in 1 .. Len(queue'[e]) : queue'[e][i].kind # "dispose"
    BY <1>11, <1>13, <2>1, <2>3 DEF Only
  <2>5. UNCHANGED stack
    BY <1>13 DEF EndpointDispose
  <2>6. CASE ep[e].pendingSendCount > 0
    <3>1. UNCHANGED freed
      BY <1>13, <2>6, EpMoves
    <3> QED BY <1>1, <1>11, <1>13, <2>1, <2>2, <2>3, <2>4, <3>1 DEF Disposal
  <2>7. CASE ~(ep[e].pendingSendCount > 0)
    <3>1. Free(e, ep[e]) /\ ep[e].pendingSendCount = 0
      <4>1. ep[e].pendingSendCount \in 0 .. 255
        BY <1>0 DEF EndpointRecord
      <4>2. ep[e].pendingSendCount = 0
        BY <2>7, <4>1
      <4> QED BY <1>13, <2>7, <4>2, EpMoves
    <3>2. SentCount(q) = SentCount(Tail(q)) /\ SentCount(q) % 256 = 0
      BY <1>0, <2>1, <3>1, CountTail DEF Counted, q, Sent
    <3>3. \A i, j \in 1 .. Len(Tail(q)) : Tail(q)[i].kind \in Sent /\ Tail(q)[j].kind \in Sent => i = j
      <4>1. OneClose(q, ep[e].closeWasSent) /\ ep[e].closeWasSent \in BOOLEAN
        BY <1>0 DEF Posted, OneClose, q, EndpointRecord
      <4>2. OneClose(Tail(q), ep[e].closeWasSent)
        BY <1>0, <2>1, <4>1, <1>f, OneCloseFacts
      <4>3. \A i \in 1 .. Len(Tail(q)) : Tail(q)[i].kind \in Sent => Tail(q)[i].kind = "close"
        BY <2>3 DEF Only, Sent
      <4> QED BY <4>2, <4>3 DEF OneClose
    <3>4. SentCount(Tail(q)) = 0
      <4>1. Tail(q) \in Seq(Item)
        BY <1>0, <2>1
      <4>2. SentCount(Tail(q)) \in {0, 1}
        BY <3>3, <4>1, CountOne
      <4> QED BY <3>2, <4>2
    <3>5. Only(Tail(q), {"stop"})
      <4>1. Tail(q) \in Seq(Item)
        BY <1>0, <2>1
      <4>2. \A i \in 1 .. Len(Tail(q)) : Tail(q)[i].kind \notin Sent
        BY <3>4, <4>1, CountNone
      <4> QED BY <2>3, <4>2 DEF Only, Sent
    <3>6. ep'[e].socket = "none" /\ freed'[e] = TRUE
      <4>1. ep \in [End -> EndpointRecord] /\ freed \in [End -> BOOLEAN]
        BY DEF Typed, EndType
      <4>2. ep[e].socket \in {"none", "request", "endpoint"}
        BY <1>0 DEF EndpointRecord
      <4>3. freed'[e] = TRUE
        BY <3>1, <4>1 DEF Free
      <4>4. ep'[e] = IF ep[e].socket = "endpoint" THEN Closed(ep[e]) ELSE ep[e]
        BY <3>1, <4>1 DEF Free, SetEp
      <4> QED BY <1>0, <1>3, <2>2, <4>2, <4>3, <4>4, ClosedFacts, Ends2
    <3> QED BY <1>11, <1>13, <2>1, <2>2, <2>3, <2>4, <2>5, <3>5, <3>6 DEF Disposal
  <2> QED BY <2>6, <2>7
<1>14. ASSUME TakesOff(e), SendDisposed(e), ep'[e].disposeRequested = ep[e].disposeRequested
       PROVE  Disposal(e)'
  <2>1. q # <<>> /\ Head(q).kind \in Sent
    BY <1>14 DEF SendDisposed, Called, q
  <2>2. ep[e].disposeRequested /\ UNCHANGED stack
    BY <1>0, <1>14, FewerFacts DEF SendDisposed
  <2>3. wrapper[e] = "collected" /\ Only(q, {"close", "stop"})
    BY <1>2, <2>2
  <2>4. Head(q).kind = "close" /\ Only(Tail(q), {"close", "stop"})
    BY <1>0, <2>1, <2>3, OnlyTail DEF Sent
  <2>5. Only(Tail(q), {"stop"})
    <3>1. OneClose(q, ep[e].closeWasSent) /\ ep[e].closeWasSent \in BOOLEAN
      BY <1>0 DEF Posted, OneClose, q, EndpointRecord
    <3>2. ~HasKind(Tail(q), {"close"})
      BY <1>0, <1>f, <2>1, <2>4, <3>1, OneCloseFacts
    <3> QED BY <2>4, <3>2 DEF Only, HasKind
  <2>6. \A i \in 1 .. Len(queue'[e]) : queue'[e][i].kind # "dispose"
    BY <1>11, <1>14, <2>1, <2>5 DEF Only
  <2>7. freed'[e] => ep'[e].socket = "none"
    <3>1. ep \in [End -> EndpointRecord] /\ Fewer(ep[e]) \in EndpointRecord
          /\ Fewer(ep[e]).socket = ep[e].socket
      BY <1>0, FewerFacts DEF Typed, EndType
    <3>2. CASE Free(e, Fewer(ep[e]))
      <4>1. ep'[e] = IF Fewer(ep[e]).socket = "endpoint" THEN Closed(Fewer(ep[e])) ELSE Fewer(ep[e])
        BY <3>1, <3>2 DEF Free, SetEp
      <4>2. ep[e].socket \in {"none", "request", "endpoint"}
        BY <1>0 DEF EndpointRecord
      <4> QED BY <1>3, <2>3, <3>1, <4>1, <4>2, ClosedFacts, Ends2
    <3>3. CASE ~Free(e, Fewer(ep[e]))
      BY <1>1, <1>14, <3>3 DEF SendDisposed
    <3> QED BY <3>2, <3>3
  <2> QED BY <1>11, <1>14, <2>1, <2>2, <2>3, <2>5, <2>6, <2>7 DEF Disposal
<1> QED BY <1>5, <1>7, <1>8, <1>9, <1>10, <1>12, <1>13, <1>14, QueueMoves

-----------------------------------------------------------------------------
(* What an end does to its stack, its socket and its log. *)

\* onclose is called: the socket is closed and the stack holds little else.
Parts(e) ==
  /\ ep'[e].socket = "none" /\ listed' = (listed /\ e # "server") /\ wrapper'[e] = wrapper[e]
  /\ stack'[e] = Append(<<>>, "close") \/ stack'[e] = Append(Pass, "close")
  /\ \/ ep[e].socket = "endpoint" \/ Has(stack[e], "closed")
     \/ ep[e].closeWasReceived /\ Has(stack[e], "closing")
  /\ wire'[e] = <<>> /\ said'[e] = said[e] /\ heard'[e] = heard[e]

\* Otherwise: it may go on with the handshake only when it is connected.
Continues(e) ==
  /\ closes'[e] = closes[e]
  /\ \/ ep'[e].socket = ep[e].socket
     \/ ep'[e].socket = "none" /\ ep[e].socket = "endpoint" /\ wrapper[e] = "collected" /\ freed'[e]
  /\ Has(stack'[e], "close") => Has(stack[e], "close")
  /\ Has(stack'[e], "connect") => Has(stack[e], "connect")
  /\ Has(stack'[e], "closed") => Has(stack[e], "closed") \/ ep[e].socket = "endpoint"
  /\ ep'[e].closeWasReceived /\ Has(stack'[e], "closing") =>
       (ep[e].closeWasReceived /\ Has(stack[e], "closing")) \/ ep[e].socket = "endpoint"
  /\ wrapper'[e] # wrapper[e] =>
       /\ Has(stack[e], "close") \/ wrapper[e] = "forgotten"
       /\ wrapper'[e] \in {"forgotten", "collected"}

LEMMA StackMoves ==
  ASSUME Typed, NEW e \in End, Shape(e), Handshake(e), Posted(e), Disposal(e),
         Script(e) \/ Loop(e)
  PROVE  Parts(e) \/ Continues(e)
<1> DEFINE q == stack[e]
           r == ep[e]
<1>0. /\ ep \in [End -> EndpointRecord] /\ stack \in [End -> Seq(Place)]
      /\ wrapper \in [End -> {"none", "remembered", "forgotten", "collected"}]
      /\ q \in Seq(Place) /\ r \in EndpointRecord /\ Answers(q, r) /\ freed \in [End -> BOOLEAN]
      /\ wire \in [End -> Seq(Item)]
  BY DEF Typed, EndType, LineType, Handshake
<1> HIDE DEF q, r
<1>s. ASSUME NEW s, SetStack(e, s) PROVE stack'[e] = s
  BY <1>0, <1>s DEF SetStack
<1>p. ASSUME NEW t, SetEp(e, t) PROVE ep'[e] = t
  BY <1>0, <1>p DEF SetEp
<1>u. /\ UNCHANGED stack => stack'[e] = q
      /\ UNCHANGED ep => ep'[e] = r
      /\ UNCHANGED closes => closes'[e] = closes[e]
      /\ UNCHANGED logVars => closes'[e] = closes[e]
      /\ UNCHANGED wrapper => wrapper'[e] = wrapper[e]
  BY DEF q, r, logVars
<1> DEFINE Tame(t) == t.socket = r.socket /\ t.closeWasReceived = r.closeWasReceived
<1>t. /\ Tame(r) /\ Tame(More(r)) /\ Tame(Fewer(r)) /\ Tame(Closing(r)) /\ Tame(Opened(r))
      /\ Tame(Requested(r))
  BY <1>0, MoreFacts, FewerFacts, ClosingFacts, OpenedFacts, RequestedFacts
<1>l. /\ {"connect", "message", "error", "closed", "failed", "closing", "close", "pass"} = Place
      /\ <<>> \in Seq(Place) /\ Pass \in Seq(Place) /\ Pass = <<"pass">>
  BY DEF Place, Pass
<1>h. /\ \A x \in Place : ~Has(<<>>, x)
      /\ \A x \in Place : Has(Pass, x) <=> x = "pass"
      /\ \A f, x \in Place : Has(Append(<<>>, f), x) <=> f = x
      /\ \A f, x \in Place : Has(Append(Pass, f), x) <=> "pass" = x \/ f = x
      /\ \A f, x \in Place : Has(Append(q, f), x) <=> Has(q, x) \/ f = x
      /\ \A x \in Place : q # <<>> /\ Has(Front(q), x) => Has(q, x)
      /\ \A f, x \in Place : Has(<<f>>, x) <=> f = x
  <2>1. /\ \A x \in Place : ~Has(<<>>, x)
        /\ \A f, x \in Place : Has(<<f>>, x) <=> f = x
    BY <1>0, HasFacts
  <2>2. \A x \in Place : Has(Pass, x) <=> x = "pass"
    BY <1>l, <2>1
  <2>3. \A s \in Seq(Place), f, x \in Place : Has(Append(s, f), x) <=> Has(s, x) \/ f = x
    BY HasFacts
  <2>4. \A x \in Place : q # <<>> /\ Has(Front(q), x) => Has(q, x)
    BY <1>0, <1>l, HasFacts
  <2>5. /\ \A f, x \in Place : Has(Append(<<>>, f), x) <=> f = x
        /\ \A f, x \in Place : Has(Append(Pass, f), x) <=> "pass" = x \/ f = x
        /\ \A f, x \in Place : Has(Append(q, f), x) <=> Has(q, x) \/ f = x
    <3>1. \A f, x \in Place : Has(Append(<<>>, f), x) <=> f = x
      BY DEF Has
    <3>2. \A f, x \in Place : Has(Append(Pass, f), x) <=> "pass" = x \/ f = x
      BY DEF Has, Pass
    <3>3. \A f, x \in Place : Has(Append(q, f), x) <=> Has(q, x) \/ f = x
      BY <1>0, <2>3
    <3> QED BY <3>1, <3>2, <3>3
  <2> QED BY <2>1, <2>2, <2>4, <2>5
<1>o. q # <<>> => Has(q, Last(q))
  <2>1. ASSUME q # <<>> PROVE Len(q) \in 1 .. Len(q) /\ Last(q) = q[Len(q)]
    <3>1. Len(q) \in Nat \ {0} /\ Last(q) = q[Len(q)]
      BY <1>0, <2>1, FrontLast
    <3> QED BY <3>1
  <2> QED BY <2>1 DEF Has
<1>b. \A f : Top(e, f) => q # <<>> /\ Last(q) = f /\ Below(e) = Front(q)
  BY DEF Top, Idle, Below, q
\* A stack that only loses or gains what does not matter here.
<1> DEFINE Calm(s) ==
      /\ \A x \in {"close", "connect", "closed", "closing"} : Has(s, x) => Has(q, x)
<1>c. ASSUME Calm(stack'[e]), Tame(ep'[e]), closes'[e] = closes[e], wrapper'[e] = wrapper[e]
      PROVE  Continues(e)
  BY <1>c DEF Continues, q, r
<1>d. ASSUME NEW t \in EndpointRecord, NEW s, Disconnect(e, t, s), s = <<>> \/ s = Pass,
             UNCHANGED <<wrapper, said, heard>>,
             \/ r.socket = "endpoint" \/ Has(q, "closed")
             \/ r.closeWasReceived /\ Has(q, "closing")
      PROVE  Parts(e)
  <2>1. ep'[e].socket = "none"
    BY <1>d, <1>p, ClosedFacts DEF Disconnect
  <2>2. /\ stack'[e] = Append(<<>>, "close") \/ stack'[e] = Append(Pass, "close")
        /\ listed' = (listed /\ e # "server")
    BY <1>d, <1>s DEF Disconnect, CallClose
  <2>3. wire'[e] = <<>>
    BY <1>0, <1>d, Ends2 DEF Disconnect, FskNetSocketClose
  <2> QED BY <1>d, <2>1, <2>2, <2>3 DEF Parts, q, r
<1>q. /\ Calm(q) /\ Calm(<<>>) /\ Calm(Pass) /\ Calm(Append(q, "error")) /\ Calm(<<"message">>)
      /\ Calm(Append(Pass, "message")) /\ Calm(Append(Pass, "error")) /\ Calm(Append(<<>>, "failed"))
      /\ q # <<>> => Calm(Front(q))
  BY <1>h, <1>l
<1> HIDE DEF Calm, Tame
<1>1. ASSUME Script(e) PROVE Continues(e)
  <2>1. CASE KPR_websocketclient_send(e)
    <3>1. /\ ep'[e] \in {r, More(r)} /\ stack'[e] \in {q, Append(q, "error")}
          /\ UNCHANGED <<wrapper, closes>>
      BY <2>1, <1>p, <1>s, <1>u DEF KPR_websocketclient_send, SendRawFrame, CallError, q, r
    <3> QED BY <1>c, <1>q, <1>t, <1>u, <3>1
  <2>2. CASE KPR_websocketclient_close(e)
    <3>1. /\ ep'[e] = Closing(r)
          /\ stack'[e] = IF r.state = "open" THEN Append(q, "closing") ELSE q
          /\ UNCHANGED <<wrapper, logVars>>
      BY <2>2, <1>p, <1>s DEF KPR_websocketclient_close, Close, q, r
    <3>2. CASE r.state # "open"
      BY <1>c, <1>q, <1>t, <1>u, <3>1, <3>2
    <3>3. CASE r.state = "open"
      <4>1. ~r.closeWasReceived
        BY <1>0, <3>3 DEF Answers, Late
      <4>2. /\ ~ep'[e].closeWasReceived /\ ep'[e].socket = r.socket
        BY <1>t, <3>1, <4>1 DEF Tame
      <4>3. \A x \in {"close", "connect", "closed"} : Has(stack'[e], x) => Has(q, x)
        BY <1>h, <1>l, <3>1, <3>3
      <4> QED BY <1>u, <3>1, <4>2, <4>3 DEF Continues, q, r
    <3> QED BY <3>2, <3>3
  <2>3. CASE KPR_websocketclient(e)
    <3>1. /\ wrapper[e] = "forgotten" /\ wrapper'[e] = "collected" /\ UNCHANGED <<ep, stack, logVars>>
      BY <1>0, <2>3 DEF KPR_websocketclient
    <3> QED BY <1>u, <3>1 DEF Continues, q, r
  <2> QED BY <1>1, <2>1, <2>2, <2>3 DEF Script
<1>2. ASSUME Calls(e) PROVE Continues(e)
  <2>1. CASE OpenDeferred(e) \/ SendBytes(e) \/ KprSocketWriterDataWriter(e)
    <3>1. /\ ep'[e] \in {r, Fewer(r)} /\ stack'[e] \in {q, <<"message">>}
          /\ UNCHANGED <<wrapper, logVars>>
      BY <2>1, <1>p, <1>s, <1>u DEF OpenDeferred, SendBytes, KprSocketWriterDataWriter, q, r
    <3> QED BY <1>c, <1>q, <1>t, <1>u, <3>1
  <2>4. CASE SendBytesError(e) \/ DataWriterError(e)
    <3>1. /\ ep'[e] \in {r, Fewer(r)} /\ stack'[e] \in {<<>>, Append(<<>>, "failed")}
          /\ UNCHANGED <<wrapper, closes>>
      BY <2>4, <1>p, <1>s, <1>u DEF SendBytesError, DataWriterError, HandleError, CallError, r
    <3> QED BY <1>c, <1>q, <1>t, <1>u, <3>1
  <2>2. CASE SendBytesFails(e) \/ DataWriterFails(e)
    <3>1. /\ ep'[e] \in {r, Fewer(r)} /\ stack'[e] = Append(<<>>, "closed")
          /\ UNCHANGED <<wrapper, closes>>
      BY <2>2, <1>p, <1>s, <1>u DEF SendBytesFails, DataWriterFails, CallError, r
    <3>2. r.socket = "endpoint"
      BY <2>2 DEF SendBytesFails, DataWriterFails, Posted, r
    <3>3. \A x \in {"close", "connect", "closing"} : ~Has(stack'[e], x)
      BY <1>h, <1>l, <3>1
    <3>4. ep'[e].socket = r.socket
      BY <1>t, <3>1 DEF Tame
    <3> QED BY <1>u, <3>1, <3>2, <3>3, <3>4 DEF Continues, r
  <2>3. CASE EndpointDispose(e) \/ SendDisposed(e)
    <3>1. UNCHANGED <<wrapper, stack, logVars>>
      BY <2>3 DEF EndpointDispose, SendDisposed
    <3>2. CASE ep'[e] \in {r, Fewer(r), Requested(r)}
      BY <1>c, <1>q, <1>t, <1>u, <3>1, <3>2
    <3>3. CASE ep'[e] \notin {r, Fewer(r), Requested(r)}
      <4>1. PICK t \in {r, Fewer(r)} : ep'[e] = Closed(t) /\ t.socket = "endpoint" /\ freed' = [freed EXCEPT ![e] = TRUE]
        BY <2>3, <3>3, <1>p, EpMoves DEF SendDisposed, Free, r
      <4>2. t \in EndpointRecord /\ t.socket = r.socket /\ t.closeWasReceived = r.closeWasReceived
        BY <1>0, FewerFacts
      <4>3. /\ ep'[e].socket = "none" /\ r.socket = "endpoint" /\ freed'[e]
            /\ ep'[e].closeWasReceived = r.closeWasReceived
        BY <1>0, <4>1, <4>2, ClosedFacts
      <4>4. wrapper[e] = "collected"
        <5>1. CASE SendDisposed(e)
          BY <1>0, <5>1, FewerFacts DEF SendDisposed, Disposal, r
        <5>2. CASE EndpointDispose(e)
          <6>1. queue[e] \in Seq(Item) /\ queue[e] # <<>> /\ Head(queue[e]).kind = "dispose"
            BY <5>2 DEF EndpointDispose, Called, Typed, LineType
          <6>2. 1 \in 1 .. Len(queue[e]) /\ queue[e][1].kind = "dispose"
            BY <6>1
          <6> QED BY <6>2 DEF Disposal
        <5> QED BY <2>3, <5>1, <5>2
      <4> QED BY <1>u, <3>1, <4>3, <4>4 DEF Continues, q, r
    <3> QED BY <3>2, <3>3
  <2> QED BY <1>2, <2>1, <2>2, <2>3, <2>4 DEF Calls
<1>3. ASSUME Passes(e) PROVE Parts(e) \/ Continues(e)
  <2>1. CASE HandleRefusal(e) \/ HandleCloseFrame(e)
    <3>1. /\ Disconnect(e, r, Pass) \/ Disconnect(e, Got(r), Pass)
          /\ r.socket = "endpoint" /\ UNCHANGED <<wrapper, said, heard>>
      BY <2>1, EpMoves DEF HandleRefusal, HandleCloseFrame, Reads, r
    <3>2. CASE Disconnect(e, r, Pass)
      BY <1>0, <1>d, <3>1, <3>2
    <3>3. CASE Disconnect(e, Got(r), Pass)
      <4>1. Got(r) \in EndpointRecord
        BY <1>0, GotFacts
      <4> QED BY <1>d, <3>1, <3>3, <4>1
    <3> QED BY <3>1, <3>2, <3>3
  <2>2. CASE AnswerCloseFrame(e)
    <3>1. /\ stack'[e] = Append(Pass, "closing") /\ ep'[e] = Answering(Got(r))
          /\ r.socket = "endpoint" /\ UNCHANGED <<wrapper, logVars>>
      BY <2>2, <1>s, <1>p, EpMoves DEF AnswerCloseFrame, Reads, r
    <3>2. ep'[e].socket = r.socket
      <4>1. Got(r) \in EndpointRecord /\ Got(r).socket = r.socket
        BY <1>0, GotFacts
      <4> QED BY <3>1, <4>1, AnsweringFacts
    <3>3. \A x \in {"close", "connect", "closed"} : ~Has(stack'[e], x)
      BY <1>h, <1>l, <3>1
    <3> QED BY <1>u, <3>1, <3>2, <3>3 DEF Continues, r
  <2>3. CASE ReadClosed(e)
    <3>1. /\ stack'[e] = Append(<<>>, "closed") /\ ep'[e] = r
          /\ r.socket = "endpoint" /\ UNCHANGED <<wrapper, closes>>
      BY <2>3, <1>s, <1>u DEF ReadClosed, CallError, Reads, r
    <3>2. \A x \in {"close", "connect", "closing"} : ~Has(stack'[e], x)
      BY <1>h, <1>l, <3>1
    <3> QED BY <1>u, <3>1, <3>2 DEF Continues, r
  <2>4. CASE EndPass(e)
    <3>1. stack'[e] = Front(q) /\ q # <<>> /\ ep'[e] = r /\ UNCHANGED <<wrapper, logVars>>
      BY <2>4, <1>s, <1>u, <1>b DEF EndPass
    <3> QED BY <1>c, <1>q, <1>t, <1>u, <3>1
  <2>5. CASE \/ HandleResponse(e) \/ HandleTextMessage(e) \/ HandlePing(e) \/ HandlePong(e)
             \/ ReadFails(e)
    <3>1. /\ ep'[e] \in {r, Opened(r), More(r)} /\ UNCHANGED wrapper /\ closes'[e] = closes[e]
          /\ stack'[e] \in {<<>>, Pass, Append(Pass, "message"), Append(Pass, "error"),
                            Append(<<>>, "failed")}
      BY <2>5, <1>s, <1>p, <1>u, EpMoves DEF HandleResponse, HandleTextMessage, HandlePing,
         HandlePong, ReadFails, HandleError, SendRawFrame, CallError, r
    <3> QED BY <1>c, <1>q, <1>t, <1>u, <3>1
  <2> QED BY <1>3, <2>1, <2>2, <2>3, <2>4, <2>5 DEF Passes
<1>4. ASSUME Returns(e) PROVE Parts(e) \/ Continues(e)
  <2>1. CASE ReturnScript(e)
    <3>1. stack'[e] = Front(q) /\ q # <<>> /\ ep'[e] = r /\ UNCHANGED <<wrapper, logVars>>
      BY <2>1, <1>s, <1>u, <1>b DEF ReturnScript
    <3> QED BY <1>c, <1>q, <1>t, <1>u, <3>1
  <2>2. CASE ReturnClosed(e)
    <3>1. Below(e) = <<>> /\ q = <<"closed">>
      BY <2>2, BaseTop DEF ReturnClosed, Base, q
    <3>2. Disconnect(e, r, <<>>) /\ UNCHANGED <<wrapper, said, heard>> /\ Has(q, "closed")
      BY <1>h, <1>l, <2>2, <3>1 DEF ReturnClosed, r
    <3>3. r \in EndpointRecord
      BY <1>0
    <3> QED BY <1>d, <3>2, <3>3
  <2>3. CASE ReturnFailed(e)
    <3>1. /\ stack'[e] = IF r.state = "open" THEN Append(<<>>, "closing") ELSE <<>>
          /\ ep'[e] = Closing(r) /\ UNCHANGED <<wrapper, logVars>>
      BY <1>s, <1>p, <2>3, BaseTop DEF ReturnFailed, Close, Base, r
    <3>2. CASE r.state # "open"
      BY <1>c, <1>q, <1>t, <1>u, <3>1, <3>2
    <3>3. CASE r.state = "open"
      <4>1. ~r.closeWasReceived
        BY <1>0, <3>3 DEF Answers, Late
      <4>2. /\ ~ep'[e].closeWasReceived /\ ep'[e].socket = r.socket
        BY <1>t, <3>1, <4>1 DEF Tame
      <4>3. \A x \in {"close", "connect", "closed"} : ~Has(stack'[e], x)
        BY <1>h, <1>l, <3>1, <3>3
      <4> QED BY <1>u, <3>1, <4>2, <4>3 DEF Continues, q, r
    <3> QED BY <3>2, <3>3
  <2>4. CASE ReturnClosing(e)
    <3> DEFINE a == Announced(More(r))
    <3>0. More(r) \in EndpointRecord /\ More(r).socket = r.socket
          /\ More(r).closeWasReceived = r.closeWasReceived
      BY <1>0, MoreFacts
    <3>1. a \in EndpointRecord /\ a.socket = r.socket /\ a.closeWasReceived = r.closeWasReceived
      BY <3>0, AnnouncedFacts
    <3>2. Clean(a) \in EndpointRecord
      BY <3>1, CleanFacts
    <3>3. q # <<>> /\ Last(q) = "closing" /\ Below(e) = Front(q)
      BY <2>4, <1>b DEF ReturnClosing
    <3>4. (r.closeWasReceived => Front(q) = Pass) /\ Has(q, "closing") /\ ~Has(Front(q), "closing")
      <4>1. Has(q, "closing")
        BY <1>o, <3>3
      <4> QED BY <1>0, <3>3, <4>1, ClosingTop
    <3>5. CASE r.closeWasReceived
      <4>1. Disconnect(e, Clean(a), Pass) /\ UNCHANGED <<wrapper, said, heard>>
        BY <2>4, <3>1, <3>3, <3>4, <3>5, EpMoves DEF ReturnClosing, r
      <4> QED BY <1>d, <3>2, <3>4, <3>5, <4>1
    <3>6. CASE ~r.closeWasReceived
      <4>1. /\ ep'[e] = a /\ stack'[e] = Front(q) /\ UNCHANGED <<wrapper, closes>>
        BY <1>s, <1>p, <2>4, <3>1, <3>3, <3>6, EpMoves DEF ReturnClosing, r
      <4>2. Tame(a)
        BY <3>1 DEF Tame
      <4> QED BY <1>c, <1>q, <1>u, <3>3, <4>1, <4>2
    <3> QED BY <3>5, <3>6
  <2>5. CASE ReturnClose(e)
    <3>1. /\ q # <<>> /\ Last(q) = "close" /\ stack'[e] = Front(q) /\ ep'[e] = r /\ UNCHANGED logVars
          /\ wrapper'[e] = IF wrapper[e] = "remembered" THEN "forgotten" ELSE wrapper[e]
      BY <1>0, <2>5, <1>s, <1>u, <1>b DEF ReturnClose
    <3>2. Has(q, "close")
      BY <1>o, <3>1
    <3>3. \A x \in {"close", "connect", "closed", "closing"} : Has(stack'[e], x) => Has(q, x)
      BY <1>q, <3>1 DEF Calm
    <3> QED BY <1>u, <3>1, <3>2, <3>3 DEF Continues, q, r
  <2> QED BY <1>4, <2>1, <2>2, <2>3, <2>4, <2>5 DEF Returns
<1> QED BY <1>1, <1>2, <1>3, <1>4 DEF Loop

LEMMA GoneStep ==
  ASSUME Typed, NEW e \in End, Shape(e), Handshake(e), Posted(e), Disposal(e), Gone(e), Dialling,
         Script(e) \/ Loop(e)
  PROVE  Gone(e)'
<1>0. dial' = dial /\ dropped' = dropped /\ (listed' => listed)
  <2>1. PICK d \in End : d # e
    BY DEF End
  <2> QED BY <2>1, Elsewhere
<1>n. closes[e] \in Nat
  BY DEF Typed, LogType
<1>1. CASE Parts(e)
  <2>1. e = "client" => dial' = "done"
    BY <1>0, <1>1 DEF Parts, Dialling, Fresh
  <2>2. /\ e = "server" => ~listed' /\ ep'[e].socket # "request"
        /\ ep'[e].socket = "none"
    BY <1>1 DEF Parts
  <2>3. ~Has(stack'[e], "closed") /\ ~Has(stack'[e], "closing")
    BY <1>1 DEF Parts, Has, Pass
  <2> QED BY <2>1, <2>2, <2>3 DEF Gone
<1>2. CASE Continues(e)
  <2>1. Left(e)' => Left(e)
    BY <1>2 DEF Continues, Left
  <2>2. ASSUME Left(e)
        PROVE  /\ e = "client" => dial' = "done"
               /\ e = "server" => ~listed' /\ ep'[e].socket # "request"
               /\ ~(dropped' /\ e = "server") =>
                    /\ ep'[e].socket = "none" /\ ~Has(stack'[e], "closed")
                    /\ ~(ep'[e].closeWasReceived /\ Has(stack'[e], "closing"))
    <3>1. /\ e = "client" => dial' = "done"
          /\ e = "server" => ~listed' /\ ep'[e].socket # "request"
      BY <1>0, <1>2, <2>2 DEF Continues, Gone
    <3>2. ASSUME ~(dropped' /\ e = "server")
          PROVE  /\ ep'[e].socket = "none" /\ ~Has(stack'[e], "closed")
                 /\ ~(ep'[e].closeWasReceived /\ Has(stack'[e], "closing"))
      BY <1>0, <1>2, <2>2, <3>2 DEF Continues, Gone
    <3> QED BY <3>1, <3>2
  <2> QED BY <2>1, <2>2 DEF Gone
<1> QED BY <1>1, <1>2, StackMoves

\* Nothing but reading an answer or a close frame opens or closes an end.
LEMMA FreshStep ==
  ASSUME Typed, NEW e \in End, Shape(e), Handshake(e), Fresh(e), Script(e) \/ Loop(e)
  PROVE  Fresh(e)' \/ (Reads(e, {"response", "close"}) /\ wire'[e] = Tail(wire[e]))
<1> DEFINE q == stack[e]
           r == ep[e]
<1>0. /\ ep \in [End -> EndpointRecord] /\ stack \in [End -> Seq(Place)]
      /\ q \in Seq(Place) /\ r \in EndpointRecord
      /\ ~r.closeWasSent /\ ~r.closeWasReceived /\ r.state # "open" /\ ~Has(q, "closing")
  BY DEF Typed, EndType, LineType, Fresh
<1> HIDE DEF q, r
<1>s. ASSUME NEW s, SetStack(e, s) PROVE stack'[e] = s
  BY <1>0, <1>s DEF SetStack
<1>p. ASSUME NEW t, SetEp(e, t) PROVE ep'[e] = t
  BY <1>0, <1>p DEF SetEp
<1>u. /\ UNCHANGED stack => stack'[e] = q
      /\ UNCHANGED ep => ep'[e] = r
  BY DEF q, r
<1> DEFINE Tame(t) == ~t.closeWasSent /\ ~t.closeWasReceived /\ t.state # "open"
           Calm(s) == ~Has(s, "closing")
<1>t. /\ Tame(r) /\ Tame(More(r)) /\ Tame(Fewer(r)) /\ Tame(Closing(r)) /\ Tame(Closed(r))
      /\ Tame(Requested(r)) /\ Tame(Closed(Fewer(r)))
  <2>1. Tame(Fewer(r)) /\ Fewer(r) \in EndpointRecord
    BY <1>0, FewerFacts
  <2>2. Tame(Closed(Fewer(r)))
    BY <2>1, ClosedFacts
  <2>3. Tame(More(r)) /\ Tame(Requested(r))
    BY <1>0, MoreFacts, RequestedFacts
  <2>4. Tame(Closing(r))
    BY <1>0, ClosingFacts
  <2>5. Tame(r) /\ Tame(Closed(r))
    BY <1>0, ClosedFacts
  <2> QED BY <2>1, <2>2, <2>3, <2>4, <2>5
<1>q. /\ Calm(q) /\ Calm(<<>>) /\ Calm(Pass) /\ Calm(Append(q, "error")) /\ Calm(<<"message">>)
      /\ Calm(Append(Pass, "message")) /\ Calm(Append(Pass, "error")) /\ Calm(Append(<<>>, "failed"))
      /\ Calm(Append(<<>>, "closed")) /\ Calm(Append(Pass, "close")) /\ Calm(Append(<<>>, "close"))
      /\ q # <<>> => Calm(Front(q))
  <2>1. Calm(Append(q, "error")) /\ (q # <<>> => Calm(Front(q)))
    BY <1>0, HasFacts DEF Place
  <2>2. /\ Calm(q) /\ Calm(<<>>) /\ Calm(Pass) /\ Calm(<<"message">>)
        /\ Calm(Append(Pass, "message")) /\ Calm(Append(Pass, "error")) /\ Calm(Append(<<>>, "failed"))
        /\ Calm(Append(<<>>, "closed")) /\ Calm(Append(Pass, "close")) /\ Calm(Append(<<>>, "close"))
    BY <1>0 DEF Has, Pass
  <2> QED BY <2>1, <2>2
<1>c. ASSUME Tame(ep'[e]), Calm(stack'[e]) PROVE Fresh(e)'
  BY <1>c DEF Fresh
<1>b. \A f : Top(e, f) => q # <<>> /\ Last(q) = f /\ Below(e) = Front(q) /\ f # "closing"
  <2>1. q # <<>> => Has(q, Last(q))
    <3>1. ASSUME q # <<>> PROVE Len(q) \in Nat \ {0} /\ Last(q) = q[Len(q)]
      BY <1>0, <3>1, FrontLast
    <3> QED BY <3>1 DEF Has
  <2> QED BY <1>0, <2>1 DEF Top, Idle, Below, q
<1> HIDE DEF Tame, Calm
<1>1. ASSUME Script(e) PROVE Fresh(e)'
  <2>1. ep'[e] \in {r, More(r), Closing(r)} /\ stack'[e] \in {q, Append(q, "error")}
    BY <1>0, <1>1, <1>s, <1>p, <1>u DEF Script, KPR_websocketclient_send, KPR_websocketclient_close,
       KPR_websocketclient, SendRawFrame, CallError, Close, q, r
  <2> QED BY <1>c, <1>q, <1>t, <2>1
<1>2. ASSUME Calls(e) PROVE Fresh(e)'
  <2>1. /\ ep'[e] \in {r, Fewer(r), Requested(r), Closed(r), Closed(Fewer(r))}
        /\ stack'[e] \in {q, <<>>, <<"message">>, Append(<<>>, "closed"), Append(<<>>, "failed")}
    BY <1>2, <1>s, <1>p, <1>u, EpMoves DEF Calls, OpenDeferred, EndpointDispose, SendDisposed,
       SendBytes, SendBytesFails, SendBytesError, KprSocketWriterDataWriter, DataWriterFails,
       DataWriterError, HandleError, Free, CallError, r
  <2> QED BY <1>c, <1>q, <1>t, <2>1
<1>3. ASSUME Passes(e)
      PROVE  Fresh(e)' \/ (Reads(e, {"response", "close"}) /\ wire'[e] = Tail(wire[e]))
  <2>1. CASE HandleResponse(e) \/ AnswerCloseFrame(e)
    <3>1. wire \in [End -> Seq(Item)]
      BY DEF Typed, LineType
    <3> QED BY <2>1, <3>1 DEF HandleResponse, AnswerCloseFrame, Consumed, Reads
  <2>2. CASE ~(HandleResponse(e) \/ AnswerCloseFrame(e))
    <3>1. /\ ep'[e] \in {r, More(r), Closed(r)}
          /\ \/ stack'[e] \in {<<>>, Pass, Append(Pass, "message"), Append(Pass, "error"),
                               Append(<<>>, "failed"), Append(<<>>, "closed"), Append(Pass, "close")}
             \/ q # <<>> /\ stack'[e] = Front(q)
      BY <1>0, <1>3, <1>s, <1>p, <1>u, <1>b, <2>2 DEF Passes, EndPass, HandleRefusal,
         HandleTextMessage, HandlePing, HandlePong, HandleCloseFrame, ReadClosed,
         ReadFails, HandleError, Disconnect, CallClose, SendRawFrame, CallError, r
    <3> QED BY <1>c, <1>q, <1>t, <3>1
  <2> QED BY <2>1, <2>2
<1>4. ASSUME Returns(e) PROVE Fresh(e)'
  <2>1. Top(e, "closed") \/ Top(e, "failed") => Below(e) = <<>>
    BY BaseTop DEF Base
  <2>2. /\ ep'[e] \in {r, Closed(r), Closing(r)}
        /\ \/ stack'[e] \in {<<>>, Append(<<>>, "close")}
           \/ q # <<>> /\ stack'[e] = Front(q)
    BY <1>0, <1>4, <1>s, <1>p, <1>u, <1>b, <2>1 DEF Returns, ReturnScript, ReturnClosed,
       ReturnFailed, ReturnClosing, ReturnClose, Disconnect, CallClose, Close, r
  <2> QED BY <1>c, <1>q, <1>t, <2>2
<1> QED BY <1>1, <1>2, <1>3, <1>4 DEF Loop

-----------------------------------------------------------------------------
(* What an end does to the two directions of the connection. *)

\* What the socket of e closes with: its peer may lose the rest.
Cuts(e) ==
  /\ wire'[e] = <<>>
  /\ \/ wire'[Peer(e)] = wire[Peer(e)]
     \/ \E k \in 0 .. Len(wire[Peer(e)]) :
          /\ Fits(Peer(e))
          /\ wire'[Peer(e)] = Append(SubSeq(wire[Peer(e)], 1, k), Frame("fin"))

\* Frames of e get through, or are lost when its peer has closed.
Delivers(e, s) ==
  wire'[Peer(e)] = IF Fits(Peer(e)) THEN wire[Peer(e)] \o s ELSE wire[Peer(e)]

LEMMA CloseCuts ==
  ASSUME Typed, NEW e \in End, FskNetSocketClose(e)
  PROVE  Cuts(e)
<1> DEFINE p == Peer(e)
<1>0. wire \in [End -> Seq(Item)] /\ p \in End /\ p # e
  BY Ends2 DEF Typed, LineType
<1>1. PICK k \in 0 .. Len(wire[p]) :
        wire' = [wire EXCEPT ![e] = <<>>,
                   ![p] = IF Fits(p) THEN SubSeq(@, 1, k) \o <<Frame("fin")>> ELSE @]
  <2>1. Len(wire[p]) \in 0 .. Len(wire[p])
    BY <1>0
  <2> QED BY <2>1 DEF FskNetSocketClose
<1>2. SubSeq(wire[p], 1, k) \in Seq(Item) /\ Frame("fin") \in Item
  BY <1>0, PrefixFacts, Items DEF Kind
<1>3. SubSeq(wire[p], 1, k) \o <<Frame("fin")>> = Append(SubSeq(wire[p], 1, k), Frame("fin"))
  BY <1>2
<1>4. wire'[e] = <<>>
  BY <1>0, <1>1
<1>5. wire'[p] = IF Fits(p) THEN SubSeq(wire[p], 1, k) \o <<Frame("fin")>> ELSE wire[p]
  BY <1>0, <1>1
<1> QED BY <1>3, <1>4, <1>5 DEF Cuts

LEMMA WireMoves ==
  ASSUME Typed, NEW e \in End, Script(e) \/ Loop(e)
  PROVE  \/ Cuts(e) /\ backlog'[e] = <<>> /\ ep'[e].socket = "none"
         \/ /\ ep'[e].socket = ep[e].socket
            /\ \/ UNCHANGED wire
               \/ /\ wire'[Peer(e)] = wire[Peer(e)] /\ wire'[e] = Tail(wire[e])
                  /\ wire[e] # <<>> /\ ep[e].socket = "endpoint"
               \/ /\ ep[e].socket = "endpoint" /\ Called(e, Sent) /\ backlog[e] = <<>>
                  /\ Delivers(e, <<Head(queue[e])>>) /\ wire'[e] = wire[e]
               \/ /\ backlog[e] # <<>> /\ wire'[e] = wire[e]
                  /\ \E k \in 1 .. Len(backlog[e]) :
                       /\ Delivers(e, SubSeq(backlog[e], 1, k))
                       /\ backlog'[e] = SubSeq(backlog[e], k + 1, Len(backlog[e]))
<1> DEFINE r == ep[e]
<1>0. /\ ep \in [End -> EndpointRecord] /\ wire \in [End -> Seq(Item)] /\ r \in EndpointRecord
      /\ backlog \in [End -> Seq(Item)] /\ Peer(e) \in End /\ Peer(e) # e
  BY Ends2 DEF Typed, EndType, LineType
<1> HIDE DEF r
<1>p. ASSUME NEW t, SetEp(e, t) PROVE ep'[e] = t
  BY <1>0, <1>p DEF SetEp
<1>c. ASSUME NEW t \in EndpointRecord, NEW s, Disconnect(e, t, s)
      PROVE  Cuts(e) /\ backlog'[e] = <<>> /\ ep'[e].socket = "none"
  BY <1>0, <1>p, <1>c, ClosedFacts, CloseCuts DEF Disconnect
<1>a. ASSUME NEW s, Arrives(e, s) PROVE Delivers(e, s) /\ wire'[e] = wire[e]
  BY <1>0, <1>a DEF Arrives, Delivers
<1>t. ASSUME NEW K, Reads(e, K), Consumed(e)
      PROVE  /\ wire'[Peer(e)] = wire[Peer(e)] /\ wire'[e] = Tail(wire[e]) /\ wire[e] # <<>>
             /\ r.socket = "endpoint"
  BY <1>0, <1>t DEF Reads, Consumed, r
<1>m. /\ Got(r) \in EndpointRecord /\ Clean(Announced(More(r))) \in EndpointRecord
      /\ Announced(More(r)).socket = r.socket /\ Answering(Got(r)).socket = r.socket
      /\ Fewer(r) \in EndpointRecord
  <2>1. More(r) \in EndpointRecord /\ More(r).socket = r.socket /\ Got(r) \in EndpointRecord
        /\ Got(r).socket = r.socket /\ Fewer(r) \in EndpointRecord
    BY <1>0, MoreFacts, GotFacts, FewerFacts
  <2>2. Announced(More(r)) \in EndpointRecord /\ Announced(More(r)).socket = r.socket
    BY <2>1, AnnouncedFacts
  <2> QED BY <2>1, <2>2, CleanFacts, AnsweringFacts
<1>n. /\ More(r).socket = r.socket /\ Fewer(r).socket = r.socket /\ Requested(r).socket = r.socket
      /\ Closing(r).socket = r.socket /\ Opened(r).socket = r.socket
  BY <1>0, MoreFacts, FewerFacts, RequestedFacts, ClosingFacts, OpenedFacts
<1>1. CASE Script(e)
  <2>1. ep'[e] \in {r, More(r), Closing(r)} /\ UNCHANGED wire
    BY <1>1, <1>p DEF Script, KPR_websocketclient_send, KPR_websocketclient_close,
       KPR_websocketclient, SendRawFrame, Close, netVars, r
  <2> QED BY <1>n, <2>1 DEF r
<1>2. CASE Calls(e)
  <2>f. ASSUME NEW t \in EndpointRecord, t.socket = r.socket, Free(e, t)
        PROVE  \/ Cuts(e) /\ backlog'[e] = <<>> /\ ep'[e].socket = "none"
               \/ UNCHANGED wire /\ ep'[e].socket = ep[e].socket
    BY <1>0, <1>p, <2>f, ClosedFacts, CloseCuts DEF Free, r
  <2>1. CASE EndpointDispose(e)
    <3>1. CASE Free(e, r)
      BY <1>0, <2>f, <3>1
    <3>2. CASE ~Free(e, r)
      BY <1>p, <1>n, <2>1, <3>2, EpMoves DEF r
    <3> QED BY <3>1, <3>2
  <2>2. CASE SendDisposed(e)
    <3>1. CASE Free(e, Fewer(r))
      BY <1>m, <1>n, <2>f, <3>1
    <3>2. CASE ~Free(e, Fewer(r))
      BY <1>p, <1>n, <2>2, <3>2 DEF SendDisposed, r
    <3> QED BY <3>1, <3>2
  <2>3. CASE SendBytes(e)
    <3>1. ep'[e].socket = ep[e].socket /\ Called(e, Sent)
      BY <1>p, <1>n, <2>3 DEF SendBytes, r
    <3>2. \/ UNCHANGED wire
          \/ ep[e].socket = "endpoint" /\ backlog[e] = <<>> /\ Arrives(e, <<Head(queue[e])>>)
      BY <2>3 DEF SendBytes
    <3> QED BY <1>a, <3>1, <3>2
  <2>4. CASE KprSocketWriterDataWriter(e)
    <3>1. PICK k \in 1 .. Len(backlog[e]) :
            /\ Arrives(e, SubSeq(backlog[e], 1, k))
            /\ backlog' = [backlog EXCEPT ![e] = SubSeq(@, k + 1, Len(@))]
      BY <2>4 DEF KprSocketWriterDataWriter
    <3>2. backlog'[e] = SubSeq(backlog[e], k + 1, Len(backlog[e]))
      BY <1>0, <3>1
    <3>3. UNCHANGED ep /\ backlog[e] # <<>>
      BY <2>4 DEF KprSocketWriterDataWriter
    <3>4. Delivers(e, SubSeq(backlog[e], 1, k)) /\ wire'[e] = wire[e]
      BY <1>a, <3>1
    <3> QED BY <3>2, <3>3, <3>4
  <2>5. CASE \/ OpenDeferred(e) \/ SendBytesFails(e) \/ DataWriterFails(e)
             \/ SendBytesError(e) \/ DataWriterError(e)
    BY <1>p, <1>n, <2>5 DEF OpenDeferred, SendBytesFails, SendBytesError, DataWriterFails,
       DataWriterError, HandleError, netVars, r
  <2> QED BY <1>2, <2>1, <2>2, <2>3, <2>4, <2>5 DEF Calls
<1>3. CASE Passes(e)
  <2>1. CASE HandleRefusal(e) \/ HandleCloseFrame(e)
    <3>1. Disconnect(e, r, Pass) \/ Disconnect(e, Got(r), Pass)
      BY <2>1, EpMoves DEF HandleRefusal, r
    <3> QED BY <1>0, <1>c, <1>m, <3>1
  <2>2. CASE EndPass(e)
    BY <2>2 DEF EndPass, netVars
  <2>3. CASE \/ HandleResponse(e) \/ HandleTextMessage(e) \/ HandlePing(e) \/ HandlePong(e)
             \/ AnswerCloseFrame(e) \/ ReadClosed(e) \/ ReadFails(e)
    <3>1. /\ ep'[e] \in {r, Opened(r), More(r), Answering(Got(r))}
          /\ Consumed(e) /\ \E K : Reads(e, K)
      BY <1>p, <2>3, EpMoves DEF HandleResponse, HandleTextMessage,
         HandlePing, HandlePong, AnswerCloseFrame, ReadClosed, ReadFails, HandleError,
         SendRawFrame, r
    <3>2. ep'[e].socket = ep[e].socket
      BY <1>m, <1>n, <3>1 DEF r
    <3> QED BY <1>t, <3>1, <3>2 DEF r
  <2> QED BY <1>3, <2>1, <2>2, <2>3 DEF Passes
<1>4. CASE Returns(e)
  <2>1. CASE ReturnClosed(e)
    BY <1>0, <1>c, <2>1 DEF ReturnClosed, r
  <2>2. CASE ReturnClosing(e)
    <3>1. CASE Announced(More(r)).closeWasReceived
      BY <1>c, <1>m, <2>2, <3>1, EpMoves DEF r
    <3>2. CASE ~Announced(More(r)).closeWasReceived
      BY <1>p, <1>m, <2>2, <3>2, EpMoves DEF r
    <3> QED BY <3>1, <3>2
  <2>3. CASE ReturnScript(e) \/ ReturnFailed(e) \/ ReturnClose(e)
    <3>1. ep'[e] \in {r, Closing(r)} /\ UNCHANGED wire
      BY <1>p, <2>3 DEF ReturnScript, ReturnFailed, ReturnClose, Close, netVars, r
    <3> QED BY <1>n, <3>1 DEF r
  <2> QED BY <1>4, <2>1, <2>2, <2>3 DEF Returns
<1> QED BY <1>1, <1>2, <1>3, <1>4 DEF Loop

\* An end that is not connected yet: its script runs, and the frames it left return.
LEMMA Unconnected ==
  ASSUME Typed, NEW e \in End, Posted(e), Fresh(e), ep[e].socket # "endpoint",
         Only(queue[e], {"start", "stop"}), wrapper[e] # "forgotten", Script(e) \/ Loop(e)
  PROVE  /\ queue'[e] = queue[e] /\ said' = said /\ heard' = heard
         /\ wire' = wire \/ (Top(e, "closed") /\ ep'[e].socket = "none")
         /\ Callable(e) \/ stack[e] # <<>>
<1>0. /\ ep \in [End -> EndpointRecord] /\ queue \in [End -> Seq(Item)] /\ stack[e] \in Seq(Place)
      /\ backlog[e] = <<>> /\ ~Has(stack[e], "closing")
  BY DEF Typed, EndType, LineType, Posted, Fresh
<1>1. \A K : Called(e, K) => "start" \in K \/ "stop" \in K
  <2>1. queue[e] # <<>> => Head(queue[e]).kind \in {"start", "stop"}
    BY <1>0, OnlyTail
  <2> QED BY <2>1 DEF Called
<1>2. \A K : ~Reads(e, K)
  BY <1>0 DEF Reads
<1>3. ~Top(e, "closing")
  <2>1. stack[e] # <<>> => Has(stack[e], Last(stack[e]))
    <3>1. ASSUME stack[e] # <<>>
          PROVE  Len(stack[e]) \in Nat \ {0} /\ Last(stack[e]) = stack[e][Len(stack[e])]
      BY <1>0, <3>1, FrontLast
    <3> QED BY <3>1 DEF Has
  <2> QED BY <1>0, <2>1 DEF Top, Idle
<1>4. ~Calls(e)
  BY <1>0, <1>1 DEF Calls, OpenDeferred, EndpointDispose, SendDisposed, SendBytes, SendBytesFails,
     SendBytesError, KprSocketWriterDataWriter, DataWriterFails, DataWriterError, HandleError, Sent
<1>5. ASSUME Script(e)
      PROVE  queue'[e] = queue[e] /\ wire' = wire /\ said' = said /\ heard' = heard /\ Callable(e)
  <2>1. ~Takes(e) /\ ~KPR_websocketclient(e) /\ said \in [End -> Nat]
    BY <1>0 DEF Takes, KPR_websocketclient, Typed, LogType
  <2>2. CASE KPR_websocketclient_send(e)
    <3>1. said' = [said EXCEPT ![e] = said[e]]
      BY <2>1, <2>2 DEF KPR_websocketclient_send
    <3>2. said' = said
      BY <2>1, <3>1
    <3> QED BY <2>1, <2>2, <3>2 DEF KPR_websocketclient_send, SendRawFrame, Scripted, netVars
  <2>3. CASE KPR_websocketclient_close(e)
    BY <2>3 DEF KPR_websocketclient_close, Scripted, logVars, netVars
  <2> QED BY <1>5, <2>1, <2>2, <2>3 DEF Script
<1>6. ASSUME Passes(e)
      PROVE  queue'[e] = queue[e] /\ wire' = wire /\ said' = said /\ heard' = heard /\ stack[e] # <<>>
  BY <1>2, <1>6 DEF Passes, EndPass, HandleResponse, HandleRefusal, HandleTextMessage, HandlePing,
     HandlePong, HandleCloseFrame, AnswerCloseFrame, ReadClosed, ReadFails, HandleError, logVars,
     netVars, Top, Idle
<1>7. ASSUME Returns(e)
      PROVE  /\ queue'[e] = queue[e] /\ said' = said /\ heard' = heard /\ stack[e] # <<>>
             /\ wire' = wire \/ ReturnClosed(e)
  BY <1>3, <1>7 DEF Returns, ReturnScript, ReturnClosed, ReturnFailed, ReturnClosing, ReturnClose,
     logVars, netVars, Top, Idle
<1>8. ReturnClosed(e) => Top(e, "closed") /\ ep'[e].socket = "none"
  BY <1>0, ClosedFacts DEF ReturnClosed, Disconnect, SetEp
<1> QED BY <1>4, <1>5, <1>6, <1>7, <1>8 DEF Loop

\* Before there is a connection only the script of the client runs.
LEMMA BeforeDial ==
  ASSUME Typed, NEW e \in End, Posted(e), Dialling, dial # "done", Fresh(e), Script(e) \/ Loop(e)
  PROVE  e = "client" /\ queue'[e] = queue[e] /\ wire' = wire /\ said' = said /\ heard' = heard
<1>0. /\ ep[e].socket = "none" /\ wrapper[e] # "forgotten" /\ ~Has(stack[e], "closed")
      /\ e = "server" => wrapper[e] = "none" /\ stack[e] = <<>>
  <2>1. "client" \in End /\ "server" \in End
    BY Ends2
  <2>2. Endpoint0.socket = "none" /\ ~Has(<<>>, "closed")
    BY DEF Endpoint0, Has
  <2> QED BY <2>1, <2>2, Ends2 DEF Dialling, Left
<1>1. Only(queue[e], {"start", "stop"})
  <2>1. Only(<<Frame("start")>>, {"start", "stop"}) /\ Only(<<>>, {"start", "stop"})
    BY DEF Only, Frame
  <2>2. CASE e = "server"
    BY <2>2 DEF Dialling, Only
  <2>3. CASE e = "client"
    BY <2>1, <2>3 DEF Dialling
  <2> QED BY <2>2, <2>3, Ends2
<1>2. ~Top(e, "closed")
  <2>1. stack[e] \in Seq(Place)
    BY DEF Typed, LineType
  <2>2. stack[e] # <<>> => Has(stack[e], Last(stack[e]))
    <3>1. ASSUME stack[e] # <<>>
          PROVE  Len(stack[e]) \in Nat \ {0} /\ Last(stack[e]) = stack[e][Len(stack[e])]
      BY <2>1, <3>1, FrontLast
    <3> QED BY <3>1 DEF Has
  <2> QED BY <1>0, <2>2 DEF Top, Idle
<1> QED BY <1>0, <1>1, <1>2, Unconnected, Ends2 DEF Callable

LEMMA DiallingStep ==
  ASSUME Typed, NEW e \in End, Shape(e), Handshake(e), Posted(e), Disposal(e), Dialling,
         Script(e) \/ Loop(e)
  PROVE  Dialling'
<1>0. dial' = dial /\ (listed' => listed)
  <2>1. PICK d \in End : d # e
    BY DEF End
  <2> QED BY <2>1, Elsewhere
<1>1. CASE dial = "done"
  BY <1>0, <1>1 DEF Dialling
<1>2. CASE dial # "done"
  <2>0. "client" \in End /\ "server" \in End /\ "client" # "server"
    BY Ends2
  <2>1. Fresh(e)
    <3>1. Endpoint0.closeWasSent = FALSE /\ Endpoint0.closeWasReceived = FALSE
          /\ Endpoint0.state = "connecting" /\ ~Has(<<>>, "closing")
      BY DEF Endpoint0, Has
    <3> QED BY <1>2, <3>1, Ends2 DEF Dialling, Fresh
  <2>2. e = "client" /\ queue'[e] = queue[e] /\ wire' = wire /\ said' = said /\ heard' = heard
    BY <1>2, <2>1, BeforeDial
  <2>3. /\ ep[e].socket = "none" /\ ~Has(stack[e], "closed") /\ ~Has(stack[e], "closing")
        /\ ~Left("client") /\ ~Left("server")
        /\ ep["server"] = Endpoint0 /\ wrapper["server"] = "none" /\ stack["server"] = <<>> /\ ~listed
        /\ Only(queue["server"], {"stop"})
        /\ queue["client"] = IF dial = "idle" THEN <<Frame("start")>> ELSE <<>>
        /\ \A d \in End : wire[d] = <<>> /\ said[d] = 0 /\ heard[d] = <<>>
    BY <1>2, <2>0, <2>2 DEF Dialling, Fresh
  <2>4. Continues(e)
    BY <2>3, StackMoves DEF Parts
  <2>5. /\ ep'[e].socket = "none" /\ ~Has(stack'[e], "closed") /\ ~Left(e)'
    BY <2>2, <2>3, <2>4 DEF Continues, Left
  <2>6. Fresh(e)'
    <3>1. ~Reads(e, {"response", "close"})
      BY <2>3 DEF Reads
    <3> QED BY <2>1, <3>1, FreshStep
  <2>7. /\ ep'["server"] = Endpoint0 /\ wrapper'["server"] = "none" /\ stack'["server"] = <<>>
        /\ ~listed' /\ queue'["server"] = queue["server"] /\ closes'["server"] = closes["server"]
    BY <1>0, <2>0, <2>2, <2>3, Elsewhere
  <2>8. ~Left("server")'
    BY <2>3, <2>7 DEF Left
  <2>9. \A d \in End : ~Left(d)'
    BY <2>2, <2>5, <2>8, Ends2
  <2>10. \A d \in End : wire'[d] = <<>> /\ said'[d] = 0 /\ heard'[d] = <<>>
    BY <2>2, <2>3
  <2>11. /\ Only(queue'["server"], {"stop"})
         /\ queue'["client"] = IF dial' = "idle" THEN <<Frame("start")>> ELSE <<>>
    BY <1>0, <2>2, <2>3, <2>7
  <2> QED BY <2>2, <2>5, <2>6, <2>7, <2>9, <2>10, <2>11 DEF Dialling
<1> QED BY <1>1, <1>2

\* Only the reader gives the script a message.
LEMMA HeardMoves ==
  ASSUME Typed, NEW e \in End, Script(e) \/ Loop(e)
  PROVE  \/ heard'[e] = heard[e]
         \/ /\ HandleTextMessage(e) /\ Callable(e) /\ heard'[e] = Append(heard[e], Head(wire[e]).n)
<1>0. heard \in [End -> Seq(Nat)]
  BY DEF Typed, LogType
<1>1. CASE HandleTextMessage(e)
  BY <1>0, <1>1 DEF HandleTextMessage
<1>2. CASE ~HandleTextMessage(e)
  BY <1>2 DEF Script, KPR_websocketclient_send, KPR_websocketclient_close, KPR_websocketclient,
     Loop, Calls, OpenDeferred, EndpointDispose, SendDisposed, SendBytes, SendBytesFails,
     SendBytesError, KprSocketWriterDataWriter, DataWriterFails, DataWriterError, HandleError,
     Passes, EndPass, HandleResponse, HandleRefusal, HandlePing, HandlePong, HandleCloseFrame,
     AnswerCloseFrame, ReadClosed, ReadFails, HandleError, Returns, ReturnScript, ReturnClosed,
     ReturnFailed, ReturnClosing, ReturnClose, logVars
<1> QED BY <1>1, <1>2

LEMMA AcceptingStep ==
  ASSUME Typed, NEW e \in End, Shape(e), Handshake(e), Posted(e), Disposal(e), Gone(e), Accepting,
         Script(e) \/ Loop(e)
  PROVE  Accepting'
<1>0. /\ "client" \in End /\ "server" \in End /\ "client" # "server"
      /\ Peer("client") = "server" /\ Peer("server") = "client"
      /\ e = "client" \/ e = "server"
  BY Ends2
<1>1. dial' = dial /\ (listed' => listed)
  <2>1. PICK d \in End : d # e
    BY DEF End
  <2> QED BY <2>1, Elsewhere
<1>2. /\ \/ wrapper'[e] = wrapper[e]
         \/ wrapper'[e] \in {"forgotten", "collected"} /\ Left(e)
      /\ ep'[e].socket \in {ep[e].socket, "none"}
  BY StackMoves DEF Parts, Continues, Left
<1>w. wire \in [End -> Seq(Item)] /\ heard \in [End -> Seq(Nat)]
  BY DEF Typed, LineType, LogType
<1>3. ASSUME ep'["server"].socket = "request"
      PROVE  /\ Fresh("server")' /\ dial' = "done" /\ ~listed'
             /\ wrapper'["server"] \in {"none", "remembered"}
             /\ Only(queue'["server"], {"stop"})
             /\ said'["server"] = 0 /\ heard'["client"] = <<>>
             /\ ~HasKind(wire'["client"], {"text", "close"})
  <2>1. ep["server"].socket = "request"
    BY <1>0, <1>2, <1>3, Elsewhere
  <2>2. /\ Fresh("server") /\ dial = "done" /\ ~listed
        /\ wrapper["server"] \in {"none", "remembered"}
        /\ Only(queue["server"], {"stop"}) /\ said["server"] = 0 /\ heard["client"] = <<>>
        /\ ~HasKind(wire["client"], {"text", "close"})
    BY <2>1 DEF Accepting
  <2>3. CASE e = "server"
    <3>1. ~Left("server")
      BY <2>1, <2>3 DEF Gone
    <3>2. wrapper'["server"] \in {"none", "remembered"}
      BY <1>2, <2>2, <2>3, <3>1
    <3>3. Only(queue[e], {"start", "stop"}) /\ wrapper[e] # "forgotten"
      BY <2>2, <2>3 DEF Only
    <3>4. queue'[e] = queue[e] /\ said' = said /\ heard' = heard /\ wire' = wire
      BY <1>3, <2>1, <2>2, <2>3, <3>3, Unconnected
    <3>5. Fresh("server")'
      BY <2>1, <2>2, <2>3, FreshStep DEF Reads
    <3> QED BY <1>1, <2>2, <2>3, <3>2, <3>4, <3>5
  <2>4. CASE e = "client"
    <3>1. /\ ep'["server"] = ep["server"] /\ stack'["server"] = stack["server"]
          /\ wrapper'["server"] = wrapper["server"] /\ queue'["server"] = queue["server"]
          /\ said'["server"] = said["server"]
      BY <1>0, <2>4, Elsewhere
    <3>2. Fresh("server")'
      BY <2>2, <3>1 DEF Fresh
    <3>3. heard'["client"] = <<>>
      <4>1. HandleTextMessage(e) => HasKind(wire["client"], {"text", "close"})
        BY <1>0, <1>w, <2>4, HasTail DEF HandleTextMessage, Reads
      <4> QED BY <2>2, <2>4, <4>1, HeardMoves
    <3>4. ~HasKind(wire'["client"], {"text", "close"})
      <4>1. \/ wire'["client"] = <<>> \/ wire'["client"] = wire["client"]
            \/ wire["client"] # <<>> /\ wire'["client"] = Tail(wire["client"])
        BY <2>4, WireMoves DEF Cuts
      <4>2. ~HasKind(<<>>, {"text", "close"})
        BY DEF HasKind
      <4>3. wire["client"] # <<>> => ~HasKind(Tail(wire["client"]), {"text", "close"})
        BY <1>0, <1>w, <2>2, HasTail
      <4> QED BY <2>2, <4>1, <4>2, <4>3
    <3> QED BY <1>1, <2>2, <3>1, <3>2, <3>3, <3>4
  <2> QED BY <1>0, <2>3, <2>4
<1>4. ASSUME NEW d \in End, Has(stack'[d], "connect")
      PROVE  d = "server" /\ ep'[d].socket = "request" /\ wrapper'[d] = "remembered"
  <2>1. CASE d # e
    <3>1. ep'[d] = ep[d] /\ stack'[d] = stack[d] /\ wrapper'[d] = wrapper[d]
      BY <2>1, Elsewhere
    <3> QED BY <1>4, <3>1 DEF Accepting
  <2>2. CASE d = e
    <3>1. Continues(e)
      <4>1. ~Parts(e)
        BY <1>4, <2>2 DEF Parts, Has, Pass
      <4> QED BY <4>1, StackMoves
    <3>2. Has(stack[e], "connect")
      BY <1>4, <2>2, <3>1 DEF Continues
    <3>3. e = "server" /\ ep[e].socket = "request" /\ wrapper[e] = "remembered"
      BY <3>2 DEF Accepting
    <3>4. ~Left(e)
      BY <3>3 DEF Gone
    <3> QED BY <1>2, <2>2, <3>1, <3>3, <3>4 DEF Continues
  <2> QED BY <2>1, <2>2
<1>5. wrapper'["client"] # "none" /\ (ep'["server"].socket = "endpoint" => wrapper'["server"] # "none")
  <2>1. wrapper'["client"] # "none"
    <3>1. CASE e = "client"
      BY <1>2, <3>1 DEF Accepting
    <3>2. CASE e = "server"
      BY <1>0, <3>2, Elsewhere DEF Accepting
    <3> QED BY <1>0, <3>1, <3>2
  <2>2. ASSUME ep'["server"].socket = "endpoint" PROVE wrapper'["server"] # "none"
    <3>1. CASE e = "server"
      BY <1>2, <2>2, <3>1 DEF Accepting
    <3>2. CASE e = "client"
      BY <1>0, <2>2, <3>2, Elsewhere DEF Accepting
    <3> QED BY <1>0, <3>1, <3>2
  <2> QED BY <2>1, <2>2
<1> QED BY <1>3, <1>4, <1>5 DEF Accepting

LEMMA ConcatFacts ==
  ASSUME NEW s \in Seq(Item), NEW t \in Seq(Item)
  PROVE  /\ s \o t \in Seq(Item) /\ Len(s \o t) = Len(s) + Len(t)
         /\ \A i \in 1 .. Len(s) : (s \o t)[i] = s[i]
         /\ \A i \in Len(s) + 1 .. Len(s) + Len(t) : (s \o t)[i] = t[i - Len(s)]
         /\ \A i \in 1 .. Len(t) : (s \o t)[Len(s) + i] = t[i]
<1>1. /\ s \o t \in Seq(Item) /\ Len(s \o t) = Len(s) + Len(t)
      /\ \A i \in 1 .. Len(s) + Len(t) : (s \o t)[i] = IF i <= Len(s) THEN s[i] ELSE t[i - Len(s)]
  BY ConcatProperties
<1>2. Len(s) \in Nat /\ Len(t) \in Nat
  OBVIOUS
<1> QED BY <1>1, <1>2

\* What is new on the wire of the peer is a frame that was posted or pending,
\* or the end of the stream.
LEMMA Spread ==
  ASSUME Typed, NEW e \in End, Posted(e), Script(e) \/ Loop(e)
  PROVE  /\ \A i \in 1 .. Len(wire'[Peer(e)]) :
              \/ i \in 1 .. Len(wire[Peer(e)]) /\ wire'[Peer(e)][i] = wire[Peer(e)][i]
              \/ wire'[Peer(e)][i].kind = "fin"
              \/ /\ wire'[Peer(e)][i].kind \in Sent /\ ep[e].socket = "endpoint"
                 /\ HasKind(queue[e], {wire'[Peer(e)][i].kind}) \/ HasKind(backlog[e], {wire'[Peer(e)][i].kind})
         /\ \/ wire'[e] = <<>>
            \/ wire'[e] = wire[e] /\ ep'[e].socket = ep[e].socket
            \/ wire'[e] = Tail(wire[e]) /\ wire[e] # <<>> /\ ep[e].socket = "endpoint"
<1> DEFINE p == Peer(e)
           w == wire[p]
           v == wire'[p]
           Good(i) == \/ i \in 1 .. Len(w) /\ v[i] = w[i]
                      \/ v[i].kind = "fin"
                      \/ /\ v[i].kind \in Sent /\ ep[e].socket = "endpoint"
                         /\ HasKind(queue[e], {v[i].kind}) \/ HasKind(backlog[e], {v[i].kind})
<1>0. /\ wire[e] \in Seq(Item) /\ w \in Seq(Item) /\ queue[e] \in Seq(Item)
      /\ backlog[e] \in Seq(Item) /\ Only(backlog[e], Sent)
      /\ backlog[e] # <<>> => ep[e].socket = "endpoint"
  BY Ends2 DEF Typed, LineType, Posted
<1>1. \/ wire'[e] = <<>>
      \/ wire'[e] = wire[e] /\ ep'[e].socket = ep[e].socket
      \/ wire'[e] = Tail(wire[e]) /\ wire[e] # <<>> /\ ep[e].socket = "endpoint"
  BY WireMoves DEF Cuts
<1>2. \A i \in 1 .. Len(v) : Good(i)
  <2>1. CASE v = w
    BY <2>1
  <2>2. ASSUME NEW k \in 0 .. Len(w), v = Append(SubSeq(w, 1, k), Frame("fin"))
        PROVE  \A i \in 1 .. Len(v) : Good(i)
    <3>1. SubSeq(w, 1, k) \in Seq(Item) /\ Len(SubSeq(w, 1, k)) = k
          /\ \A i \in 1 .. k : SubSeq(w, 1, k)[i] = w[i]
      BY <1>0, PrefixFacts
    <3>2. Frame("fin") \in Item /\ Frame("fin").kind = "fin"
      BY Items DEF Kind
    <3>3. /\ Len(v) = k + 1 /\ v[k + 1] = Frame("fin")
          /\ \A i \in 1 .. k : v[i] = w[i]
      BY <2>2, <3>1, <3>2
    <3> QED BY <1>0, <3>2, <3>3
  <2>3. ASSUME NEW s \in Seq(Item), Only(s, Sent), ep[e].socket = "endpoint", Delivers(e, s),
               \A i \in 1 .. Len(s) : HasKind(queue[e], {s[i].kind}) \/ HasKind(backlog[e], {s[i].kind})
        PROVE  \A i \in 1 .. Len(v) : Good(i)
    <3>1. CASE v = w \o s
      <4>1. /\ Len(v) = Len(w) + Len(s) /\ \A i \in 1 .. Len(w) : v[i] = w[i]
            /\ \A i \in Len(w) + 1 .. Len(w) + Len(s) : v[i] = s[i - Len(w)]
        BY <1>0, <2>3, <3>1, ConcatFacts
      <4>2. \A i \in Len(w) + 1 .. Len(w) + Len(s) : i - Len(w) \in 1 .. Len(s)
        BY <1>0, <2>3
      <4>3. \A i \in Len(w) + 1 .. Len(w) + Len(s) :
              /\ v[i].kind \in Sent
              /\ HasKind(queue[e], {v[i].kind}) \/ HasKind(backlog[e], {v[i].kind})
        BY <2>3, <4>1, <4>2 DEF Only
      <4>4. \A i \in 1 .. Len(v) : i \in 1 .. Len(w) \/ i \in Len(w) + 1 .. Len(w) + Len(s)
        BY <1>0, <2>3, <4>1
      <4> QED BY <2>3, <4>1, <4>3, <4>4
    <3> QED BY <2>1, <2>3, <3>1 DEF Delivers
  <2>4. ASSUME Called(e, Sent), ep[e].socket = "endpoint", Delivers(e, <<Head(queue[e])>>)
        PROVE  \A i \in 1 .. Len(v) : Good(i)
    <3>1. queue[e] # <<>> /\ Head(queue[e]) \in Item /\ Head(queue[e]).kind \in Sent
      BY <1>0, <2>4 DEF Called
    <3>2. HasKind(queue[e], {Head(queue[e]).kind})
      BY <1>0, <3>1, HasTail
    <3>3. <<Head(queue[e])>> \in Seq(Item) /\ Only(<<Head(queue[e])>>, Sent)
          /\ \A i \in 1 .. Len(<<Head(queue[e])>>) : <<Head(queue[e])>>[i] = Head(queue[e])
      BY <3>1 DEF Only
    <3> QED BY <2>3, <2>4, <3>2, <3>3
  <2>5. ASSUME backlog[e] # <<>>, NEW k \in 1 .. Len(backlog[e]), Delivers(e, SubSeq(backlog[e], 1, k))
        PROVE  \A i \in 1 .. Len(v) : Good(i)
    <3> DEFINE s == SubSeq(backlog[e], 1, k)
    <3>1. s \in Seq(Item) /\ Len(s) = k /\ \A x \in 1 .. k : s[x] = backlog[e][x]
      BY <1>0, PrefixFacts
    <3>2. \A x \in 1 .. k : x \in 1 .. Len(backlog[e])
      BY <1>0
    <3>3. Only(s, Sent) /\ \A i \in 1 .. Len(s) : HasKind(backlog[e], {s[i].kind})
      BY <1>0, <3>1, <3>2 DEF Only, HasKind
    <3>4. ep[e].socket = "endpoint" /\ Delivers(e, s)
      BY <1>0, <2>5
    <3> HIDE DEF s
    <3> QED BY <2>3, <3>1, <3>3, <3>4
  <2>6. \/ v = w \/ \E k \in 0 .. Len(w) : v = Append(SubSeq(w, 1, k), Frame("fin"))
        \/ Called(e, Sent) /\ ep[e].socket = "endpoint" /\ Delivers(e, <<Head(queue[e])>>)
        \/ backlog[e] # <<>> /\ \E k \in 1 .. Len(backlog[e]) : Delivers(e, SubSeq(backlog[e], 1, k))
    BY WireMoves DEF Cuts
  <2> HIDE DEF Good, v, w
  <2> QED BY <2>1, <2>2, <2>4, <2>5, <2>6
<1> QED BY <1>1, <1>2

LEMMA EndedTail ==
  ASSUME NEW w \in Seq(Item), w # <<>>, Ended(w)
  PROVE  Tail(w) = <<>> \/ Ended(Tail(w))
<1>1. ASSUME Tail(w) # <<>> PROVE Ended(Tail(w))
  <2>1. /\ Tail(w) \in Seq(Item) /\ Len(Tail(w)) = Len(w) - 1 /\ Len(w) \in Nat
        /\ \A i \in 1 .. Len(w) - 1 : Tail(w)[i] = w[i + 1]
    BY TailFacts
  <2>2. Len(Tail(w)) \in Nat \ {0}
    BY <1>1, <2>1
  <2>3. Last(Tail(w)) = Last(w)
    BY <2>1, <2>2 DEF Last
  <2> QED BY <1>1, <2>3 DEF Ended
<1> QED BY <1>1

LEMMA ResponseStep ==
  ASSUME Typed, NEW e \in End, Shape(e), Handshake(e), Posted(e), Disposal(e), Response,
         Script(e) \/ Loop(e)
  PROVE  Response'
<1>0. /\ "client" \in End /\ "server" \in End /\ "client" # "server"
      /\ Peer("client") = "server" /\ Peer("server") = "client"
      /\ e = "client" \/ e = "server"
  BY Ends2
<1>t. /\ \A d \in End : wire[d] \in Seq(Item) /\ queue[d] \in Seq(Item) /\ backlog[d] \in Seq(Item)
  BY DEF Typed, LineType
<1>k. Sent = {"text", "ping", "pong", "close"}
  BY DEF Sent
<1>o. \A d \in End : wire[d] # <<>> =>
        \A i \in 1 .. Len(Tail(wire[d])) : i + 1 \in 1 .. Len(wire[d]) /\ i + 1 # 1 /\ Tail(wire[d])[i] = wire[d][i + 1]
  BY <1>t, TailFacts
<1>1. CASE e = "client"
  <2>0. \A i \in 1 .. Len(wire'["server"]) :
          \/ i \in 1 .. Len(wire["server"]) /\ wire'["server"][i] = wire["server"][i]
          \/ wire'["server"][i].kind \in {"fin", "text", "pong", "close"}
    <3>1. \A x : HasKind(queue[e], {x}) \/ HasKind(backlog[e], {x}) => x # "ping"
      BY <1>1 DEF Response
    <3> QED BY <1>0, <1>1, <1>k, <3>1, Spread
  <2>1. ~HasKind(wire'["server"], {"response", "ping"})
    BY <2>0 DEF Response, HasKind
  <2>2. ~HasKind(queue'["client"], {"ping"})
    <3>1. \A x \in {"close", "open", "dispose"} : Frame(x) \in Item /\ Frame(x).kind = x
      BY Items DEF Kind, Sent
    <3>2. \/ queue'[e] = queue[e]
          \/ \E f \in Item : f.kind # "ping" /\ queue'[e] = Append(queue[e], f)
          \/ queue[e] # <<>> /\ queue'[e] = Tail(queue[e])
      BY <3>1, QueueMoves DEF Stays, Sends, Announces, Opens, Destroys, Posts, TakesOff, Called,
         EndpointDispose, SendDisposed
    <3>3. ~HasKind(queue[e], {"ping"})
      BY <1>1 DEF Response
    <3>4. queue[e] # <<>> => ~HasKind(Tail(queue[e]), {"ping"})
      BY <1>t, <3>3, HasTail
    <3>5. \A f \in Item : f.kind # "ping" => ~HasKind(Append(queue[e], f), {"ping"})
      BY <1>t, <3>3, HasAppend
    <3> QED BY <1>1, <3>2, <3>3, <3>4, <3>5
  <2>3. ~HasKind(backlog'["client"], {"ping"})
    <3>1. ~HasKind(queue[e], {"ping"}) /\ ~HasKind(backlog[e], {"ping"})
      BY <1>1 DEF Response
    <3>2. CASE backlog'[e] = <<>>
      BY <1>1, <3>2 DEF HasKind
    <3>3. CASE backlog'[e] = backlog[e]
      BY <1>1, <3>1, <3>3
    <3>4. CASE Called(e, Sent) /\ backlog'[e] = Append(backlog[e], Head(queue[e]))
      <4>1. queue[e] # <<>> /\ Head(queue[e]) \in Item
        BY <1>t, <3>4 DEF Called
      <4>2. Head(queue[e]).kind # "ping"
        BY <1>t, <3>1, <4>1, HasTail
      <4> QED BY <1>1, <1>t, <3>1, <3>4, <4>1, <4>2, HasAppend
    <3>5. ASSUME NEW k \in 0 .. Len(backlog[e]),
                 backlog'[e] = SubSeq(backlog[e], k + 1, Len(backlog[e]))
          PROVE  ~HasKind(backlog'["client"], {"ping"})
      <4>1. /\ Len(backlog'[e]) = Len(backlog[e]) - k
            /\ \A x \in 1 .. Len(backlog[e]) - k : backlog'[e][x] = backlog[e][k + x]
        BY <1>t, <3>5, SuffixFacts
      <4>2. \A x \in 1 .. Len(backlog[e]) - k : k + x \in 1 .. Len(backlog[e])
        BY <1>t
      <4> QED BY <1>1, <3>1, <4>1, <4>2 DEF HasKind
    <3> QED BY <3>2, <3>3, <3>4, <3>5, BacklogMoves
  <2>4. ASSUME NEW i \in 1 .. Len(wire'["server"]), wire'["server"][i].kind = "request"
        PROVE  /\ i = 1 /\ ep'["server"].socket = "request"
               /\ Fresh("client")' /\ Only(wire'["client"], {"fin", "fail"})
               /\ wire'["client"] = <<>> \/ Ended(wire'["client"])
    <3>1. /\ i = 1 /\ ep["server"].socket = "request"
          /\ Fresh("client") /\ Only(wire["client"], {"fin", "fail"})
          /\ wire["client"] = <<>> \/ Ended(wire["client"])
      BY <2>0, <2>4 DEF Response
    <3>2. ep'["server"] = ep["server"]
      BY <1>0, <1>1, Elsewhere
    <3>3. wire[e] # <<>> => Head(wire[e]).kind \in {"fin", "fail"} /\ Only(Tail(wire[e]), {"fin", "fail"})
      BY <1>1, <1>t, <3>1, OnlyTail
    <3>4. Fresh("client")'
      BY <1>1, <3>1, <3>3, FreshStep DEF Reads
    <3>5. Only(<<>>, {"fin", "fail"})
      BY DEF Only
    <3>6. Only(wire'["client"], {"fin", "fail"})
      BY <1>1, <3>1, <3>3, <3>5, Spread
    <3>7. wire'["client"] = <<>> \/ Ended(wire'["client"])
      BY <1>1, <1>t, <3>1, Spread, EndedTail
    <3> QED BY <3>1, <3>2, <3>4, <3>6, <3>7
  <2>5. ASSUME NEW i \in 1 .. Len(wire'["client"]), wire'["client"][i].kind = "response"
        PROVE  i = 1 /\ Fresh("client")' /\ ~HasKind(wire'["server"], {"request"})
    <3>1. wire'[e] = wire[e]
      <4>1. CASE wire'[e] = <<>>
        BY <1>1, <2>5, <4>1
      <4>2. CASE wire'[e] = Tail(wire[e]) /\ wire[e] # <<>>
        <5>1. i + 1 \in 1 .. Len(wire["client"]) /\ i + 1 # 1 /\ wire["client"][i + 1].kind = "response"
          BY <1>0, <1>1, <1>o, <2>5, <4>2
        <5> QED BY <5>1 DEF Response
      <4> QED BY <4>1, <4>2, Spread
    <3>2. i = 1 /\ Fresh("client") /\ ~HasKind(wire["server"], {"request"})
      BY <1>1, <2>5, <3>1 DEF Response
    <3>3. Fresh("client")'
      <4>1. wire[e] # <<>> => Len(Tail(wire[e])) # Len(wire[e])
        BY <1>t, TailFacts
      <4> QED BY <1>1, <3>1, <3>2, <4>1, FreshStep DEF Reads
    <3>4. ~HasKind(wire'["server"], {"request"})
      BY <2>0, <3>2 DEF HasKind
    <3> QED BY <3>2, <3>3, <3>4
  <2>6. Has(stack'["server"], "connect") => ~HasKind(wire'["server"], {"request"})
    <3>1. stack'["server"] = stack["server"]
      BY <1>0, <1>1, Elsewhere
    <3> QED BY <2>0, <3>1 DEF Response, HasKind
  <2> QED BY <2>1, <2>2, <2>3, <2>4, <2>5, <2>6 DEF Response
<1>2. CASE e = "server"
  <2>0. /\ ep'["client"] = ep["client"] /\ stack'["client"] = stack["client"]
        /\ queue'["client"] = queue["client"] /\ backlog'["client"] = backlog["client"]
    BY <1>0, <1>2, Elsewhere
  <2>1. Fresh("client")' <=> Fresh("client")
    BY <2>0 DEF Fresh
  <2>2. \A i \in 1 .. Len(wire'["client"]) :
          \/ i \in 1 .. Len(wire["client"]) /\ wire'["client"][i] = wire["client"][i]
          \/ wire'["client"][i].kind \in {"fin", "text", "ping", "pong", "close"}
    BY <1>0, <1>2, <1>k, Spread
  <2>3. \/ wire'[e] = <<>> \/ wire'[e] = wire[e]
        \/ wire[e] # <<>> /\ wire'[e] = Tail(wire[e])
    BY Spread
  <2>4. \A K : HasKind(wire'["server"], K) => HasKind(wire["server"], K)
    <3>1. ASSUME NEW K PROVE HasKind(wire'["server"], K) => HasKind(wire["server"], K)
      <4>1. CASE wire'[e] = <<>>
        BY <1>2, <4>1 DEF HasKind
      <4>2. CASE wire'[e] = wire[e]
        BY <1>2, <4>2
      <4>3. CASE wire[e] # <<>> /\ wire'[e] = Tail(wire[e])
        BY <1>2, <1>t, <4>3, HasTail
      <4> QED BY <2>3, <4>1, <4>2, <4>3
    <3> QED BY <3>1
  <2>5. ASSUME NEW i \in 1 .. Len(wire'["server"]), wire'["server"][i].kind = "request"
        PROVE  /\ i = 1 /\ ep'["server"].socket = "request"
               /\ Fresh("client")' /\ Only(wire'["client"], {"fin", "fail"})
               /\ wire'["client"] = <<>> \/ Ended(wire'["client"])
    <3>1. wire'[e] # <<>>
      BY <1>2, <2>5
    <3>2. HasKind(wire["server"], {"request"})
      <4>1. HasKind(wire'["server"], {"request"})
        BY <2>5 DEF HasKind
      <4> QED BY <2>4, <4>1
    <3>3. ep["server"].socket = "request"
      BY <3>2 DEF Response, HasKind
    <3>4. UNCHANGED wire /\ ep'["server"].socket = "request"
      BY <1>2, <3>1, <3>3, WireMoves DEF Cuts, Posted
    <3> QED BY <2>1, <2>5, <3>4 DEF Response
  <2>6. ASSUME NEW i \in 1 .. Len(wire'["client"]), wire'["client"][i].kind = "response"
        PROVE  i = 1 /\ Fresh("client")' /\ ~HasKind(wire'["server"], {"request"})
    <3>1. i \in 1 .. Len(wire["client"]) /\ wire["client"][i].kind = "response"
      BY <2>2, <2>6
    <3> QED BY <2>1, <2>4, <3>1 DEF Response
  <2>7. Has(stack'["server"], "connect") => Has(stack["server"], "connect")
    <3>1. Parts(e) => ~Has(stack'[e], "connect")
      BY DEF Parts, Has, Pass
    <3> QED BY <1>2, <3>1, StackMoves DEF Continues
  <2> QED BY <2>0, <2>4, <2>5, <2>6, <2>7 DEF Response
<1> QED BY <1>0, <1>1, <1>2

-----------------------------------------------------------------------------
(* The steps of the connection and of the server. *)

EndInv(e) == Shape(e) /\ Handshake(e) /\ Counted(e) /\ Posted(e) /\ Disposal(e) /\ Gone(e)
Inv == Typed /\ (\A e \in End : EndInv(e)) /\ Dialling /\ Accepting /\ Response

\* An end whose queue stays as it is and whose handshake goes no further.
LEMMA EndKept ==
  ASSUME Typed, NEW d \in End, EndInv(d), Kin(ep[d], ep'[d]),
         ep'[d].pendingSendCount = ep[d].pendingSendCount,
         ep'[d].disposeRequested = ep[d].disposeRequested,
         queue'[d] = queue[d], backlog'[d] = backlog[d], freed'[d] = freed[d],
         wrapper[d] = "collected" => wrapper'[d] = "collected",
         backlog[d] = <<>> \/ ep'[d].socket = ep[d].socket,
         \/ stack'[d] = stack[d]
         \/ stack'[d] \in Seq(Place) /\ WellShaped(stack'[d]) /\ ~Has(stack'[d], "closing"),
         HasKind(queue[d], {"start"}) => dial' = dial,
         ~freed[d] \/ (stack'[d] = stack[d] /\ ep'[d].socket = "none"),
         Gone(d)'
  PROVE  EndInv(d)'
<1>0. stack[d] \in Seq(Place) /\ ep[d] \in EndpointRecord
  BY DEF Typed, EndType, LineType
<1>1. Shape(d)'
  BY DEF EndInv, Shape
<1>2. Handshake(d)'
  <2>1. Answers(stack[d], ep[d])
    BY DEF EndInv, Handshake
  <2>2. Answers(stack'[d], ep[d])
    BY <1>0, <2>1, AnswersFacts
  <2>3. Answers(stack'[d], ep'[d])
    BY <2>2 DEF Kin, Answers
  <2> QED BY <2>3 DEF Handshake
<1>3. Counted(d)'
  BY DEF EndInv, Counted
<1>4. Posted(d)'
  <2>1. Posted(d)
    BY DEF EndInv
  <2>2. ep'[d].closeWasSent = ep[d].closeWasSent
    BY DEF Kin
  <2>3. HasKind(queue'[d], {"start"}) => d = "client" /\ dial' = "idle"
    BY <2>1 DEF Posted
  <2> QED BY <2>1, <2>2, <2>3 DEF Posted
<1>5. Disposal(d)'
  <2>1. Disposal(d)
    BY DEF EndInv
  <2> QED BY <2>1 DEF Disposal
<1> QED BY <1>1, <1>2, <1>3, <1>4, <1>5 DEF EndInv

LEMMA KinFacts ==
  ASSUME NEW r \in EndpointRecord
  PROVE  /\ Kin(r, r) /\ Kin(r, Closed(r)) /\ Kin(r, More(r))
         /\ Kin(r, Plugged(r)) /\ Kin(r, Offered(r)) /\ Kin(r, Unplugged(r))
<1>1. Kin(r, r) /\ Kin(r, More(r))
  BY MoreFacts DEF Kin
<1>2. Kin(r, Closed(r))
  BY ClosedFacts DEF Kin, Late
<1>3. Kin(r, Plugged(r))
  BY PluggedFacts DEF Kin
<1>4. Kin(r, Offered(r)) /\ Kin(r, Unplugged(r))
  BY OfferedFacts, UnpluggedFacts DEF Kin
<1> QED BY <1>1, <1>2, <1>3, <1>4

\* An end the step does not touch.
LEMMA Aside ==
  ASSUME Typed, NEW d \in End, EndInv(d),
         ep'[d] = ep[d], stack'[d] = stack[d], queue'[d] = queue[d], backlog'[d] = backlog[d],
         freed'[d] = freed[d], wrapper'[d] = wrapper[d], closes'[d] = closes[d],
         HasKind(queue[d], {"start"}) => dial' = dial,
         dial = "done" => dial' = "done",
         d = "server" => (listed' => listed) /\ (dropped => dropped')
  PROVE  EndInv(d)'
<1>1. Kin(ep[d], ep'[d])
  BY DEF Kin
<1>2. Gone(d)'
  <2>1. Left(d)' <=> Left(d)
    BY DEF Left
  <2>2. Gone(d)
    BY DEF EndInv
  <2> QED BY <2>1, <2>2 DEF Gone
<1>3. ~freed[d] \/ ep[d].socket = "none"
  BY DEF EndInv, Disposal
<1> QED BY <1>1, <1>2, <1>3, EndKept

\* A step of one end.
LEMMA EndStep ==
  ASSUME Inv, NEW e \in End, Script(e) \/ Loop(e)
  PROVE  (\A d \in End : EndInv(d)') /\ Dialling' /\ Accepting' /\ Response'
<1>0. /\ Typed /\ EndInv(e) /\ Shape(e) /\ Handshake(e) /\ Counted(e) /\ Posted(e) /\ Disposal(e)
      /\ Gone(e) /\ Dialling /\ Accepting /\ Response
  BY DEF Inv, EndInv
<1>1. EndInv(e)'
  BY <1>0, ShapeStep, HandshakeStep, CountedStep, PostedStep, DisposalStep, GoneStep DEF EndInv
<1>2. ASSUME NEW d \in End, d # e PROVE EndInv(d)'
  <2>1. /\ ep'[d] = ep[d] /\ stack'[d] = stack[d] /\ queue'[d] = queue[d] /\ backlog'[d] = backlog[d]
        /\ freed'[d] = freed[d] /\ wrapper'[d] = wrapper[d] /\ closes'[d] = closes[d]
        /\ dial' = dial /\ dropped' = dropped /\ (listed' => listed)
    BY <1>0, <1>2, Elsewhere
  <2>2. EndInv(d)
    BY DEF Inv
  <2> QED BY <1>0, <2>1, <2>2, Aside
<1>3. Dialling' /\ Accepting' /\ Response'
  BY <1>0, DiallingStep, AcceptingStep, ResponseStep
<1> QED BY <1>1, <1>2, <1>3


\* What the invariant says before there is a connection.
LEMMA Before ==
  ASSUME Inv, dial # "done"
  PROVE  /\ ep["server"] = Endpoint0 /\ wrapper["server"] = "none" /\ stack["server"] = <<>> /\ ~listed
         /\ Fresh("client") /\ ep["client"].socket = "none" /\ ~Has(stack["client"], "closed")
         /\ \A d \in End : ~Left(d) /\ wire[d] = <<>> /\ said[d] = 0 /\ heard[d] = <<>> /\ ~freed[d]
         /\ Only(queue["server"], {"stop"}) /\ ~HasKind(queue["server"], {"start"})
         /\ queue["client"] = IF dial = "idle" THEN <<Frame("start")>> ELSE <<>>
         /\ Endpoint0.socket = "none" /\ Endpoint0.closeWasSent = FALSE
         /\ Endpoint0.closeWasReceived = FALSE /\ Endpoint0.state = "connecting"
<1>1. Dialling /\ \A d \in End : Disposal(d) /\ Posted(d)
  BY DEF Inv, EndInv
<1>2. \A d \in End : ~Left(d) /\ wire[d] = <<>> /\ said[d] = 0 /\ heard[d] = <<>> /\ ~freed[d]
  BY <1>1 DEF Dialling, Disposal, Left
<1>3. ~HasKind(queue["server"], {"start"})
  BY <1>1, Ends2 DEF Posted
<1>4. /\ Endpoint0.socket = "none" /\ Endpoint0.closeWasSent = FALSE
      /\ Endpoint0.closeWasReceived = FALSE /\ Endpoint0.state = "connecting"
  BY DEF Endpoint0
<1> QED BY <1>1, <1>2, <1>3, <1>4 DEF Dialling

\* Nothing is on its way: there is nothing to say of requests and responses.
LEMMA Quiet ==
  ASSUME Response, \A d \in End : wire'[d] = <<>>, ~HasKind(queue'["client"], {"ping"}),
         backlog'["client"] = backlog["client"]
  PROVE  Response'
<1>1. \A K : ~HasKind(<<>>, K)
  BY DEF HasKind
<1>2. wire'["client"] = <<>> /\ wire'["server"] = <<>>
  BY Ends2
<1>3. ~HasKind(backlog'["client"], {"ping"})
  BY DEF Response
<1>4. \A i \in 1 .. Len(<<>>) : FALSE
  OBVIOUS
<1>5. ~HasKind(wire'["server"], {"response", "ping"}) /\ ~HasKind(wire'["server"], {"request"})
  BY <1>1, <1>2
<1>6. /\ \A i \in 1 .. Len(wire'["server"]) : FALSE
      /\ \A i \in 1 .. Len(wire'["client"]) : FALSE
  BY <1>2, <1>4
<1> QED BY <1>3, <1>5, <1>6 DEF Response

LEMMA StartConnectStep ==
  ASSUME Inv, StartConnect
  PROVE  (\A d \in End : EndInv(d)') /\ Dialling' /\ Accepting' /\ Response'
<1>0. /\ "client" \in End /\ "server" \in End /\ "client" # "server" /\ \A d \in End : d = "client" \/ d = "server"
  BY Ends2
<1>1. Typed /\ EndInv("client") /\ EndInv("server") /\ Dialling /\ Accepting /\ Response
  BY <1>0 DEF Inv
<1>2. /\ queue["client"] # <<>> /\ Head(queue["client"]).kind = "start"
      /\ queue' = [queue EXCEPT !["client"] = Tail(@)] /\ dial' = "calling"
      /\ UNCHANGED <<ep, freed, wrapper, stack, wire, backlog, listed, dropped, said, heard, closes>>
  BY DEF StartConnect, serverVars, logVars
<1>3. queue \in [End -> Seq(Item)] /\ ep \in [End -> EndpointRecord]
  BY <1>1 DEF Typed, EndType, LineType
<1>4. dial = "idle"
  <2>1. HasKind(queue["client"], {"start"})
    BY <1>0, <1>2, <1>3, HasTail
  <2> QED BY <1>1, <2>1 DEF EndInv, Posted
<1>5. queue["client"] = <<Frame("start")>> /\ queue'["client"] = <<>> /\ queue'["server"] = queue["server"]
  <2>1. queue["client"] = <<Frame("start")>>
    BY <1>4, Before
  <2> QED BY <1>0, <1>2, <1>3, <2>1
<1>6. EndInv("server")'
  <2>1. ~HasKind(queue["server"], {"start"})
    BY <1>4, Before
  <2> QED BY <1>0, <1>1, <1>2, <1>4, <1>5, <2>1, Aside
<1>7. EndInv("client")'
  <2>1. Shape("client")' /\ Handshake("client")'
    BY <1>1, <1>2 DEF EndInv, Shape, Handshake
  <2>2. Counted("client")'
    <3>1. SentCount(queue["client"]) = SentCount(queue'["client"])
      BY <1>0, <1>2, <1>3, CountTail DEF Sent
    <3> QED BY <1>1, <1>2, <3>1 DEF EndInv, Counted
  <2>3. \A K : Only(<<>>, K) /\ ~HasKind(<<>>, K)
    BY DEF Only, HasKind
  <2>4. \A i \in 1 .. Len(queue'["client"]) : FALSE
    BY <1>5
  <2>5. Posted("client")'
    BY <1>1, <1>2, <1>5, <2>3, <2>4 DEF EndInv, Posted
  <2>6. ~Left("client") /\ ~freed["client"]
    BY <1>0, <1>4, Before
  <2>7. ~ep["client"].disposeRequested
    BY <1>1, <2>6 DEF EndInv, Disposal, Left
  <2>8. Disposal("client")'
    BY <1>2, <2>4, <2>6, <2>7 DEF Disposal
  <2>9. ~Left("client")'
    BY <1>2, <2>6 DEF Left
  <2>10. Gone("client")'
    BY <2>9 DEF Gone
  <2> QED BY <2>1, <2>2, <2>5, <2>8, <2>10 DEF EndInv
<1>8. Dialling'
  <2>1. \A d \in End : ~Left(d)'
    BY <1>2, <1>4, Before DEF Left
  <2>2. Fresh("client")'
    BY <1>2, <1>4, Before DEF Fresh
  <2> QED BY <1>2, <1>4, <1>5, <2>1, <2>2, Before DEF Dialling
<1>9. Accepting'
  <2>1. ep'["server"].socket = "none"
    BY <1>2, <1>4, Before
  <2> QED BY <1>1, <1>2, <2>1 DEF Accepting
<1>10. Response'
  <2>1. ~HasKind(queue'["client"], {"ping"})
    BY <1>5 DEF HasKind
  <2> QED BY <1>1, <1>2, <1>4, <2>1, Before, Quiet
<1> QED BY <1>0, <1>6, <1>7, <1>8, <1>9, <1>10

\* The connection is being made and the thread of the client is idle.
LEMMA OnceAnswered ==
  ASSUME Inv, Answered
  PROVE  /\ dial = "calling" /\ dial # "done" /\ stack["client"] = <<>> /\ queue["client"] = <<>>
         /\ \A K : ~HasKind(queue["client"], K)
         /\ Typed /\ Accepting /\ Response /\ ep \in [End -> EndpointRecord]
         /\ wire \in [End -> Seq(Item)] /\ stack \in [End -> Seq(Place)]
         /\ \A d \in End : EndInv(d) /\ backlog[d] = <<>>
<1>1. dial = "calling" /\ stack["client"] = <<>>
  BY DEF Answered, Idle
<1>2. queue["client"] = <<>>
  BY <1>1, Before
<1>3. \A K : ~HasKind(<<>>, K)
  BY DEF HasKind
<1>4. /\ Typed /\ Accepting /\ Response /\ ep \in [End -> EndpointRecord]
      /\ wire \in [End -> Seq(Item)] /\ stack \in [End -> Seq(Place)]
  BY DEF Inv, Typed, EndType, LineType
<1>5. ASSUME NEW d \in End PROVE EndInv(d) /\ backlog[d] = <<>>
  <2>1. EndInv(d)
    BY DEF Inv
  <2>2. ep[d].socket = "none"
    BY <1>1, Before, Ends2
  <2> QED BY <2>1, <2>2 DEF EndInv, Posted
<1> QED BY <1>1, <1>2, <1>3, <1>4, <1>5

\* No end has the frame of onconnect on its stack before it is called.
LEMMA NoConnect ==
  ASSUME Inv, dial # "done", NEW d \in End
  PROVE  ~Has(stack[d], "connect")
<1>1. Accepting /\ ep["server"].socket # "request"
  BY Before DEF Inv
<1> QED BY <1>1 DEF Accepting

LEMMA ConnectNoneStep ==
  ASSUME Inv, ConnectCallback_none
  PROVE  (\A d \in End : EndInv(d)') /\ Dialling' /\ Accepting' /\ Response'
<1>0. /\ "client" \in End /\ "server" \in End /\ "client" # "server"
      /\ \A d \in End : d = "client" \/ d = "server"
  BY Ends2
<1>1. /\ Answered /\ dial' = "failed" /\ stack' = [stack EXCEPT !["client"] = Append(<<>>, "error")]
      /\ UNCHANGED <<ep, freed, wrapper, queue, wire, backlog, listed, dropped, said, heard, closes>>
  BY DEF ConnectCallback_none, CallError, SetStack, serverVars
<1>2. /\ stack'["client"] = <<"error">> /\ stack'["server"] = stack["server"]
      /\ \A f : Has(<<"error">>, f) => f = "error"
  <2>1. stack \in [End -> Seq(Place)]
    BY <1>1, OnceAnswered
  <2>2. \A f : Has(<<"error">>, f) => f = "error"
    BY DEF Has
  <2> QED BY <1>0, <1>1, <2>1, <2>2
<1>3. EndInv("server")'
  BY <1>0, <1>1, <1>2, OnceAnswered, Before, Aside
<1>4. ~Left("client")'
  BY <1>0, <1>1, <1>2, OnceAnswered, Before DEF Left
<1>5. EndInv("client")'
  <2>1. Gone("client")'
    BY <1>4 DEF Gone
  <2>2. <<"error">> \in Seq(Place) /\ WellShaped(<<"error">>)
    BY DEF Place, WellShaped
  <2>3. Kin(ep["client"], ep'["client"])
    BY <1>0, <1>1, OnceAnswered, KinFacts
  <2> QED BY <1>0, <1>1, <1>2, <2>1, <2>2, <2>3, OnceAnswered, Before, EndKept
<1>6. Dialling'
  <2>1. ~Left("server")'
    BY <1>0, <1>1, <1>2, OnceAnswered, Before DEF Left
  <2>2. \A d \in End : ~Left(d)'
    BY <1>0, <1>4, <2>1
  <2>3. Fresh("client")'
    BY <1>1, <1>2, OnceAnswered, Before DEF Fresh
  <2>4. ~Has(stack'["client"], "closed") /\ stack'["server"] = <<>>
    BY <1>1, <1>2, OnceAnswered, Before
  <2>5. queue'["client"] = <<>> /\ dial' # "idle"
    BY <1>1, OnceAnswered
  <2> QED BY <1>1, <2>2, <2>3, <2>4, <2>5, OnceAnswered, Before DEF Dialling
<1>7. Accepting'
  <2>1. ep'["server"].socket = "none"
    BY <1>1, OnceAnswered, Before
  <2>2. \A d \in End : ~Has(stack'[d], "connect")
    BY <1>0, <1>1, <1>2, OnceAnswered, NoConnect
  <2>3. wrapper'["client"] # "none"
    BY <1>1, OnceAnswered DEF Accepting
  <2> QED BY <2>1, <2>2, <2>3 DEF Accepting
<1>8. Response'
  <2>1. Response /\ (\A d \in End : wire'[d] = <<>>) /\ ~HasKind(queue'["client"], {"ping"})
    BY <1>1, OnceAnswered, Before
  <2> QED BY <1>1, <2>1, Quiet
<1> QED BY <1>0, <1>3, <1>5, <1>6, <1>7, <1>8

LEMMA ConnectStep ==
  ASSUME Inv, ConnectCallback
  PROVE  (\A d \in End : EndInv(d)') /\ Dialling' /\ Accepting' /\ Response'
<1>0. /\ "client" \in End /\ "server" \in End /\ "client" # "server"
      /\ \A d \in End : d = "client" \/ d = "server"
  BY Ends2
<1>1. /\ Answered /\ dial' = "done" /\ wire' = [wire EXCEPT !["server"] = <<Frame("request")>>]
      /\ UNCHANGED <<freed, wrapper, queue, stack, backlog, listed, dropped, said, heard, closes>>
  BY DEF ConnectCallback, serverVars, logVars
<1>2. ep'["client"] = Plugged(ep["client"]) /\ ep'["server"] = Offered(ep["server"])
  <2>1. ep' = [ep EXCEPT !["client"] = Plugged(ep["client"]), !["server"] = Offered(ep["server"])]
    BY <1>1, OnceAnswered, ServerEpMoves
  <2> QED BY <1>0, <1>1, <2>1, OnceAnswered
<1>3. wire'["client"] = <<>> /\ wire'["server"] = <<Frame("request")>>
  <2>1. wire["client"] = <<>> /\ wire \in [End -> Seq(Item)]
    BY <1>0, <1>1, OnceAnswered, Before
  <2> QED BY <1>0, <1>1, <2>1
<1>4. /\ ep["client"] \in EndpointRecord /\ ep["server"] \in EndpointRecord
  BY <1>0, <1>1, OnceAnswered
<1>5. ASSUME NEW d \in End PROVE EndInv(d)' /\ ~Left(d)'
  <2>1. ~Left(d)'
    BY <1>1, OnceAnswered, Before DEF Left
  <2>2. Gone(d)'
    BY <2>1 DEF Gone
  <2>3. /\ Kin(ep[d], ep'[d]) /\ ep'[d].pendingSendCount = ep[d].pendingSendCount
        /\ ep'[d].disposeRequested = ep[d].disposeRequested
    BY <1>0, <1>2, <1>4, KinFacts, PluggedFacts, OfferedFacts
  <2>4. ~HasKind(queue[d], {"start"})
    BY <1>0, <1>1, OnceAnswered, Before
  <2> QED BY <1>1, <2>1, <2>2, <2>3, <2>4, OnceAnswered, Before, EndKept
<1>6. Fresh("client")' /\ Fresh("server")' /\ ep'["server"].socket = "request"
  <2>1. Fresh("client")'
    BY <1>1, <1>2, <1>4, PluggedFacts, OnceAnswered, Before DEF Fresh
  <2>2. ~Has(<<>>, "closing")
    BY DEF Has
  <2>3. /\ stack'["server"] = <<>> /\ ep["server"].closeWasSent = FALSE
        /\ ep["server"].closeWasReceived = FALSE /\ ep["server"].state = "connecting"
    BY <1>1, OnceAnswered, Before
  <2>4. Fresh("server")' /\ ep'["server"].socket = "request"
    BY <1>2, <1>4, <2>2, <2>3, OfferedFacts DEF Fresh
  <2> QED BY <2>1, <2>4
<1>7. Dialling'
  BY <1>1 DEF Dialling
<1>8. Accepting'
  <2>1. ~HasKind(<<>>, {"text", "close"})
    BY DEF HasKind
  <2>2. /\ ~listed' /\ wrapper'["server"] = "none" /\ Only(queue'["server"], {"stop"})
        /\ said'["server"] = 0 /\ heard'["client"] = <<>>
    BY <1>0, <1>1, OnceAnswered, Before
  <2>3. wrapper'["client"] # "none" /\ \A d \in End : ~Has(stack'[d], "connect")
    BY <1>1, OnceAnswered, NoConnect DEF Accepting
  <2> QED BY <1>1, <1>3, <1>6, <2>1, <2>2, <2>3 DEF Accepting
<1>9. Response'
  <2>1. /\ \A i \in 1 .. Len(<<Frame("request")>>) : i = 1
        /\ \A K : HasKind(<<Frame("request")>>, K) => "request" \in K
        /\ \A i \in 1 .. Len(<<>>) : FALSE
        /\ Only(<<>>, {"fin", "fail"})
    BY DEF HasKind, Frame, Only
  <2>2. /\ ~HasKind(queue'["client"], {"ping"}) /\ ~HasKind(backlog'["client"], {"ping"})
        /\ ~Has(stack'["server"], "connect")
    BY <1>0, <1>1, OnceAnswered, NoConnect DEF Response
  <2>3. ~HasKind(wire'["server"], {"response", "ping"})
    BY <1>3, <2>1
  <2>4. \A i \in 1 .. Len(wire'["server"]) : i = 1
    BY <1>3, <2>1
  <2>5. \A i \in 1 .. Len(wire'["client"]) : FALSE
    BY <1>3, <2>1
  <2>6. Only(wire'["client"], {"fin", "fail"}) /\ wire'["client"] = <<>>
    BY <1>3, <2>1
  <2> QED BY <1>6, <2>2, <2>3, <2>4, <2>5, <2>6 DEF Response
<1> QED BY <1>5, <1>7, <1>8, <1>9

LEMMA ConnectRefusedStep ==
  ASSUME Inv, ConnectCallback_refused
  PROVE  (\A d \in End : EndInv(d)') /\ Dialling' /\ Accepting' /\ Response'
<1>0. /\ "client" \in End /\ "server" \in End /\ "client" # "server"
      /\ \A d \in End : d = "client" \/ d = "server"
  BY Ends2
<1>1. /\ Answered /\ dial' = "done" /\ wire' = [wire EXCEPT !["client"] = <<Frame("fin")>>]
      /\ stack' = [stack EXCEPT !["client"] = Append(<<>>, "failed")]
      /\ UNCHANGED <<freed, wrapper, queue, backlog, listed, dropped, said, heard, closes>>
  BY DEF ConnectCallback_refused, ConnectCallback_unsent, CallError, SetStack, serverVars
<1>2. /\ ep'["client"] = Plugged(ep["client"]) /\ ep'["server"] = ep["server"]
      /\ ep["client"] \in EndpointRecord
  <2>1. SetEp("client", Plugged(ep["client"]))
    BY <1>1, OnceAnswered, ServerEpMoves
  <2> QED BY <1>0, <1>1, <2>1, OnceAnswered DEF SetEp
<1>3. wire'["client"] = <<Frame("fin")>> /\ wire'["server"] = <<>>
  <2>1. wire["server"] = <<>> /\ wire \in [End -> Seq(Item)]
    BY <1>0, <1>1, OnceAnswered, Before
  <2> QED BY <1>0, <1>1, <2>1
<1>4. /\ stack'["client"] = <<"failed">> /\ stack'["server"] = stack["server"]
      /\ \A f : Has(<<"failed">>, f) => f = "failed"
  <2>1. stack \in [End -> Seq(Place)]
    BY <1>1, OnceAnswered
  <2>2. \A f : Has(<<"failed">>, f) => f = "failed"
    BY DEF Has
  <2> QED BY <1>0, <1>1, <2>1, <2>2
<1>5. EndInv("server")'
  BY <1>0, <1>1, <1>2, <1>4, OnceAnswered, Before, Aside
<1>6. EndInv("client")'
  <2>1. ~Left("client")'
    BY <1>0, <1>1, <1>4, OnceAnswered, Before DEF Left
  <2>2. Gone("client")'
    BY <2>1 DEF Gone
  <2>3. <<"failed">> \in Seq(Place) /\ WellShaped(<<"failed">>)
    BY DEF Place, WellShaped
  <2>4. /\ Kin(ep["client"], ep'["client"])
        /\ ep'["client"].pendingSendCount = ep["client"].pendingSendCount
        /\ ep'["client"].disposeRequested = ep["client"].disposeRequested
    BY <1>2, KinFacts, PluggedFacts
  <2> QED BY <1>0, <1>1, <1>4, <2>2, <2>3, <2>4, OnceAnswered, Before, EndKept
<1>7. Dialling'
  BY <1>1 DEF Dialling
<1>8. \A d \in End : ~Has(stack'[d], "connect")
  BY <1>0, <1>1, <1>4, OnceAnswered, NoConnect
<1>9. Accepting'
  <2>1. ep'["server"].socket = "none"
    BY <1>1, <1>2, OnceAnswered, Before
  <2>2. wrapper'["client"] # "none"
    BY <1>1, OnceAnswered DEF Accepting
  <2> QED BY <1>8, <2>1, <2>2 DEF Accepting
<1>10. Response'
  <2>1. /\ \A K : ~HasKind(<<>>, K) /\ \A i \in 1 .. Len(<<>>) : FALSE
        /\ \A i \in 1 .. Len(<<Frame("fin")>>) : <<Frame("fin")>>[i].kind # "response"
    BY DEF HasKind, Frame
  <2>2. /\ ~HasKind(queue'["client"], {"ping"}) /\ ~HasKind(backlog'["client"], {"ping"})
        /\ ~Has(stack'["server"], "connect")
    BY <1>0, <1>1, <1>8, OnceAnswered DEF Response
  <2>3. ~HasKind(wire'["server"], {"response", "ping"}) /\ \A i \in 1 .. Len(wire'["server"]) : FALSE
    BY <1>3, <2>1
  <2>4. \A i \in 1 .. Len(wire'["client"]) : wire'["client"][i].kind # "response"
    BY <1>3, <2>1
  <2> QED BY <2>2, <2>3, <2>4 DEF Response
<1> QED BY <1>0, <1>5, <1>6, <1>7, <1>9, <1>10

LEMMA ConnectUnsentStep ==
  ASSUME Inv, ConnectCallback_unsent
  PROVE  (\A d \in End : EndInv(d)') /\ Dialling' /\ Accepting' /\ Response'
<1>0. /\ "client" \in End /\ "server" \in End /\ "client" # "server"
      /\ \A d \in End : d = "client" \/ d = "server"
  BY Ends2
<1>1. /\ Answered /\ dial' = "done" /\ stack' = [stack EXCEPT !["client"] = Append(<<>>, "failed")]
      /\ UNCHANGED <<freed, wrapper, queue, wire, backlog, listed, dropped, said, heard, closes>>
  BY DEF ConnectCallback_unsent, CallError, SetStack, serverVars
<1>2. ep'["client"] = Plugged(ep["client"]) /\ ep'["server"] = Offered(ep["server"])
  <2>1. ep' = [ep EXCEPT !["client"] = Plugged(ep["client"]), !["server"] = Offered(ep["server"])]
    BY <1>1, OnceAnswered, ServerEpMoves
  <2> QED BY <1>0, <1>1, <2>1, OnceAnswered
<1>3. wire'["client"] = <<>> /\ wire'["server"] = <<>>
  BY <1>0, <1>1, OnceAnswered, Before
<1>4. ep["client"] \in EndpointRecord /\ ep["server"] \in EndpointRecord
  BY <1>0, <1>1, OnceAnswered
<1>s. /\ stack'["client"] = <<"failed">> /\ stack'["server"] = stack["server"]
      /\ stack["server"] = <<>> /\ \A f : Has(<<"failed">>, f) => f = "failed"
  <2>1. stack \in [End -> Seq(Place)] /\ stack["server"] = <<>>
    BY <1>1, OnceAnswered, Before
  <2>2. \A f : Has(<<"failed">>, f) => f = "failed"
    BY DEF Has
  <2> QED BY <1>0, <1>1, <2>1, <2>2
<1>5. ASSUME NEW d \in End PROVE EndInv(d)'
  <2>1. ~Left(d)'
    BY <1>0, <1>1, <1>s, OnceAnswered, Before DEF Left
  <2>2. Gone(d)'
    BY <2>1 DEF Gone
  <2>3. /\ Kin(ep[d], ep'[d]) /\ ep'[d].pendingSendCount = ep[d].pendingSendCount
        /\ ep'[d].disposeRequested = ep[d].disposeRequested
    BY <1>0, <1>2, <1>4, KinFacts, PluggedFacts, OfferedFacts
  <2>4. ~HasKind(queue[d], {"start"})
    BY <1>0, <1>1, OnceAnswered, Before
  <2>5. <<"failed">> \in Seq(Place) /\ WellShaped(<<"failed">>)
    BY DEF Place, WellShaped
  <2>6. CASE d = "server"
    BY <1>1, <1>s, <2>1, <2>2, <2>3, <2>4, <2>6, OnceAnswered, Before, EndKept
  <2>7. CASE d = "client"
    BY <1>0, <1>1, <1>s, <2>2, <2>3, <2>5, <2>7, OnceAnswered, Before, EndKept
  <2> QED BY <1>0, <2>6, <2>7
<1>6. Fresh("server")' /\ ep'["server"].socket = "request"
  <2>1. ~Has(<<>>, "closing")
    BY DEF Has
  <2>2. /\ ep["server"].closeWasSent = FALSE
        /\ ep["server"].closeWasReceived = FALSE /\ ep["server"].state = "connecting"
    BY <1>1, OnceAnswered, Before
  <2> QED BY <1>2, <1>4, <1>s, <2>1, <2>2, OfferedFacts DEF Fresh
<1>7. Dialling'
  BY <1>1 DEF Dialling
<1>8. \A d \in End : ~Has(stack'[d], "connect")
  BY <1>0, <1>1, <1>s, OnceAnswered, NoConnect
<1>9. Accepting'
  <2>1. ~HasKind(<<>>, {"text", "close"})
    BY DEF HasKind
  <2>2. /\ ~listed' /\ wrapper'["server"] = "none" /\ Only(queue'["server"], {"stop"})
        /\ said'["server"] = 0 /\ heard'["client"] = <<>>
    BY <1>0, <1>1, OnceAnswered, Before
  <2>3. wrapper'["client"] # "none"
    BY <1>1, OnceAnswered DEF Accepting
  <2> QED BY <1>1, <1>3, <1>6, <1>8, <2>1, <2>2, <2>3 DEF Accepting
<1>10. Response'
  <2>1. \A K : ~HasKind(<<>>, K) /\ \A i \in 1 .. Len(<<>>) : FALSE
    BY DEF HasKind
  <2>2. /\ ~HasKind(queue'["client"], {"ping"}) /\ ~HasKind(backlog'["client"], {"ping"})
        /\ ~Has(stack'["server"], "connect")
    BY <1>0, <1>1, <1>8, OnceAnswered DEF Response
  <2>3. /\ ~HasKind(wire'["server"], {"response", "ping"})
        /\ \A i \in 1 .. Len(wire'["server"]) : FALSE
        /\ \A i \in 1 .. Len(wire'["client"]) : FALSE
    BY <1>3, <2>1
  <2> QED BY <2>2, <2>3 DEF Response
<1> QED BY <1>5, <1>7, <1>9, <1>10

LEMMA ConnectCancelledStep ==
  ASSUME Inv, ConnectCallback_cancelled
  PROVE  (\A d \in End : EndInv(d)') /\ Dialling' /\ Accepting' /\ Response'
<1>0. /\ "client" \in End /\ "server" \in End /\ "client" # "server"
      /\ \A d \in End : d = "client" \/ d = "server"
  BY Ends2
<1>1. /\ Answered /\ dial' = "done" /\ SetEp("client", Closed(ep["client"]))
      /\ stack' = [stack EXCEPT !["client"] = Append(<<>>, "close")] /\ listed' = (listed /\ TRUE)
      /\ closes' = [closes EXCEPT !["client"] = IF Callable("client") THEN @ + 1 ELSE @]
      /\ UNCHANGED <<freed, wrapper, queue, wire, backlog, dropped, said, heard>>
  BY DEF ConnectCallback_cancelled, CallClose, SetStack
<1>2. /\ ep'["client"] = Closed(ep["client"]) /\ ep'["server"] = ep["server"]
      /\ ep["client"] \in EndpointRecord
  BY <1>0, <1>1, OnceAnswered DEF SetEp
<1>3. closes'["server"] = closes["server"]
  BY <1>0, <1>1, OnceAnswered DEF Typed, LogType
<1>4. /\ stack'["client"] = <<"close">> /\ stack'["server"] = stack["server"]
      /\ \A f : Has(<<"close">>, f) => f = "close"
  <2>1. stack \in [End -> Seq(Place)]
    BY <1>1, OnceAnswered
  <2>2. \A f : Has(<<"close">>, f) => f = "close"
    BY DEF Has
  <2> QED BY <1>0, <1>1, <2>1, <2>2
<1>5. EndInv("server")'
  BY <1>0, <1>1, <1>2, <1>3, <1>4, OnceAnswered, Before, Aside
<1>6. EndInv("client")'
  <2>1. ep'["client"].socket = "none" /\ ep["client"].socket = "none"
    BY <1>1, <1>2, ClosedFacts, OnceAnswered, Before
  <2>2. Gone("client")'
    BY <1>0, <1>1, <1>4, <2>1 DEF Gone
  <2>3. <<"close">> \in Seq(Place) /\ WellShaped(<<"close">>)
    BY DEF Place, WellShaped
  <2>4. /\ Kin(ep["client"], ep'["client"])
        /\ ep'["client"].pendingSendCount = ep["client"].pendingSendCount
        /\ ep'["client"].disposeRequested = ep["client"].disposeRequested
    BY <1>2, KinFacts, ClosedFacts
  <2> QED BY <1>0, <1>1, <1>4, <2>2, <2>3, <2>4, OnceAnswered, Before, EndKept
<1>7. Dialling'
  BY <1>1 DEF Dialling
<1>8. \A d \in End : ~Has(stack'[d], "connect")
  BY <1>0, <1>1, <1>4, OnceAnswered, NoConnect
<1>9. Accepting'
  <2>1. ep'["server"].socket = "none"
    BY <1>1, <1>2, OnceAnswered, Before
  <2>2. wrapper'["client"] # "none"
    BY <1>1, OnceAnswered DEF Accepting
  <2> QED BY <1>8, <2>1, <2>2 DEF Accepting
<1>10. Response'
  <2>1. Response /\ (\A d \in End : wire'[d] = <<>>) /\ ~HasKind(queue'["client"], {"ping"})
    BY <1>1, OnceAnswered, Before
  <2> QED BY <1>1, <2>1, Quiet
<1> QED BY <1>0, <1>5, <1>6, <1>7, <1>9, <1>10

\* Something other than a close frame is posted to an end.
LEMMA Posting ==
  ASSUME Typed, NEW d \in End, EndInv(d), NEW f \in Item, f.kind \in {"open", "ping", "stop"},
         queue'[d] = Append(queue[d], f), Shape(d)', Handshake(d)', Gone(d)',
         ep'[d].pendingSendCount =
           IF f.kind \in Sent THEN (ep[d].pendingSendCount + 1) % 256 ELSE ep[d].pendingSendCount,
         ep'[d].closeWasSent = ep[d].closeWasSent,
         ep'[d].disposeRequested = ep[d].disposeRequested,
         freed'[d] = freed[d], wrapper'[d] = wrapper[d], backlog'[d] = backlog[d],
         backlog[d] = <<>> \/ ep'[d].socket = ep[d].socket,
         f.kind = "stop" \/ wrapper[d] # "collected",
         HasKind(queue[d], {"start"}) => dial' = dial,
         ~freed[d] \/ (stack'[d] = <<>> /\ ep'[d].socket = "none")
  PROVE  EndInv(d)'
<1> DEFINE q == queue[d]
           K == Sent \union {"start", "open", "dispose", "stop"}
<1>0. /\ q \in Seq(Item) /\ Len(q) \in Nat /\ queue'[d] = Append(q, f)
      /\ Counted(d) /\ Posted(d) /\ Disposal(d)
  BY DEF Typed, LineType, EndInv
<1>1. Counted(d)'
  <2>1. SentCount(q) \in Nat
    BY <1>0, CountNat
  <2>2. ep[d].pendingSendCount = SentCount(q) % 256
    BY <1>0 DEF Counted
  <2>3. SentCount(queue'[d]) = IF f.kind \in Sent THEN SentCount(q) + 1 ELSE SentCount(q)
    BY <1>0, CountAppend
  <2>4. ((SentCount(q) % 256) + 1) % 256 = (SentCount(q) + 1) % 256
    BY <2>1, Mod256
  <2>5. ep'[d].pendingSendCount = SentCount(queue'[d]) % 256
    BY <2>2, <2>3, <2>4
  <2> QED BY <2>5 DEF Counted
<1>2. Posted(d)'
  <2>1. Only(q, K) /\ f.kind \in K /\ OneClose(q, ep[d].closeWasSent) /\ ep[d].closeWasSent \in BOOLEAN
    BY <1>0 DEF Posted, OneClose, Typed, EndType, EndpointRecord, Sent
  <2>2. Only(queue'[d], K)
    BY <1>0, <2>1, OnlyAppend
  <2>3. OneClose(queue'[d], ep'[d].closeWasSent)
    BY <1>0, <2>1, OneCloseFacts
  <2>4. HasKind(queue'[d], {"start"}) => d = "client" /\ dial' = "idle"
    <3>1. HasKind(queue'[d], {"start"}) => HasKind(q, {"start"})
      BY <1>0, HasAppend
    <3> QED BY <1>0, <3>1 DEF Posted
  <2> QED BY <1>0, <2>2, <2>3, <2>4 DEF Posted, OneClose
<1>3. Disposal(d)'
  <2>0. /\ Len(queue'[d]) = Len(q) + 1 /\ queue'[d][Len(q) + 1] = f
        /\ \A i \in 1 .. Len(q) : queue'[d][i] = q[i]
    BY <1>0
  <2>1. ASSUME NEW i \in 1 .. Len(queue'[d]), queue'[d][i].kind = "dispose"
        PROVE  /\ wrapper'[d] = "collected" /\ ~ep'[d].disposeRequested /\ ~freed'[d]
               /\ \A j \in i + 1 .. Len(queue'[d]) : queue'[d][j].kind \in {"close", "stop"}
    <3>1. i \in 1 .. Len(q) /\ q[i].kind = "dispose"
      BY <1>0, <2>0, <2>1
    <3>2. /\ wrapper[d] = "collected" /\ ~ep[d].disposeRequested /\ ~freed[d]
          /\ \A j \in i + 1 .. Len(q) : q[j].kind \in {"close", "stop"}
      BY <1>0, <3>1 DEF Disposal
    <3>3. f.kind = "stop"
      BY <3>2
    <3> QED BY <1>0, <2>0, <3>1, <3>2, <3>3
  <2>2. ASSUME NEW L, "stop" \in L, Only(q, L), f.kind = "stop" PROVE Only(queue'[d], L)
    BY <1>0, <2>2, OnlyAppend
  <2>3. ep[d].disposeRequested \/ freed[d] => wrapper[d] = "collected" /\ Only(q, {"close", "stop"})
    BY <1>0 DEF Disposal
  <2>4. freed[d] => Only(q, {"stop"})
    BY <1>0 DEF Disposal
  <2>5. ep'[d].disposeRequested \/ freed'[d] => wrapper'[d] = "collected" /\ Only(queue'[d], {"close", "stop"})
    BY <2>2, <2>3
  <2>6. freed'[d] => Only(queue'[d], {"stop"}) /\ stack'[d] = <<>> /\ ep'[d].socket = "none"
    BY <2>2, <2>3, <2>4
  <2> QED BY <2>1, <2>5, <2>6 DEF Disposal
<1> QED BY <1>1, <1>2, <1>3 DEF EndInv

\* The queue of an end gets shorter by something that is not a send.
LEMMA TakingOff ==
  ASSUME Typed, NEW d \in End, EndInv(d), queue[d] # <<>>, Head(queue[d]).kind \notin Sent,
         queue'[d] = Tail(queue[d]), Kin(ep[d], ep'[d]), stack'[d] = stack[d], Gone(d)',
         ep'[d].pendingSendCount = ep[d].pendingSendCount,
         ep'[d].disposeRequested = ep[d].disposeRequested, ep'[d].socket \in {ep[d].socket, "none"},
         freed'[d] = freed[d], wrapper'[d] = wrapper[d], backlog'[d] = backlog[d],
         backlog[d] = <<>> \/ ep'[d].socket = ep[d].socket,
         HasKind(queue[d], {"start"}) => dial' = dial
  PROVE  EndInv(d)'
<1> DEFINE q == queue[d]
           K == Sent \union {"start", "open", "dispose", "stop"}
<1>0. /\ q \in Seq(Item) /\ Len(q) \in Nat /\ queue'[d] = Tail(q) /\ q # <<>>
      /\ Shape(d) /\ Handshake(d) /\ Counted(d) /\ Posted(d) /\ Disposal(d)
      /\ ep'[d].closeWasSent = ep[d].closeWasSent
  BY DEF Typed, LineType, EndInv, Kin
<1>1. Shape(d)' /\ Handshake(d)'
  <2>1. Shape(d)'
    BY <1>0 DEF Shape
  <2>2. stack[d] \in Seq(Place) /\ ep[d] \in EndpointRecord /\ Answers(stack[d], ep[d])
    BY <1>0 DEF Typed, EndType, LineType, Handshake
  <2>3. Answers(stack[d], ep'[d])
    BY <2>2, AnswersFacts
  <2> QED BY <2>1, <2>3 DEF Handshake
<1>2. Counted(d)'
  <2>1. SentCount(queue'[d]) = SentCount(q)
    BY <1>0, CountTail
  <2> QED BY <1>0, <2>1 DEF Counted
<1>3. Posted(d)'
  <2>1. Only(q, K) /\ OneClose(q, ep[d].closeWasSent) /\ ep[d].closeWasSent \in BOOLEAN /\ Head(q) \in Item
    BY <1>0, Lines DEF Posted, OneClose, Typed, EndType, EndpointRecord
  <2>2. Only(queue'[d], K)
    BY <1>0, <2>1, OnlyTail
  <2>3. OneClose(queue'[d], ep'[d].closeWasSent)
    BY <1>0, <2>1, OneCloseFacts
  <2>4. HasKind(queue'[d], {"start"}) => d = "client" /\ dial' = "idle"
    <3>1. HasKind(queue'[d], {"start"}) => HasKind(q, {"start"})
      BY <1>0, HasTail
    <3> QED BY <1>0, <3>1 DEF Posted
  <2> QED BY <1>0, <2>2, <2>3, <2>4 DEF Posted, OneClose
<1>4. Disposal(d)'
  <2>0. /\ \A i \in 1 .. Len(queue'[d]) : i + 1 \in 1 .. Len(q) /\ queue'[d][i] = q[i + 1]
        /\ Len(queue'[d]) = Len(q) - 1
    BY <1>0, TailFacts
  <2>1. ASSUME NEW i \in 1 .. Len(queue'[d]), queue'[d][i].kind = "dispose"
        PROVE  /\ wrapper'[d] = "collected" /\ ~ep'[d].disposeRequested /\ ~freed'[d]
               /\ \A j \in i + 1 .. Len(queue'[d]) : queue'[d][j].kind \in {"close", "stop"}
    <3>1. i + 1 \in 1 .. Len(q) /\ q[i + 1].kind = "dispose"
      BY <2>0, <2>1
    <3>2. /\ wrapper[d] = "collected" /\ ~ep[d].disposeRequested /\ ~freed[d]
          /\ \A j \in i + 2 .. Len(q) : q[j].kind \in {"close", "stop"}
      BY <1>0, <3>1 DEF Disposal
    <3> QED BY <1>0, <2>0, <3>1, <3>2
  <2>2. /\ Only(q, {"close", "stop"}) => Only(queue'[d], {"close", "stop"})
        /\ Only(q, {"stop"}) => Only(queue'[d], {"stop"})
    BY <1>0, OnlyTail
  <2>3. ep'[d].disposeRequested \/ freed'[d] => wrapper'[d] = "collected" /\ Only(queue'[d], {"close", "stop"})
    BY <1>0, <2>2 DEF Disposal
  <2>4. freed'[d] => Only(queue'[d], {"stop"}) /\ stack'[d] = <<>> /\ ep'[d].socket = "none"
    BY <1>0, <2>2 DEF Disposal
  <2> QED BY <2>1, <2>3, <2>4 DEF Disposal
<1> QED BY <1>1, <1>2, <1>3, <1>4 DEF EndInv

\* What the invariant says while the server has the socket of a request.
LEMMA Offering ==
  ASSUME Inv, ep["server"].socket = "request"
  PROVE  /\ Fresh("server") /\ dial = "done" /\ ~listed /\ wrapper["server"] \in {"none", "remembered"}
         /\ Only(queue["server"], {"stop"}) /\ said["server"] = 0 /\ heard["client"] = <<>>
         /\ ~HasKind(wire["client"], {"text", "close"})
         /\ ~Left("server") /\ ~freed["server"] /\ backlog["server"] = <<>>
         /\ ~ep["server"].disposeRequested /\ ~HasKind(queue["server"], {"start"})
<1>0. "server" \in End /\ Accepting /\ EndInv("server")
  BY Ends2 DEF Inv
<1>1. /\ Fresh("server") /\ dial = "done" /\ ~listed /\ wrapper["server"] \in {"none", "remembered"}
      /\ Only(queue["server"], {"stop"}) /\ said["server"] = 0 /\ heard["client"] = <<>>
      /\ ~HasKind(wire["client"], {"text", "close"})
  BY <1>0 DEF Accepting
<1>2. ~Left("server") /\ ~freed["server"] /\ backlog["server"] = <<>> /\ ~ep["server"].disposeRequested
  BY <1>0, <1>1 DEF EndInv, Gone, Disposal, Posted
<1>3. ~HasKind(queue["server"], {"start"})
  BY <1>0 DEF EndInv, Posted
<1> QED BY <1>1, <1>2, <1>3

\* What it says when the request has arrived.
LEMMA Asked ==
  ASSUME Inv, ep["server"].socket = "request", wire["server"] # <<>>,
         Head(wire["server"]).kind = "request"
  PROVE  /\ Fresh("client") /\ Only(wire["client"], {"fin", "fail"})
         /\ wire["client"] = <<>> \/ Ended(wire["client"])
         /\ ~HasKind(Tail(wire["server"]), {"request", "response", "ping"})
<1>0. wire["server"] \in Seq(Item) /\ Response
  BY Ends2 DEF Inv, Typed, LineType
<1>1. 1 \in 1 .. Len(wire["server"]) /\ wire["server"][1].kind = "request"
  BY <1>0, TailFacts
<1>2. /\ Fresh("client") /\ Only(wire["client"], {"fin", "fail"})
      /\ wire["client"] = <<>> \/ Ended(wire["client"])
  BY <1>0, <1>1 DEF Response
<1>3. \A i \in 1 .. Len(Tail(wire["server"])) :
        Tail(wire["server"])[i].kind \notin {"request", "response", "ping"}
  <2>1. /\ Len(Tail(wire["server"])) = Len(wire["server"]) - 1
        /\ \A i \in 1 .. Len(wire["server"]) - 1 :
             /\ Tail(wire["server"])[i] = wire["server"][i + 1]
             /\ i + 1 \in 1 .. Len(wire["server"]) /\ i + 1 # 1
    BY <1>0, TailFacts
  <2>2. \A i \in 1 .. Len(wire["server"]) : wire["server"][i].kind = "request" => i = 1
    BY <1>0 DEF Response
  <2>3. \A i \in 1 .. Len(wire["server"]) : wire["server"][i].kind \notin {"response", "ping"}
    BY <1>0 DEF Response, HasKind
  <2> QED BY <2>1, <2>2, <2>3
<1>4. ~HasKind(Tail(wire["server"]), {"request", "response", "ping"})
  BY <1>3 DEF HasKind
<1> QED BY <1>2, <1>4

\* Fewer kinds.
LEMMA HasLess ==
  ASSUME NEW s, NEW K, NEW L, K \subseteq L, ~HasKind(s, L)
  PROVE  ~HasKind(s, K)
  BY DEF HasKind

LEMMA HandleRequestStep ==
  ASSUME Inv, HandleRequest
  PROVE  (\A d \in End : EndInv(d)') /\ Dialling' /\ Accepting' /\ Response'
<1>0. /\ "client" \in End /\ "server" \in End /\ "client" # "server"
      /\ \A d \in End : d = "client" \/ d = "server"
  BY Ends2
<1>1. /\ ep["server"].socket = "request" /\ stack["server"] = <<>>
      /\ wire["server"] # <<>> /\ Head(wire["server"]).kind = "request"
      /\ wire' = [wire EXCEPT !["server"] = Tail(@),
                    !["client"] = IF Fits("client") THEN Append(@, Frame("response")) ELSE @]
      /\ wrapper' = [wrapper EXCEPT !["server"] = "remembered"]
      /\ stack' = [stack EXCEPT !["server"] = <<"connect">>]
      /\ UNCHANGED <<ep, freed, queue, backlog, dial, listed, dropped, said, heard, closes>>
  BY DEF HandleRequest, Idle, SetStack, serverVars, logVars
<1>2. /\ Typed /\ EndInv("client") /\ EndInv("server") /\ Accepting /\ Response
      /\ ep \in [End -> EndpointRecord] /\ wire \in [End -> Seq(Item)] /\ stack \in [End -> Seq(Place)]
      /\ wrapper \in [End -> {"none", "remembered", "forgotten", "collected"}]
  BY <1>0 DEF Inv, Typed, EndType, LineType
<1>3. /\ stack'["server"] = <<"connect">> /\ stack'["client"] = stack["client"]
      /\ wrapper'["server"] = "remembered" /\ wrapper'["client"] = wrapper["client"]
      /\ \A f : Has(<<"connect">>, f) => f = "connect"
  <2>1. \A f : Has(<<"connect">>, f) => f = "connect"
    BY DEF Has
  <2> QED BY <1>0, <1>1, <1>2, <2>1
<1>4. /\ wire'["server"] = Tail(wire["server"])
      /\ \/ wire'["client"] = wire["client"]
         \/ wire'["client"] = <<Frame("response")>>
  <2>1. wire'["client"] = IF Fits("client") THEN Append(wire["client"], Frame("response")) ELSE wire["client"]
    BY <1>0, <1>1, <1>2
  <2>2. Fits("client") => wire["client"] = <<>>
    BY <1>1, Asked DEF Fits
  <2>3. wire'["server"] = Tail(wire["server"])
    BY <1>0, <1>1, <1>2
  <2>4. Append(<<>>, Frame("response")) = <<Frame("response")>>
    OBVIOUS
  <2>5. CASE Fits("client")
    BY <2>1, <2>2, <2>3, <2>4, <2>5
  <2>6. CASE ~Fits("client")
    BY <2>1, <2>3, <2>6
  <2> QED BY <2>5, <2>6
<1>5. EndInv("client")'
  BY <1>0, <1>1, <1>2, <1>3, Aside
<1>6. EndInv("server")'
  <2>1. ~Left("server")'
    BY <1>0, <1>1, <1>3, Offering DEF Left
  <2>2. Gone("server")'
    BY <2>1 DEF Gone
  <2>3. <<"connect">> \in Seq(Place) /\ WellShaped(<<"connect">>)
    BY DEF Place, WellShaped
  <2>4. Kin(ep["server"], ep'["server"])
    BY <1>0, <1>1, <1>2, KinFacts
  <2> QED BY <1>0, <1>1, <1>2, <1>3, <2>2, <2>3, <2>4, Offering, EndKept
<1>7. Dialling'
  BY <1>1, Offering DEF Dialling
<1>8. Accepting'
  <2>1. Fresh("server")'
    BY <1>1, <1>3, Offering DEF Fresh
  <2>2. ~HasKind(<<Frame("response")>>, {"text", "close"})
    BY DEF HasKind, Frame
  <2>3. ~HasKind(wire'["client"], {"text", "close"})
    BY <1>1, <1>4, <2>2, Offering
  <2>4. \A d \in End : Has(stack'[d], "connect") =>
          d = "server" /\ ep'[d].socket = "request" /\ wrapper'[d] = "remembered"
    BY <1>0, <1>1, <1>2, <1>3 DEF Accepting
  <2>5. wrapper'["client"] # "none" /\ wrapper'["server"] # "none"
    BY <1>2, <1>3 DEF Accepting
  <2> QED BY <1>1, <1>3, <2>1, <2>3, <2>4, <2>5, Offering DEF Accepting
<1>9. Response'
  <2>1. ~HasKind(wire'["server"], {"request", "response", "ping"})
    BY <1>1, <1>4, Asked
  <2>2. ~HasKind(wire'["server"], {"response", "ping"}) /\ ~HasKind(wire'["server"], {"request"})
    BY <2>1, HasLess
  <2>3. \A i \in 1 .. Len(wire'["server"]) : wire'["server"][i].kind # "request"
    BY <2>2 DEF HasKind
  <2>4. Fresh("client")'
    BY <1>1, <1>3, Asked DEF Fresh
  <2>5. \A i \in 1 .. Len(wire'["client"]) : wire'["client"][i].kind = "response" => i = 1
    <3>1. CASE wire'["client"] = wire["client"]
      BY <1>1, <3>1, Asked DEF Only
    <3>2. CASE wire'["client"] = <<Frame("response")>>
      BY <3>2
    <3> QED BY <1>4, <3>1, <3>2
  <2>6. ~HasKind(queue'["client"], {"ping"}) /\ ~HasKind(backlog'["client"], {"ping"})
    BY <1>1, <1>2 DEF Response
  <2> QED BY <2>2, <2>3, <2>4, <2>5, <2>6 DEF Response
<1> QED BY <1>0, <1>5, <1>6, <1>7, <1>8, <1>9

LEMMA RejectRequestStep ==
  ASSUME Inv, RejectRequest
  PROVE  (\A d \in End : EndInv(d)') /\ Dialling' /\ Accepting' /\ Response'
<1>0. /\ "client" \in End /\ "server" \in End /\ "client" # "server"
      /\ \A d \in End : d = "client" \/ d = "server"
  BY Ends2
<1>r. PICK answer \in {<<Frame("refusal"), Frame("fin")>>, <<Frame("fin")>>} :
        wire' = [wire EXCEPT !["server"] = <<>>,
                   !["client"] = IF Fits("client") THEN @ \o answer ELSE @]
  BY DEF RejectRequest
<1>1. /\ ep["server"].socket = "request" /\ stack["server"] = <<>>
      /\ wire["server"] # <<>> /\ Head(wire["server"]).kind = "request"
      /\ UNCHANGED <<freed, wrapper, queue, stack, backlog, dial, listed, dropped, said, heard, closes>>
  BY DEF RejectRequest, Idle, serverVars, logVars
<1>2. /\ Typed /\ EndInv("client") /\ EndInv("server") /\ Accepting /\ Response
      /\ ep \in [End -> EndpointRecord] /\ wire \in [End -> Seq(Item)]
  BY <1>0 DEF Inv, Typed, EndType, LineType
<1>3. ep'["server"] = Unplugged(ep["server"]) /\ ep'["client"] = ep["client"]
  <2>1. SetEp("server", Unplugged(ep["server"]))
    BY <1>2, ServerEpMoves
  <2> QED BY <1>0, <1>2, <2>1 DEF SetEp
<1>4. /\ wire'["server"] = <<>>
      /\ \/ wire'["client"] = wire["client"]
         \/ wire'["client"] = <<>> \o answer
  <2>1. wire'["client"] = IF Fits("client") THEN wire["client"] \o answer ELSE wire["client"]
    BY <1>0, <1>r, <1>2
  <2>2. Fits("client") => wire["client"] = <<>>
    BY <1>1, Asked DEF Fits
  <2>3. wire'["server"] = <<>>
    BY <1>0, <1>r, <1>2
  <2> QED BY <2>1, <2>2, <2>3
<1>5. EndInv("client")'
  BY <1>0, <1>1, <1>2, <1>3, Aside
<1>6. EndInv("server")'
  <2>1. ~Left("server")'
    BY <1>0, <1>1, Offering DEF Left
  <2>2. Gone("server")'
    BY <2>1 DEF Gone
  <2>3. /\ Kin(ep["server"], ep'["server"])
        /\ ep'["server"].pendingSendCount = ep["server"].pendingSendCount
        /\ ep'["server"].disposeRequested = ep["server"].disposeRequested
    BY <1>0, <1>2, <1>3, KinFacts, UnpluggedFacts
  <2> QED BY <1>0, <1>1, <1>2, <2>2, <2>3, Offering, EndKept
<1>7. Dialling'
  BY <1>1, Offering DEF Dialling
<1>8. \A d \in End : ~Has(stack'[d], "connect")
  <2>1. ~Has(<<>>, "connect")
    BY DEF Has
  <2> QED BY <1>0, <1>1, <1>2, <2>1 DEF Accepting
<1>9. Accepting'
  <2>1. ep'["server"].socket = "none"
    BY <1>0, <1>2, <1>3, UnpluggedFacts
  <2>2. wrapper'["client"] # "none"
    BY <1>1, <1>2 DEF Accepting
  <2> QED BY <1>8, <2>1, <2>2 DEF Accepting
<1>10. Response'
  <2>1. ~HasKind(wire'["server"], {"response", "ping"}) /\ \A i \in 1 .. Len(wire'["server"]) : FALSE
    BY <1>4 DEF HasKind
  <2>2. \A i \in 1 .. Len(wire'["client"]) : wire'["client"][i].kind # "response"
    <3>1. CASE wire'["client"] = wire["client"]
      BY <1>1, <3>1, Asked DEF Only
    <3>2. CASE wire'["client"] = <<>> \o answer
      <4>1. \/ wire'["client"] = <<Frame("refusal"), Frame("fin")>>
            \/ wire'["client"] = <<Frame("fin")>>
        <5>1. answer \in Seq(Item)
          BY <1>r, Items, Lines DEF Kind
        <5>2. <<>> \o answer = answer
          BY <5>1
        <5> QED BY <1>r, <3>2, <5>2
      <4> QED BY <4>1 DEF Frame
    <3> QED BY <1>4, <3>1, <3>2
  <2>3. ~HasKind(queue'["client"], {"ping"}) /\ ~HasKind(backlog'["client"], {"ping"})
    BY <1>1, <1>2 DEF Response
  <2> QED BY <1>0, <1>8, <2>1, <2>2, <2>3 DEF Response
<1> QED BY <1>0, <1>5, <1>6, <1>7, <1>9, <1>10

\* onconnect is about to return.
LEMMA Connecting ==
  ASSUME Inv, Top("server", "connect")
  PROVE  /\ ep["server"].socket = "request" /\ wrapper["server"] = "remembered"
         /\ ~HasKind(wire["server"], {"request"}) /\ Below("server") = <<>>
         /\ ~Has(stack["client"], "connect")
<1>0. "server" \in End /\ "client" \in End /\ "client" # "server" /\ Typed /\ Shape("server") /\ Accepting /\ Response
  BY Ends2 DEF Inv, EndInv
<1>1. stack["server"] = <<"connect">> /\ Below("server") = <<>>
  BY <1>0, BaseTop DEF Base
<1>2. Has(stack["server"], "connect")
  BY <1>1 DEF Has
<1> QED BY <1>0, <1>1, <1>2 DEF Accepting, Response

LEMMA ReturnConnectStep ==
  ASSUME Inv, ReturnConnect
  PROVE  (\A d \in End : EndInv(d)') /\ Dialling' /\ Accepting' /\ Response'
<1>0. /\ "client" \in End /\ "server" \in End /\ "client" # "server"
      /\ \A d \in End : d = "client" \/ d = "server"
  BY Ends2
<1>1. /\ Top("server", "connect") /\ queue' = [queue EXCEPT !["server"] = Append(@, Frame("open"))]
      /\ stack' = [stack EXCEPT !["server"] = Below("server")] /\ listed' = TRUE
      /\ UNCHANGED <<freed, wrapper, wire, backlog, dial, dropped, said, heard, closes>>
  BY DEF ReturnConnect, SetStack, Post, netVars, logVars
<1>2. /\ Typed /\ EndInv("client") /\ EndInv("server") /\ Accepting /\ Response
      /\ ep \in [End -> EndpointRecord] /\ queue \in [End -> Seq(Item)] /\ stack \in [End -> Seq(Place)]
  BY <1>0 DEF Inv, Typed, EndType, LineType
<1>3. /\ ep'["server"] = Joined(ep["server"]) /\ ep'["client"] = ep["client"]
      /\ ep["server"] \in EndpointRecord
  <2>1. SetEp("server", Joined(ep["server"]))
    BY <1>2, ServerEpMoves
  <2> QED BY <1>0, <1>2, <2>1 DEF SetEp
<1>4. /\ stack'["server"] = <<>> /\ stack'["client"] = stack["client"]
      /\ queue'["server"] = Append(queue["server"], Frame("open")) /\ queue'["client"] = queue["client"]
  BY <1>0, <1>1, <1>2, Connecting
<1>5. EndInv("client")'
  BY <1>0, <1>1, <1>2, <1>3, <1>4, Aside
<1>h. \A f : ~Has(<<>>, f)
  BY DEF Has
<1>6. EndInv("server")'
  <2>1. ~Left("server")'
    BY <1>0, <1>1, <1>4, <1>h, Connecting, Offering DEF Left
  <2>2. Gone("server")'
    BY <2>1 DEF Gone
  <2>3. Shape("server")'
    BY <1>4 DEF Shape, WellShaped
  <2>4. ~ep["server"].closeWasSent /\ ~ep["server"].closeWasReceived
    BY <1>1, Connecting, Offering DEF Fresh
  <2>5. ~ep["server"].cleanClose
    BY <1>2, <2>4 DEF EndInv, Handshake, Answers
  <2>6. Handshake("server")'
    BY <1>3, <1>4, <2>4, <2>5, JoinedFacts DEF Handshake, Answers
  <2>7. /\ Frame("open") \in Item /\ Frame("open").kind = "open"
        /\ Frame("open").kind \in {"open", "ping", "stop"} /\ Frame("open").kind \notin Sent
    BY Items DEF Kind, Sent
  <2>8. /\ ep'["server"].pendingSendCount = ep["server"].pendingSendCount
        /\ ep'["server"].closeWasSent = ep["server"].closeWasSent
        /\ ep'["server"].disposeRequested = ep["server"].disposeRequested
    BY <1>3, JoinedFacts
  <2>9. ~freed["server"] /\ backlog["server"] = <<>> /\ wrapper["server"] # "collected"
    BY <1>1, Connecting, Offering
  <2> QED BY <1>0, <1>1, <1>2, <1>4, <2>2, <2>3, <2>6, <2>7, <2>8, <2>9, Posting
<1>7. Dialling'
  BY <1>1, Connecting, Offering DEF Dialling
<1>8. \A d \in End : ~Has(stack'[d], "connect")
  BY <1>0, <1>1, <1>4, <1>h, Connecting
<1>9. Accepting'
  <2>1. ep'["server"].socket = "endpoint"
    BY <1>3, JoinedFacts
  <2>2. wrapper'["client"] # "none" /\ wrapper'["server"] # "none"
    BY <1>1, <1>2, Connecting DEF Accepting
  <2> QED BY <1>8, <2>1, <2>2 DEF Accepting
<1>10. Response'
  <2>1. \A i \in 1 .. Len(wire'["server"]) : wire'["server"][i].kind # "request"
    BY <1>1, Connecting DEF HasKind
  <2>2. Fresh("client") => Fresh("client")'
    BY <1>3, <1>4 DEF Fresh
  <2>3. \A i \in 1 .. Len(wire'["client"]) : wire'["client"][i].kind = "response" =>
          i = 1 /\ Fresh("client")' /\ ~HasKind(wire'["server"], {"request"})
    BY <1>1, <1>2, <2>2 DEF Response
  <2>4. /\ ~HasKind(queue'["client"], {"ping"}) /\ ~HasKind(backlog'["client"], {"ping"})
        /\ ~HasKind(wire'["server"], {"response", "ping"})
    BY <1>1, <1>2, <1>4 DEF Response
  <2> QED BY <1>0, <1>8, <2>1, <2>3, <2>4 DEF Response
<1> QED BY <1>0, <1>5, <1>6, <1>7, <1>9, <1>10

\* The server closes a socket that is no endpoint's.
LEMMA CutLine ==
  ASSUME Typed, FskNetSocketClose("server")
  PROVE  /\ wire'["server"] = <<>>
         /\ \A i \in 1 .. Len(wire'["client"]) :
              \/ i \in 1 .. Len(wire["client"]) /\ wire'["client"][i] = wire["client"][i]
              \/ wire'["client"][i].kind = "fin"
<1>0. /\ "server" \in End /\ Peer("server") = "client" /\ wire["client"] \in Seq(Item)
      /\ Frame("fin") \in Item /\ Frame("fin").kind = "fin"
  BY Ends2, Items DEF Typed, LineType, Kind
<1>1. Cuts("server")
  BY <1>0, CloseCuts
<1>2. CASE wire'["client"] = wire["client"]
  BY <1>0, <1>1, <1>2 DEF Cuts
<1>3. CASE wire'["client"] # wire["client"]
  <2>1. PICK k \in 0 .. Len(wire["client"]) :
          wire'["client"] = Append(SubSeq(wire["client"], 1, k), Frame("fin"))
    BY <1>0, <1>1, <1>3 DEF Cuts
  <2>2. /\ SubSeq(wire["client"], 1, k) \in Seq(Item) /\ Len(SubSeq(wire["client"], 1, k)) = k
        /\ \A x \in 1 .. k : SubSeq(wire["client"], 1, k)[x] = wire["client"][x]
    BY <1>0, PrefixFacts
  <2>3. /\ Len(wire'["client"]) = k + 1 /\ wire'["client"][k + 1] = Frame("fin")
        /\ \A x \in 1 .. k : wire'["client"][x] = wire["client"][x]
    BY <1>0, <2>1, <2>2
  <2>4. Len(wire["client"]) \in Nat /\ \A x \in 1 .. k : x \in 1 .. Len(wire["client"])
    BY <1>0
  <2>5. \A i \in 1 .. k + 1 : i = k + 1 \/ i \in 1 .. k
    BY <2>4
  <2> QED BY <1>0, <1>1, <2>3, <2>4, <2>5 DEF Cuts
<1> QED BY <1>2, <1>3

\* The socket of a request is closed again.
LEMMA Withdrawn ==
  ASSUME Inv, ep["server"].socket = "request", SetEp("server", Unplugged(ep["server"])),
         FskNetSocketClose("server"), stack'["server"] = <<>>, stack'["client"] = stack["client"],
         queue'["client"] = queue["client"], UNCHANGED <<wrapper, backlog, dial>>
  PROVE  Dialling' /\ Accepting' /\ Response'
<1>0. /\ "client" \in End /\ "server" \in End /\ "client" # "server"
      /\ \A d \in End : d = "client" \/ d = "server"
  BY Ends2
<1>1. /\ Typed /\ Accepting /\ Response /\ ep \in [End -> EndpointRecord]
  BY DEF Inv, Typed, EndType
<1>2. ep'["server"].socket = "none" /\ ep'["client"] = ep["client"]
  BY <1>0, <1>1, UnpluggedFacts DEF SetEp
<1>3. Dialling'
  BY Offering DEF Dialling
<1>4. \A d \in End : ~Has(stack'[d], "connect")
  <2>1. ~Has(<<>>, "connect")
    BY DEF Has
  <2>2. ~Has(stack["client"], "connect")
    BY <1>0, <1>1 DEF Accepting
  <2> QED BY <1>0, <2>1, <2>2
<1>5. Accepting'
  BY <1>1, <1>2, <1>4 DEF Accepting
<1>6. Response'
  <2>1. ~HasKind(wire'["server"], {"response", "ping"}) /\ \A i \in 1 .. Len(wire'["server"]) : FALSE
    BY <1>1, CutLine DEF HasKind
  <2>2. ~HasKind(wire'["server"], {"request"})
    BY <2>1 DEF HasKind
  <2>3. Fresh("client") => Fresh("client")'
    BY <1>2 DEF Fresh
  <2>4. \A i \in 1 .. Len(wire'["client"]) : wire'["client"][i].kind = "response" =>
          i = 1 /\ Fresh("client")'
    BY <1>1, <2>3, CutLine DEF Response
  <2>5. ~HasKind(queue'["client"], {"ping"}) /\ ~HasKind(backlog'["client"], {"ping"})
    BY <1>1 DEF Response
  <2> QED BY <1>0, <1>4, <2>1, <2>2, <2>4, <2>5 DEF Response
<1> QED BY <1>3, <1>5, <1>6

LEMMA ReturnUnhandledStep ==
  ASSUME Inv, ReturnUnhandled
  PROVE  (\A d \in End : EndInv(d)') /\ Dialling' /\ Accepting' /\ Response'
<1>0. /\ "client" \in End /\ "server" \in End /\ "client" # "server"
      /\ \A d \in End : d = "client" \/ d = "server"
  BY Ends2
<1>1. /\ Top("server", "connect") /\ FskNetSocketClose("server")
      /\ stack' = [stack EXCEPT !["server"] = Below("server")]
      /\ UNCHANGED <<freed, wrapper, queue, backlog, dial, listed, dropped, said, heard, closes>>
  BY DEF ReturnUnhandled, SetStack, serverVars, logVars
<1>2. /\ Typed /\ EndInv("client") /\ EndInv("server")
      /\ ep \in [End -> EndpointRecord] /\ stack \in [End -> Seq(Place)]
  BY <1>0 DEF Inv, Typed, EndType, LineType
<1>3. SetEp("server", Unplugged(ep["server"]))
  BY <1>2, ServerEpMoves
<1>4. /\ stack'["server"] = <<>> /\ stack'["client"] = stack["client"]
      /\ ep'["server"] = Unplugged(ep["server"]) /\ ep'["client"] = ep["client"]
      /\ ep["server"].socket = "request"
  BY <1>0, <1>1, <1>2, <1>3, Connecting DEF SetEp
<1>5. EndInv("client")'
  BY <1>0, <1>1, <1>2, <1>4, Aside
<1>6. EndInv("server")'
  <2>1. \A f : ~Has(<<>>, f)
    BY DEF Has
  <2>2. ~Left("server")'
    BY <1>0, <1>1, <1>4, <2>1, Offering DEF Left
  <2>3. Gone("server")'
    BY <2>2 DEF Gone
  <2>4. /\ Kin(ep["server"], ep'["server"])
        /\ ep'["server"].pendingSendCount = ep["server"].pendingSendCount
        /\ ep'["server"].disposeRequested = ep["server"].disposeRequested
    BY <1>0, <1>2, <1>4, KinFacts, UnpluggedFacts
  <2>5. <<>> \in Seq(Place) /\ WellShaped(<<>>)
    BY DEF WellShaped
  <2> QED BY <1>0, <1>1, <1>2, <1>4, <2>1, <2>3, <2>4, <2>5, Offering, EndKept
<1>7. Dialling' /\ Accepting' /\ Response'
  BY <1>1, <1>3, <1>4, Withdrawn
<1> QED BY <1>0, <1>5, <1>6, <1>7

\* A step of the server at an endpoint that is connected, or no more.
LEMMA ServerOnly ==
  ASSUME Inv, dial = "done", ep["server"].socket # "request",
         ep'["server"].socket = ep["server"].socket, ep'["client"] = ep["client"],
         stack'["client"] = stack["client"], ~Has(stack'["server"], "connect"),
         queue'["client"] = queue["client"], UNCHANGED <<wire, backlog, wrapper, dial>>
  PROVE  Dialling' /\ Accepting' /\ Response'
<1>0. /\ "client" \in End /\ "server" \in End /\ "client" # "server"
      /\ \A d \in End : d = "client" \/ d = "server"
  BY Ends2
<1>1. Accepting /\ Response
  BY DEF Inv
<1>2. Dialling'
  BY DEF Dialling
<1>3. \A d \in End : ~Has(stack'[d], "connect")
  BY <1>0, <1>1 DEF Accepting
<1>4. Accepting'
  BY <1>1, <1>3 DEF Accepting
<1>5. Response'
  <2>1. Fresh("client") => Fresh("client")'
    BY DEF Fresh
  <2>2. \A i \in 1 .. Len(wire'["server"]) : wire'["server"][i].kind # "request"
    BY <1>1 DEF Response
  <2>3. \A i \in 1 .. Len(wire'["client"]) : wire'["client"][i].kind = "response" =>
          i = 1 /\ Fresh("client")' /\ ~HasKind(wire'["server"], {"request"})
    BY <1>1, <2>1 DEF Response
  <2>4. /\ ~HasKind(queue'["client"], {"ping"}) /\ ~HasKind(backlog'["client"], {"ping"})
        /\ ~HasKind(wire'["server"], {"response", "ping"})
    BY <1>1 DEF Response
  <2> QED BY <1>0, <1>3, <2>2, <2>3, <2>4 DEF Response
<1> QED BY <1>2, <1>4, <1>5

\* The server disposes of itself, and of the socket of a request.
LEMMA ServerDisposeStep ==
  ASSUME Inv, KprWebSocketServerDispose
  PROVE  (\A d \in End : EndInv(d)') /\ Dialling' /\ Accepting' /\ Response'
<1>0. /\ "client" \in End /\ "server" \in End /\ "client" # "server"
      /\ \A d \in End : d = "client" \/ d = "server"
  BY Ends2
<1>1. /\ stack["server"] = <<>> /\ queue["server"] # <<>> /\ Head(queue["server"]).kind = "stop"
      /\ queue' = [queue EXCEPT !["server"] = Tail(@)]
      /\ UNCHANGED <<freed, wrapper, stack, backlog, dial, listed, dropped, said, heard, closes>>
  BY DEF KprWebSocketServerDispose, Called, Idle, Dequeue, logVars
<1>2. /\ Typed /\ EndInv("client") /\ EndInv("server") /\ Accepting /\ Response /\ Dialling
      /\ ep \in [End -> EndpointRecord] /\ queue \in [End -> Seq(Item)]
  BY <1>0 DEF Inv, Typed, EndType, LineType
<1>3. IF ep["server"].socket = "request"
      THEN SetEp("server", Unplugged(ep["server"])) /\ FskNetSocketClose("server")
      ELSE UNCHANGED <<ep, wire>>
  BY <1>2, ServerEpMoves
<1>4. queue'["server"] = Tail(queue["server"]) /\ queue'["client"] = queue["client"]
  BY <1>0, <1>1, <1>2
<1>5. /\ ep'["client"] = ep["client"]
      /\ ep'["server"] = ep["server"] \/ ep'["server"] = Unplugged(ep["server"])
      /\ ep'["server"] # ep["server"] => ep["server"].socket = "request"
  BY <1>0, <1>2, <1>3 DEF SetEp
<1>6. EndInv("client")'
  BY <1>0, <1>1, <1>2, <1>4, <1>5, Aside
<1>7. EndInv("server")'
  <2>1. /\ Kin(ep["server"], ep'["server"])
        /\ ep'["server"].pendingSendCount = ep["server"].pendingSendCount
        /\ ep'["server"].disposeRequested = ep["server"].disposeRequested
        /\ ep'["server"].socket \in {ep["server"].socket, "none"}
        /\ ep'["server"].closeWasReceived = ep["server"].closeWasReceived
    BY <1>0, <1>2, <1>5, KinFacts, UnpluggedFacts
  <2>2. Gone("server")'
    <3>1. Left("server")' <=> Left("server")
      BY <1>1 DEF Left
    <3>2. Gone("server")
      BY <1>2 DEF EndInv
    <3> QED BY <1>0, <1>1, <2>1, <3>1, <3>2 DEF Gone
  <2>3. ep'["server"] = ep["server"] \/ backlog["server"] = <<>>
    BY <1>5, Offering
  <2>4. Head(queue["server"]).kind \notin Sent
    BY <1>1 DEF Sent
  <2> QED BY <1>0, <1>1, <1>2, <1>4, <2>1, <2>2, <2>3, <2>4, TakingOff
<1>8. CASE ep["server"].socket = "request"
  <2>1. Dialling' /\ Accepting' /\ Response'
    BY <1>1, <1>3, <1>4, <1>8, Withdrawn
  <2> QED BY <1>0, <1>6, <1>7, <2>1
<1>9. CASE ep["server"].socket # "request"
  <2>1. ep' = ep /\ wire' = wire
    BY <1>3, <1>9
  <2>2. Dialling'
    <3>1. CASE dial = "done"
      BY <1>1, <3>1 DEF Dialling
    <3>2. CASE dial # "done"
      <4>1. \A d \in End : ~Left(d)'
        BY <1>1, <3>2, Before DEF Left
      <4>2. Fresh("client")'
        BY <1>1, <2>1, <3>2, Before DEF Fresh
      <4>3. Only(queue'["server"], {"stop"})
        <5>1. Only(queue["server"], {"stop"})
          BY <3>2, Before
        <5> QED BY <1>0, <1>1, <1>2, <1>4, <5>1, OnlyTail
      <4> QED BY <1>1, <1>4, <2>1, <3>2, <4>1, <4>2, <4>3, Before DEF Dialling
    <3> QED BY <3>1, <3>2
  <2>3. Accepting'
    BY <1>1, <1>2, <1>9, <2>1 DEF Accepting
  <2>4. Response'
    <3>1. Fresh("client") => Fresh("client")'
      BY <1>1, <2>1 DEF Fresh
    <3> QED BY <1>1, <1>2, <1>4, <2>1, <3>1 DEF Response
  <2> QED BY <1>0, <1>6, <1>7, <2>2, <2>3, <2>4
<1> QED BY <1>8, <1>9

\* A listed endpoint is connected and has a script object.
LEMMA ListedFacts ==
  ASSUME Inv, listed
  PROVE  /\ ~Left("server") /\ dial = "done" /\ ep["server"].socket # "request" /\ ~freed["server"]
         /\ ~ep["server"].disposeRequested /\ wrapper["server"] # "collected"
         /\ \A i \in 1 .. Len(queue["server"]) : queue["server"][i].kind # "dispose"
<1>1. "server" \in End /\ EndInv("server") /\ Dialling /\ Accepting
  BY Ends2 DEF Inv
<1>2. ~Left("server") /\ dial = "done" /\ ep["server"].socket # "request"
  BY <1>1 DEF EndInv, Gone, Dialling, Accepting
<1>3. wrapper["server"] # "collected"
  BY <1>2 DEF Left
<1>4. /\ ~freed["server"] /\ ~ep["server"].disposeRequested
      /\ \A i \in 1 .. Len(queue["server"]) : queue["server"][i].kind # "dispose"
  BY <1>1, <1>3 DEF EndInv, Disposal
<1> QED BY <1>2, <1>3, <1>4

LEMMA PingStep ==
  ASSUME Inv, KPR_websocketserver_timeToPing
  PROVE  (\A d \in End : EndInv(d)') /\ Dialling' /\ Accepting' /\ Response'
<1>0. /\ "client" \in End /\ "server" \in End /\ "client" # "server"
      /\ \A d \in End : d = "client" \/ d = "server"
  BY Ends2
<1>1. /\ stack["server"] = <<>> /\ listed /\ SendRawFrame("server", Frame("ping"), <<>>)
      /\ UNCHANGED <<freed, wrapper, wire, backlog, dial, listed, dropped, said, heard, closes>>
  BY DEF KPR_websocketserver_timeToPing, Idle, netVars, serverVars
<1>2. /\ Typed /\ EndInv("client") /\ EndInv("server") /\ ep["server"] \in EndpointRecord
      /\ ep \in [End -> EndpointRecord] /\ queue \in [End -> Seq(Item)] /\ stack \in [End -> Seq(Place)]
  BY <1>0 DEF Inv, Typed, EndType, LineType
<1>3. /\ ep'["client"] = ep["client"] /\ stack'["client"] = stack["client"] /\ queue'["client"] = queue["client"]
      /\ \/ /\ ep'["server"] = More(ep["server"]) /\ stack'["server"] = <<>>
            /\ queue'["server"] = Append(queue["server"], Frame("ping"))
         \/ /\ ep'["server"] = ep["server"] /\ stack'["server"] = <<"error">>
            /\ queue'["server"] = queue["server"]
  BY <1>0, <1>1, <1>2 DEF SendRawFrame, CallError, Post, SetEp, SetStack
<1>4. /\ \A f : ~Has(<<>>, f) /\ (Has(<<"error">>, f) => f = "error")
      /\ <<"error">> \in Seq(Place) /\ WellShaped(<<"error">>) /\ WellShaped(<<>>)
  BY DEF Has, Place, WellShaped
<1>5. EndInv("client")'
  BY <1>0, <1>1, <1>2, <1>3, Aside
<1>6. ep'["server"].socket = ep["server"].socket /\ ~Has(stack'["server"], "connect")
  <2>1. More(ep["server"]).socket = ep["server"].socket
    BY <1>2, MoreFacts
  <2>2. ~Has(<<>>, "connect") /\ ~Has(<<"error">>, "connect")
    BY <1>4
  <2> QED BY <1>3, <2>1, <2>2
<1>7. Gone("server")'
  <2>1. ~Left("server")'
    BY <1>1, <1>3, <1>4, ListedFacts DEF Left
  <2> QED BY <2>1 DEF Gone
<1>8. EndInv("server")'
  <2>1. ~HasKind(queue["server"], {"start"}) /\ Handshake("server")
    BY <1>0, <1>2 DEF EndInv, Posted
  <2>2. ASSUME ep'["server"] = More(ep["server"]), stack'["server"] = <<>>,
               queue'["server"] = Append(queue["server"], Frame("ping"))
        PROVE  EndInv("server")'
    <3>1. Shape("server")'
      BY <1>4, <2>2 DEF Shape
    <3>2. Handshake("server")'
      <4>1. Answers(<<>>, ep["server"])
        BY <1>1, <2>1 DEF Handshake
      <4>2. Kin(ep["server"], More(ep["server"]))
        BY <1>2, KinFacts
      <4>3. Answers(<<>>, More(ep["server"]))
        <5>1. <<>> \in Seq(Place)
          OBVIOUS
        <5> QED BY <1>2, <4>1, <4>2, <5>1, AnswersFacts
      <4> QED BY <2>2, <4>3 DEF Handshake
    <3>3. /\ Frame("ping") \in Item /\ Frame("ping").kind = "ping" /\ Frame("ping").kind \in Sent
          /\ Frame("ping").kind \in {"open", "ping", "stop"}
      BY Items DEF Kind, Sent
    <3>4. /\ ep'["server"].pendingSendCount = (ep["server"].pendingSendCount + 1) % 256
          /\ ep'["server"].closeWasSent = ep["server"].closeWasSent
          /\ ep'["server"].disposeRequested = ep["server"].disposeRequested
      BY <1>2, <2>2, MoreFacts
    <3> QED BY <1>0, <1>1, <1>2, <1>6, <1>7, <2>1, <2>2, <3>1, <3>2, <3>3, <3>4, ListedFacts, Posting
  <2>3. ASSUME ep'["server"] = ep["server"], stack'["server"] = <<"error">>,
               queue'["server"] = queue["server"]
        PROVE  EndInv("server")'
    <3>1. Kin(ep["server"], ep'["server"]) /\ ~Has(stack'["server"], "closing")
      BY <1>2, <1>4, <2>3, KinFacts
    <3> QED BY <1>0, <1>1, <1>2, <1>4, <1>7, <2>1, <2>3, <3>1, ListedFacts, EndKept
  <2> QED BY <1>3, <2>2, <2>3
<1>9. Dialling' /\ Accepting' /\ Response'
  BY <1>1, <1>3, <1>6, ListedFacts, ServerOnly
<1> QED BY <1>0, <1>5, <1>8, <1>9

LEMMA InterfaceDropStep ==
  ASSUME Inv, KPR_WebSocketServer_onInterfaceDrop
  PROVE  (\A d \in End : EndInv(d)') /\ Dialling' /\ Accepting' /\ Response'
<1>0. /\ "client" \in End /\ "server" \in End /\ "client" # "server"
      /\ \A d \in End : d = "client" \/ d = "server"
  BY Ends2
<1>1. /\ listed /\ dropped' = TRUE /\ listed' = FALSE
      /\ closes' = [closes EXCEPT !["server"] = IF Callable("server") THEN @ + 1 ELSE @]
      /\ stack' = [stack EXCEPT !["server"] = Append(<<>>, "close")]
      /\ UNCHANGED <<ep, freed, wrapper, queue, wire, backlog, dial, said, heard>>
  BY DEF KPR_WebSocketServer_onInterfaceDrop, CallClose, SetStack, netVars
<1>2. /\ Typed /\ EndInv("client") /\ EndInv("server") /\ ep["server"] \in EndpointRecord
      /\ closes \in [End -> Nat] /\ stack \in [End -> Seq(Place)]
  BY <1>0 DEF Inv, Typed, EndType, LineType, LogType
<1>3. /\ closes'["client"] = closes["client"] /\ stack'["client"] = stack["client"]
      /\ stack'["server"] = <<"close">>
  BY <1>0, <1>1, <1>2
<1>4. /\ \A f : Has(<<"close">>, f) => f = "close"
      /\ <<"close">> \in Seq(Place) /\ WellShaped(<<"close">>)
  BY DEF Has, Place, WellShaped
<1>5. EndInv("client")'
  BY <1>0, <1>1, <1>2, <1>3, Aside
<1>6. EndInv("server")'
  <2>1. Gone("server")'
    BY <1>0, <1>1, ListedFacts DEF Gone
  <2>2. Kin(ep["server"], ep'["server"]) /\ ~Has(stack'["server"], "closing")
    BY <1>1, <1>2, <1>3, <1>4, KinFacts
  <2> QED BY <1>0, <1>1, <1>2, <1>3, <1>4, <2>1, <2>2, ListedFacts, EndKept
<1>7. Dialling' /\ Accepting' /\ Response'
  BY <1>1, <1>3, <1>4, ListedFacts, ServerOnly
<1> QED BY <1>0, <1>5, <1>6, <1>7

LEMMA BreakStep ==
  ASSUME Inv, Break
  PROVE  (\A d \in End : EndInv(d)') /\ Dialling' /\ Accepting' /\ Response'
<1>0. /\ "client" \in End /\ "server" \in End /\ "client" # "server"
      /\ \A d \in End : d = "client" \/ d = "server"
  BY Ends2
<1>1. /\ UNCHANGED <<ep, freed, wrapper, queue, stack, backlog, dial, listed, dropped, said, heard, closes>>
      /\ \A d \in End : Fits(d)
      /\ \E e \in End, told \in {<<>>, <<Frame("fail")>>} :
           wire' = [wire EXCEPT ![e] = told \o <<Frame("fin")>>, ![Peer(e)] = <<Frame("fin")>>]
  BY DEF Break, serverVars, logVars
<1>2. /\ Typed /\ (\A d \in End : EndInv(d)) /\ Accepting /\ Response /\ wire \in [End -> Seq(Item)]
  BY DEF Inv, Typed, LineType
<1>3. \A d \in End : EndInv(d)'
  BY <1>1, <1>2, Aside
<1>4. dial = "done"
  BY <1>0, <1>1, Before DEF Fits
<1>5. \A d \in End : Only(wire'[d], {"fin", "fail"})
  <2>1. PICK e \in End, told \in {<<>>, <<Frame("fail")>>} :
          wire' = [wire EXCEPT ![e] = told \o <<Frame("fin")>>, ![Peer(e)] = <<Frame("fin")>>]
    BY <1>1
  <2>2. /\ Frame("fin") \in Item /\ Frame("fail") \in Item /\ Frame("fin").kind = "fin"
        /\ Frame("fail").kind = "fail"
    BY Items DEF Kind
  <2>3. Only(told \o <<Frame("fin")>>, {"fin", "fail"}) /\ Only(<<Frame("fin")>>, {"fin", "fail"})
    BY <2>1, <2>2 DEF Only
  <2>4. \A d \in End : wire'[d] = told \o <<Frame("fin")>> \/ wire'[d] = <<Frame("fin")>>
    BY <1>2, <2>1, Ends2
  <2> QED BY <2>3, <2>4
<1>6. \A d \in End : \A i \in 1 .. Len(wire'[d]) :
        wire'[d][i].kind \notin {"text", "close", "ping", "request", "response"}
  BY <1>5 DEF Only
<1>7. Dialling'
  BY <1>1, <1>4 DEF Dialling
<1>8. Accepting'
  <2>1. ~HasKind(wire'["client"], {"text", "close"})
    BY <1>0, <1>6 DEF HasKind
  <2>2. Fresh("server") => Fresh("server")'
    BY <1>1 DEF Fresh
  <2> QED BY <1>1, <1>2, <2>1, <2>2 DEF Accepting
<1>9. Response'
  <2>1. ~HasKind(wire'["server"], {"response", "ping"}) /\ ~HasKind(wire'["server"], {"request"})
    BY <1>0, <1>6 DEF HasKind
  <2>2. /\ \A i \in 1 .. Len(wire'["server"]) : wire'["server"][i].kind # "request"
        /\ \A i \in 1 .. Len(wire'["client"]) : wire'["client"][i].kind # "response"
    BY <1>0, <1>6
  <2> QED BY <1>1, <1>2, <2>1, <2>2 DEF Response
<1> QED BY <1>3, <1>7, <1>8, <1>9

\* The server is destroyed: its endpoint, if it is open, is closed.
LEMMA ServerGoneStep ==
  ASSUME Inv, KPR_websocketserver
  PROVE  (\A d \in End : EndInv(d)') /\ Dialling' /\ Accepting' /\ Response'
<1> DEFINE q == queue["server"]
           r == ep["server"]
           open == listed /\ ep["server"].state = "open"
<1>0. /\ "client" \in End /\ "server" \in End /\ "client" # "server"
      /\ \A d \in End : d = "client" \/ d = "server"
  BY Ends2
<1>1. /\ stack["server"] = <<>> /\ listed' = FALSE
      /\ queue' = [queue EXCEPT !["server"] =
                     @ \o (IF open THEN <<Frame("close")>> ELSE <<>>) \o <<Frame("stop")>>]
      /\ UNCHANGED <<freed, wrapper, stack, wire, backlog, dial, dropped, said, heard, closes>>
  BY DEF KPR_websocketserver, Idle, netVars, logVars
<1>2. /\ Typed /\ EndInv("client") /\ EndInv("server") /\ r \in EndpointRecord /\ q \in Seq(Item)
      /\ ep \in [End -> EndpointRecord] /\ queue \in [End -> Seq(Item)]
      /\ Dialling /\ Accepting /\ Response
  BY <1>0 DEF Inv, Typed, EndType, LineType
<1>3. IF open THEN SetEp("server", Stopped(More(r))) ELSE UNCHANGED ep
  BY <1>2, ServerEpMoves
<1>4. /\ ep'["client"] = ep["client"] /\ queue'["client"] = queue["client"]
      /\ open => ep'["server"] = Stopped(More(r)) 
      /\ ~open => ep' = ep
  BY <1>0, <1>1, <1>2, <1>3 DEF SetEp
<1>f. /\ Frame("close") \in Item /\ Frame("close").kind = "close" /\ Frame("stop") \in Item
      /\ Frame("stop").kind = "stop" /\ "close" \in Sent /\ "stop" \notin Sent
  BY Items DEF Kind, Sent
<1>5. /\ open => queue'["server"] = Append(Append(q, Frame("close")), Frame("stop"))
      /\ ~open => queue'["server"] = Append(q, Frame("stop"))
  <2>1. queue'["server"] = q \o (IF open THEN <<Frame("close")>> ELSE <<>>) \o <<Frame("stop")>>
    BY <1>0, <1>1, <1>2
  <2>2. \A s \in Seq(Item), f \in Item : s \o <<f>> = Append(s, f) /\ Append(s, f) \in Seq(Item)
    OBVIOUS
  <2>3. q \o <<>> = q
    BY <1>2
  <2>4. CASE open
    BY <1>2, <1>f, <2>1, <2>2, <2>4
  <2>5. CASE ~open
    BY <1>2, <1>f, <2>1, <2>2, <2>3, <2>5
  <2> QED BY <2>4, <2>5
<1>6. EndInv("client")'
  BY <1>0, <1>1, <1>2, <1>4, Aside
<1>7. ~HasKind(q, {"start"}) /\ Posted("server") /\ Handshake("server") /\ Counted("server") /\ Gone("server")
      /\ Shape("server")
  BY <1>0, <1>2 DEF EndInv, Posted
<1>8. CASE ~open
  <2>1. Gone("server")'
    <3>1. Left("server")' <=> Left("server")
      BY <1>1 DEF Left
    <3> QED BY <1>0, <1>1, <1>4, <1>7, <1>8, <3>1 DEF Gone
  <2>2. Shape("server")' /\ Handshake("server")'
    BY <1>1, <1>4, <1>7, <1>8 DEF Shape, Handshake
  <2>3. freed["server"] => ep["server"].socket = "none"
    BY <1>2 DEF EndInv, Disposal
  <2>4. EndInv("server")'
    BY <1>0, <1>1, <1>2, <1>4, <1>5, <1>7, <1>8, <1>f, <2>1, <2>2, <2>3, Posting
  <2>5. Only(q, {"stop"}) => Only(queue'["server"], {"stop"})
    BY <1>2, <1>5, <1>8, <1>f, OnlyAppend
  <2>6. /\ Fresh("client") => Fresh("client")'
        /\ Fresh("server") => Fresh("server")'
    BY <1>1, <1>4, <1>8 DEF Fresh
  <2>7. Dialling'
    <3>1. CASE dial = "done"
      BY <1>1, <3>1 DEF Dialling
    <3>2. CASE dial # "done"
      <4>1. \A d \in End : ~Left(d)'
        BY <1>1, <3>2, Before DEF Left
      <4> QED BY <1>1, <1>4, <1>8, <2>5, <2>6, <3>2, <4>1, Before DEF Dialling
    <3> QED BY <3>1, <3>2
  <2>8. Accepting'
    BY <1>1, <1>2, <1>4, <1>8, <2>5, <2>6 DEF Accepting
  <2>9. Response'
    BY <1>1, <1>2, <1>4, <1>8, <2>6 DEF Response
  <2> QED BY <1>0, <1>6, <2>4, <2>7, <2>8, <2>9
<1>9. CASE open
  <2>0. /\ More(r) \in EndpointRecord /\ Stopped(More(r)) \in EndpointRecord
        /\ ep'["server"].state = "closing" /\ ep'["server"].closeWasSent = TRUE
        /\ ep'["server"].closeWasReceived = r.closeWasReceived /\ ep'["server"].cleanClose = r.cleanClose
        /\ ep'["server"].socket = r.socket /\ ep'["server"].disposeRequested = r.disposeRequested
        /\ ep'["server"].pendingSendCount = (r.pendingSendCount + 1) % 256
    <3>1. More(r) \in EndpointRecord
      BY <1>2, MoreFacts
    <3>2. /\ More(r).closeWasReceived = r.closeWasReceived /\ More(r).cleanClose = r.cleanClose
          /\ More(r).socket = r.socket /\ More(r).disposeRequested = r.disposeRequested
          /\ More(r).pendingSendCount = (r.pendingSendCount + 1) % 256
      BY <1>2, MoreFacts
    <3>3. LET t == Stopped(More(r)) IN
          /\ t \in EndpointRecord /\ t.state = "closing" /\ t.closeWasSent = TRUE
          /\ t.closeWasReceived = More(r).closeWasReceived /\ t.cleanClose = More(r).cleanClose
          /\ t.socket = More(r).socket /\ t.disposeRequested = More(r).disposeRequested
          /\ t.pendingSendCount = More(r).pendingSendCount
      BY <3>1, StoppedFacts
    <3>4. ep'["server"] = Stopped(More(r))
      BY <1>4, <1>9
    <3> QED BY <3>1, <3>2, <3>3, <3>4
  <2>1. /\ ~r.closeWasSent /\ ~r.closeWasReceived
    BY <1>7, <1>9 DEF Handshake, Answers, Late
  <2>2. ~r.cleanClose
    BY <1>7, <2>1 DEF Handshake, Answers
  <2>3. /\ ~freed["server"] /\ ~r.disposeRequested /\ dial = "done" /\ r.socket # "request"
        /\ ~Left("server") /\ \A i \in 1 .. Len(q) : q[i].kind # "dispose"
    BY <1>9, ListedFacts
  <2>4. Gone("server")'
    <3>1. ~Left("server")'
      BY <1>1, <2>3 DEF Left
    <3> QED BY <3>1 DEF Gone
  <2>5. Shape("server")'
    BY <1>1, <1>7 DEF Shape
  <2>6. Handshake("server")'
    <3>1. ~Has(<<>>, "closing") /\ \A i \in 1 .. Len(<<>>) : FALSE
      BY DEF Has
    <3>2. stack'["server"] = <<>>
      BY <1>1
    <3> QED BY <2>0, <2>1, <2>2, <3>1, <3>2 DEF Handshake, Answers, Late
  <2>7. /\ Append(q, Frame("close")) \in Seq(Item)
        /\ queue'["server"] = Append(Append(q, Frame("close")), Frame("stop"))
    BY <1>2, <1>5, <1>9, <1>f, Lines
  <2>8. Counted("server")'
    <3>1. SentCount(queue'["server"]) = SentCount(q) + 1
      <4>1. SentCount(Append(q, Frame("close"))) = SentCount(q) + 1
        BY <1>2, <1>f, CountAppend
      <4> QED BY <1>f, <2>7, <4>1, CountAppend
    <3>2. r.pendingSendCount = SentCount(q) % 256
      BY <1>7 DEF Counted
    <3>3. ((SentCount(q) % 256) + 1) % 256 = (SentCount(q) + 1) % 256
      BY <1>2, CountNat, Mod256
    <3>4. ep'["server"].pendingSendCount = SentCount(queue'["server"]) % 256
      BY <2>0, <3>1, <3>2, <3>3
    <3> QED BY <3>4 DEF Counted
  <2>9. Posted("server")'
    <3> DEFINE K == Sent \union {"start", "open", "dispose", "stop"}
    <3>1. Only(q, K) /\ OneClose(q, FALSE) /\ "close" \in K /\ "stop" \in K
      BY <1>7, <2>1 DEF Posted, OneClose, Sent
    <3>2. Only(Append(q, Frame("close")), K) /\ OneClose(Append(q, Frame("close")), TRUE)
      BY <1>2, <1>f, <3>1, OnlyAppend, OneCloseFacts
    <3>3. Only(queue'["server"], K) /\ OneClose(queue'["server"], TRUE)
      BY <1>f, <2>7, <3>1, <3>2, OnlyAppend, OneCloseFacts
    <3>4. ~HasKind(queue'["server"], {"start"})
      <4>1. ~HasKind(Append(q, Frame("close")), {"start"})
        BY <1>2, <1>7, <1>f, HasAppend
      <4> QED BY <1>f, <2>7, <4>1, HasAppend
    <3>5. /\ Only(backlog'["server"], Sent)
          /\ backlog'["server"] # <<>> => ep'["server"].socket = "endpoint"
      BY <1>1, <1>7, <2>0 DEF Posted
    <3>6. \A i \in 1 .. Len(queue'["server"]) : queue'["server"][i].kind = "close" =>
            /\ ep'["server"].closeWasSent
            /\ \A j \in 1 .. Len(queue'["server"]) : queue'["server"][j].kind = "close" => i = j
      BY <2>0, <3>3 DEF OneClose
    <3> QED BY <3>3, <3>4, <3>5, <3>6 DEF Posted
  <2>10. Disposal("server")'
    <3>1. ~HasKind(queue'["server"], {"dispose"})
      <4>1. ~HasKind(q, {"dispose"})
        BY <2>3 DEF HasKind
      <4>2. ~HasKind(Append(q, Frame("close")), {"dispose"})
        BY <1>2, <1>f, <4>1, HasAppend
      <4> QED BY <1>f, <2>7, <4>2, HasAppend
    <3>2. \A i \in 1 .. Len(queue'["server"]) : queue'["server"][i].kind # "dispose"
      BY <3>1 DEF HasKind
    <3> QED BY <1>1, <2>0, <2>3, <3>2 DEF Disposal
  <2>11. EndInv("server")'
    BY <2>4, <2>5, <2>6, <2>8, <2>9, <2>10 DEF EndInv
  <2>12. Dialling' /\ Accepting' /\ Response'
    <3>1. ~Has(stack'["server"], "connect")
      BY <1>1 DEF Has
    <3> QED BY <1>1, <1>4, <2>0, <2>3, <3>1, ServerOnly
  <2> QED BY <1>0, <1>6, <2>11, <2>12
<1> QED BY <1>8, <1>9

-----------------------------------------------------------------------------
(* The invariant holds in every state. *)

LEMMA InvInit ==
  ASSUME Init
  PROVE  Inv
<1> USE DEF Init
<1>0. End = {"client", "server"} /\ "client" \in End /\ "server" \in End
  BY Ends2
<1>1. /\ Frame("start") \in Item /\ Frame("start").kind = "start"
      /\ Endpoint0 \in EndpointRecord
      /\ Endpoint0.state = "connecting" /\ Endpoint0.socket = "none" /\ Endpoint0.pendingSendCount = 0
      /\ Endpoint0.closeWasSent = FALSE /\ Endpoint0.closeWasReceived = FALSE
      /\ Endpoint0.cleanClose = FALSE /\ Endpoint0.disposeRequested = FALSE
  BY Items DEF Kind, Endpoint0, EndpointRecord
<1>2. \A d \in End : /\ ep[d] = Endpoint0 /\ ~freed[d] /\ stack[d] = <<>> /\ wire[d] = <<>>
                     /\ backlog[d] = <<>> /\ said[d] = 0 /\ heard[d] = <<>> /\ closes[d] = 0
                     /\ wrapper[d] = IF d = "client" THEN "remembered" ELSE "none"
                     /\ queue[d] = IF d = "client" THEN <<Frame("start")>> ELSE <<>>
  OBVIOUS
<1>3. Typed
  <2>1. EndType
    BY <1>1 DEF EndType
  <2>2. LineType
    BY <1>1 DEF LineType
  <2>3. LogType
    <3>1. said \in [End -> Nat] /\ closes \in [End -> Nat]
      OBVIOUS
    <3>2. heard \in [End -> Seq(Nat)]
      OBVIOUS
    <3>3. listed \in BOOLEAN /\ dropped \in BOOLEAN
      OBVIOUS
    <3> QED BY <3>1, <3>2, <3>3 DEF LogType
  <2> QED BY <2>1, <2>2, <2>3 DEF Typed
<1>4. /\ \A f : ~Has(<<>>, f)
      /\ \A K : ~HasKind(<<>>, K) /\ Only(<<>>, K)
      /\ \A i \in 1 .. Len(<<>>) : FALSE
      /\ \A i \in 1 .. Len(<<Frame("start")>>) : <<Frame("start")>>[i].kind = "start"
  BY <1>1 DEF Has, HasKind, Only
<1>5. ASSUME NEW d \in End PROVE EndInv(d)
  <2>0. \A i \in 1 .. Len(queue[d]) : queue[d][i].kind = "start" /\ d = "client"
    BY <1>2, <1>4
  <2>1. Shape(d)
    BY <1>2, <1>4 DEF Shape, WellShaped
  <2>2. Handshake(d)
    BY <1>1, <1>2, <1>4 DEF Handshake, Answers
  <2>3. Counted(d)
    <3>1. SentCount(queue[d]) = 0
      <4>1. {i \in 1 .. Len(queue[d]) : queue[d][i].kind \in Sent} = {}
        BY <2>0 DEF Sent
      <4> QED BY <4>1, FS_EmptySet DEF SentCount
    <3> QED BY <1>1, <1>2, <3>1 DEF Counted
  <2>4. Posted(d)
    <3>1. Only(queue[d], Sent \union {"start", "open", "dispose", "stop"})
      BY <2>0 DEF Only
    <3>2. HasKind(queue[d], {"start"}) => d = "client" /\ dial = "idle"
      BY <2>0 DEF HasKind
    <3> QED BY <1>2, <1>4, <2>0, <3>1, <3>2 DEF Posted
  <2>5. Disposal(d)
    BY <1>1, <1>2, <2>0 DEF Disposal
  <2>6. Gone(d)
    BY <1>2, <1>4 DEF Gone, Left
  <2> QED BY <2>1, <2>2, <2>3, <2>4, <2>5, <2>6 DEF EndInv
<1>6. Dialling
  <2>1. Fresh("client")
    BY <1>0, <1>1, <1>2, <1>4 DEF Fresh
  <2>2. \A d \in End : ~Left(d)
    BY <1>2, <1>4 DEF Left
  <2> QED BY <1>0, <1>1, <1>2, <1>4, <2>1, <2>2 DEF Dialling
<1>7. Accepting
  BY <1>0, <1>1, <1>2, <1>4 DEF Accepting
<1>8. Response
  <2>1. ~HasKind(queue["client"], {"ping"})
    BY <1>0, <1>1, <1>2 DEF HasKind
  <2> QED BY <1>0, <1>2, <1>4, <2>1 DEF Response
<1> QED BY <1>3, <1>5, <1>6, <1>7, <1>8 DEF Inv

LEMMA InvStep ==
  ASSUME Inv, Next
  PROVE  Inv'
<1>1. Typed'
  BY TypedStep DEF Inv
<1>2. (\A d \in End : EndInv(d)') /\ Dialling' /\ Accepting' /\ Response'
  <2>1. ASSUME NEW e \in End, Script(e) \/ Loop(e)
        PROVE  (\A d \in End : EndInv(d)') /\ Dialling' /\ Accepting' /\ Response'
    BY <2>1, EndStep
  <2>2. ASSUME StartConnect \/ Connects
        PROVE  (\A d \in End : EndInv(d)') /\ Dialling' /\ Accepting' /\ Response'
    BY <2>2, StartConnectStep, ConnectNoneStep, ConnectStep, ConnectRefusedStep,
       ConnectUnsentStep, ConnectCancelledStep DEF Connects
  <2>3. ASSUME Accepts
        PROVE  (\A d \in End : EndInv(d)') /\ Dialling' /\ Accepting' /\ Response'
    BY <2>3, HandleRequestStep, RejectRequestStep, ReturnConnectStep, ReturnUnhandledStep,
       ServerDisposeStep DEF Accepts
  <2> QED BY <2>1, <2>2, <2>3, PingStep, InterfaceDropStep, ServerGoneStep, BreakStep DEF Next
<1> QED BY <1>1, <1>2 DEF Inv

LEMMA Invariance == Spec => []Inv
<1>1. Init => Inv
  BY InvInit
<1>2. Inv /\ [Next]_vars => Inv'
  <2>1. ASSUME Inv, UNCHANGED vars PROVE Inv'
    <3>0. /\ UNCHANGED <<ep, freed, wrapper, queue, stack, wire, backlog, dial>>
          /\ UNCHANGED <<server, listed, dropped, said, heard, closes, errored>>
          /\ Typed /\ Dialling /\ Accepting /\ Response /\ \A d \in End : EndInv(d)
      BY <2>1 DEF vars, netVars, serverVars, logVars, Inv
    <3>1. Typed'
      BY <3>0 DEF Typed, EndType, LineType, LogType
    <3>2. \A d \in End : EndInv(d)'
      BY <3>0, Aside
    <3>3. \A d \in End : (Left(d)' <=> Left(d)) /\ (Fresh(d)' <=> Fresh(d))
      BY <3>0 DEF Left, Fresh
    <3>4. Dialling'
      BY <3>0, <3>3, Ends2 DEF Dialling
    <3>5. Accepting'
      BY <3>0, <3>3, Ends2 DEF Accepting
    <3>6. Response'
      BY <3>0, <3>3, Ends2 DEF Response
    <3> QED BY <3>1, <3>2, <3>4, <3>5, <3>6 DEF Inv
  <2> QED BY <2>1, InvStep
<1> QED BY <1>1, <1>2, PTL DEF Spec

\* The frames that failing writes have dropped: they only become more.
LossType == lost \in [End -> SUBSET (Sent \union {"request"})]

LEMMA LossStep ==
  ASSUME Inv, LossType, Next
  PROVE  LossType' /\ \A d \in End : lost[d] \subseteq lost'[d]
<1>0. "client" \in End
  BY Ends2
<1>1. CASE lost' = lost
  BY <1>1 DEF LossType
<1>2. ASSUME NEW e \in End, NEW K \in SUBSET (Sent \union {"request"}), Drops(e, K)
      PROVE  LossType' /\ \A d \in End : lost[d] \subseteq lost'[d]
  <2>1. lost' = [lost EXCEPT ![e] = @ \union K]
    BY <1>2 DEF Drops
  <2> QED BY <1>2, <2>1 DEF LossType
<1>3. ASSUME ConnectCallback_unsent PROVE Drops("client", {"request"})
  BY <1>3 DEF ConnectCallback_unsent
<1>4. ASSUME NEW e \in End, SendBytesError(e)
      PROVE  \E K \in SUBSET (Sent \union {"request"}) : Drops(e, K)
  <2>1. Drops(e, {Head(queue[e]).kind}) /\ Head(queue[e]).kind \in Sent
    BY <1>4 DEF SendBytesError, Called
  <2> QED BY <2>1
<1>5. ASSUME NEW e \in End, DataWriterError(e)
      PROVE  \E K \in SUBSET (Sent \union {"request"}) : Drops(e, K)
  <2>1. Drops(e, {backlog[e][i].kind : i \in DOMAIN backlog[e]})
    BY <1>5 DEF DataWriterError
  <2>2. backlog[e] \in Seq(Item) /\ Only(backlog[e], Sent)
    BY <1>5 DEF Inv, EndInv, Posted, Typed, LineType
  <2>3. \A i \in DOMAIN backlog[e] : backlog[e][i].kind \in Sent
    BY <2>2 DEF Only
  <2>4. {backlog[e][i].kind : i \in DOMAIN backlog[e]} \in SUBSET (Sent \union {"request"})
    BY <2>3
  <2> QED BY <2>1, <2>4
<1>6. ASSUME NEW e \in End, Script(e) PROVE lost' = lost
  BY <1>6 DEF Script, KPR_websocketclient_send, KPR_websocketclient_close, KPR_websocketclient,
     boundVars
<1>7. ASSUME NEW e \in End, Calls(e) PROVE lost' = lost \/ SendBytesError(e) \/ DataWriterError(e)
  BY <1>7 DEF Calls, OpenDeferred, EndpointDispose, SendDisposed, SendBytes, SendBytesFails,
     KprSocketWriterDataWriter, DataWriterFails, boundVars
<1>8. ASSUME NEW e \in End, Passes(e) PROVE lost' = lost
  BY <1>8 DEF Passes, EndPass, HandleResponse, HandleRefusal, HandleTextMessage, HandlePing,
     HandlePong, HandleCloseFrame, AnswerCloseFrame, ReadClosed, ReadFails, boundVars
<1>9. ASSUME NEW e \in End, Returns(e) PROVE lost' = lost
  BY <1>9 DEF Returns, ReturnScript, ReturnClosed, ReturnFailed, ReturnClosing, ReturnClose,
     boundVars
<1>10. ASSUME StartConnect \/ Connects PROVE lost' = lost \/ ConnectCallback_unsent
  BY <1>10 DEF StartConnect, Connects, ConnectCallback_none, ConnectCallback,
     ConnectCallback_refused, ConnectCallback_cancelled, boundVars
<1>11. ASSUME Accepts PROVE lost' = lost
  BY <1>11 DEF Accepts, HandleRequest, RejectRequest, ReturnConnect, ReturnUnhandled,
     KprWebSocketServerDispose, boundVars
<1>12. ASSUME \/ KPR_websocketserver_timeToPing \/ KPR_WebSocketServer_onInterfaceDrop
              \/ KPR_websocketserver \/ Break
       PROVE  lost' = lost
  BY <1>12 DEF KPR_websocketserver_timeToPing, KPR_WebSocketServer_onInterfaceDrop,
     KPR_websocketserver, Break, boundVars
<1>13. ASSUME lost' # lost
       PROVE  \E e \in End, K \in SUBSET (Sent \union {"request"}) : Drops(e, K)
  <2>1. CASE \E e \in End : Script(e) \/ Loop(e)
    BY <1>4, <1>5, <1>6, <1>7, <1>8, <1>9, <1>13, <2>1 DEF Loop
  <2>2. CASE StartConnect \/ Connects
    BY <1>0, <1>3, <1>10, <1>13, <2>2
  <2> QED BY <1>11, <1>12, <1>13, <2>1, <2>2 DEF Next
<1> QED BY <1>1, <1>2, <1>13

LEMMA LossInvariance == Spec => [](Inv /\ LossType)
<1>1. Init => LossType
  BY DEF Init, LossType
<1>2. Inv /\ LossType /\ [Next]_vars => LossType'
  <2>1. ASSUME LossType, UNCHANGED vars PROVE LossType'
    BY <2>1 DEF LossType, vars, boundVars
  <2> QED BY <2>1, LossStep
<1> QED BY <1>1, <1>2, Invariance, PTL DEF Spec

-----------------------------------------------------------------------------
(* What follows from the invariant. *)

\* Every variable of the connection has its type in every state
\* (KprWebSocketEndpointRecord); the count of posted sends wraps like the UInt8
\* it is.
THEOREM TypeCorrect == Spec => []TypeOK
<1>1. Inv /\ LossType => TypeOK
  <2>1. SUFFICES ASSUME Inv, LossType PROVE TypeOK
    OBVIOUS
  <2>2. Typed /\ \A e \in End : Posted(e)
    BY <2>1 DEF Inv, EndInv
  <2>3. ASSUME NEW e \in End
        PROVE  /\ \A i \in DOMAIN queue[e] :
                    queue[e][i].kind \in Sent \union {"start", "open", "dispose", "stop"}
               /\ \A i \in DOMAIN stack[e] :
                    stack[e][i] \in {"connect", "message", "error", "closed", "failed", "closing",
                                     "close", "pass"}
    <3>1. queue[e] \in Seq(Item) /\ stack[e] \in Seq(Place)
      BY <2>2 DEF Typed, LineType
    <3>2. \A i \in DOMAIN queue[e] :
            queue[e][i].kind \in Sent \union {"start", "open", "dispose", "stop"}
      BY <2>2, <3>1 DEF Posted, Only
    <3> QED BY <3>1, <3>2 DEF Place
  <2> QED BY <2>1, <2>2, <2>3 DEF TypeOK, Typed, EndType, EndpointRecord, LogType, LossType
<1> QED BY <1>1, LossInvariance, PTL

\* Nothing refers to an endpoint that KprWebSocketEndpointDispose has given
\* back: pendingSendCount may wrap, but once dispose is posted it counts at most
\* the close frame behind it.
THEOREM NobodyUsesFreed == Spec => []NoFreed
<1>1. Inv => NoFreed
  <2>1. SUFFICES ASSUME Inv, NEW e \in End, freed[e]
                 PROVE  /\ \A i \in DOMAIN queue[e] : queue[e][i].kind \in {"open", "stop"}
                        /\ e = "client" => dial = "done"
                        /\ Idle(e) /\ ep[e].socket = "none" /\ backlog[e] = <<>>
    BY DEF NoFreed
  <2>2. Typed /\ Disposal(e) /\ Posted(e) /\ Gone(e)
    BY <2>1 DEF Inv, EndInv
  <2>3. /\ wrapper[e] = "collected" /\ Only(queue[e], {"stop"})
        /\ stack[e] = <<>> /\ ep[e].socket = "none"
    BY <2>1, <2>2 DEF Disposal
  <2>4. e = "client" => dial = "done"
    BY <2>2, <2>3 DEF Gone, Left
  <2>5. \A i \in DOMAIN queue[e] : queue[e][i].kind \in {"open", "stop"}
    <3>1. queue[e] \in Seq(Item)
      BY <2>2 DEF Typed, LineType
    <3> QED BY <2>3, <3>1 DEF Only
  <2> QED BY <2>2, <2>3, <2>4, <2>5 DEF Posted, Idle
<1> QED BY <1>1, Invariance, PTL

\* onclose is called once and is the last thing a script is told: after
\* KprWebSocketEndpointDisconnect nothing on the stack of the thread and nothing
\* that is posted reports a message or the end again (a server whose interface
\* was dropped aside).
THEOREM CloseLast == Spec => CloseIsLast
<1> DEFINE Told(e) ==
      (heard'[e] # heard[e] \/ closes'[e] # closes[e]) /\ ~(dropped /\ e = "server") => closes[e] = 0
<1>1. ASSUME Inv, NEW e \in End, Script(e) \/ Loop(e), NEW d \in End PROVE Told(d)
  <2>0. /\ Typed /\ Shape(e) /\ Handshake(e) /\ Posted(e) /\ Disposal(e) /\ Gone(e)
        /\ closes \in [End -> Nat]
    BY <1>1 DEF Inv, EndInv, Typed, LogType
  <2>1. CASE d # e
    BY <1>1, <2>0, <2>1, Elsewhere
  <2>2. CASE d = e
    <3>1. SUFFICES ASSUME ~(dropped /\ e = "server"), closes[e] # 0
                   PROVE  heard'[e] = heard[e] /\ closes'[e] = closes[e]
      BY <2>2
    <3>2. Left(e)
      BY <2>0, <3>1 DEF Left
    <3>3. /\ ep[e].socket = "none" /\ ~Has(stack[e], "closed")
          /\ ~(ep[e].closeWasReceived /\ Has(stack[e], "closing"))
      BY <2>0, <3>1, <3>2 DEF Gone
    <3>4. closes'[e] = closes[e]
      BY <1>1, <2>0, <3>3, StackMoves DEF Parts, Continues
    <3>5. heard'[e] = heard[e]
      BY <1>1, <2>0, <3>3, HeardMoves DEF HandleTextMessage, Reads
    <3> QED BY <3>4, <3>5
  <2> QED BY <2>1, <2>2
<1>2. ASSUME Inv, ConnectCallback_cancelled, NEW d \in End PROVE Told(d)
  <2>1. /\ dial # "done" /\ closes \in [End -> Nat] /\ heard' = heard
        /\ closes' = [closes EXCEPT !["client"] = IF Callable("client") THEN @ + 1 ELSE @]
    BY <1>2 DEF ConnectCallback_cancelled, Answered, CallClose, Inv, Typed, LogType
  <2>2. ~Left(d)
    BY <1>2, <2>1, Before
  <2> QED BY <2>1, <2>2 DEF Left
<1>3. ASSUME Inv, KPR_WebSocketServer_onInterfaceDrop, NEW d \in End PROVE Told(d)
  <2>1. /\ listed /\ closes \in [End -> Nat] /\ heard' = heard
        /\ closes' = [closes EXCEPT !["server"] = IF Callable("server") THEN @ + 1 ELSE @]
    BY <1>3 DEF KPR_WebSocketServer_onInterfaceDrop, CallClose, Inv, Typed, LogType
  <2>2. ~Left("server")
    BY <1>3, <2>1, ListedFacts
  <2>3. d # "server" => closes'[d] = closes[d]
    BY <2>1
  <2> QED BY <2>1, <2>2, <2>3 DEF Left
<1>4. ASSUME \/ StartConnect \/ ConnectCallback_none \/ ConnectCallback \/ ConnectCallback_refused
             \/ ConnectCallback_unsent \/ Accepts \/ KPR_websocketserver_timeToPing
             \/ KPR_websocketserver \/ Break \/ UNCHANGED vars
      PROVE  heard' = heard /\ closes' = closes
  BY <1>4 DEF StartConnect, ConnectCallback_none, ConnectCallback, ConnectCallback_refused,
     ConnectCallback_unsent, Accepts, HandleRequest, RejectRequest, ReturnConnect,
     ReturnUnhandled, KprWebSocketServerDispose, KPR_websocketserver_timeToPing,
     KPR_websocketserver, Break, vars, logVars
<1>5. ASSUME Inv, [Next]_vars, NEW d \in End PROVE Told(d)
  BY <1>1, <1>2, <1>3, <1>4, <1>5 DEF Next, Connects
<1>6. Inv /\ [Next]_vars =>
        [\A e \in End :
           (heard'[e] # heard[e] \/ closes'[e] # closes[e]) /\ ~(dropped /\ e = "server")
             => closes[e] = 0]_vars
  BY <1>5
<1> QED BY <1>6, Invariance, PTL DEF Spec, CloseIsLast

-----------------------------------------------------------------------------
(* The messages of a line.  c counts them: before s[1] there were lo, after *)
(* the last there are hi; a close frame comes when all of them, top, have   *)
(* been said.                                                               *)

Tally(s, c, top, done) ==
  /\ c \in [0 .. Len(s) -> Nat]
  /\ \A i, j \in 0 .. Len(s) : i <= j => c[i] <= c[j]
  /\ \A i \in 1 .. Len(s) :
       /\ c[i] = IF s[i].kind = "text" THEN c[i - 1] + 1 ELSE c[i - 1]
       /\ s[i].kind = "text" => s[i].n = c[i]
       /\ s[i].kind = "close" => done /\ c[i] = top

Runs(s, lo, hi, top, done) ==
  \E c : Tally(s, c, top, done) /\ c[0] = lo /\ c[Len(s)] = hi

LEMMA RunsFacts ==
  ASSUME NEW s \in Seq(Item), NEW lo, NEW hi, NEW top, NEW done, Runs(s, lo, hi, top, done)
  PROVE  lo \in Nat /\ hi \in Nat /\ lo <= hi
<1>1. PICK c : Tally(s, c, top, done) /\ c[0] = lo /\ c[Len(s)] = hi
  BY DEF Runs
<1>2. 0 \in 0 .. Len(s) /\ Len(s) \in 0 .. Len(s) /\ 0 <= Len(s)
  OBVIOUS
<1> QED BY <1>1, <1>2 DEF Tally

\* A line without messages and close frames.
LEMMA RunsPlain ==
  ASSUME NEW s \in Seq(Item), ~HasKind(s, {"text", "close"}), NEW lo \in Nat, NEW top, NEW done
  PROVE  Runs(s, lo, lo, top, done)
<1> DEFINE c == [i \in 0 .. Len(s) |-> lo]
<1>1. Len(s) \in Nat /\ \A i \in 1 .. Len(s) : i \in 0 .. Len(s) /\ i - 1 \in 0 .. Len(s)
  OBVIOUS
<1>2. \A i \in 1 .. Len(s) : s[i].kind \notin {"text", "close"}
  BY DEF HasKind
<1>3. Tally(s, c, top, done)
  BY <1>1, <1>2 DEF Tally
<1>4. c[0] = lo /\ c[Len(s)] = lo
  BY <1>1
<1> QED BY <1>3, <1>4 DEF Runs

\* One more frame.
LEMMA RunsAppend ==
  ASSUME NEW s \in Seq(Item), NEW lo, NEW hi \in Nat, NEW top, NEW done, Runs(s, lo, hi, top, done),
         NEW f \in Item, NEW up \in Nat,
         up = IF f.kind = "text" THEN hi + 1 ELSE hi, f.kind = "text" => f.n = up,
         f.kind = "close" => done /\ up = top
  PROVE  Runs(Append(s, f), lo, up, top, done)
<1>1. PICK c : Tally(s, c, top, done) /\ c[0] = lo /\ c[Len(s)] = hi
  BY DEF Runs
<1> DEFINE t == Append(s, f)
           b == [i \in 0 .. Len(s) + 1 |-> IF i = Len(s) + 1 THEN up ELSE c[i]]
<1>2. /\ t \in Seq(Item) /\ Len(t) = Len(s) + 1 /\ Len(s) \in Nat /\ t[Len(s) + 1] = f
      /\ \A i \in 1 .. Len(s) : t[i] = s[i]
  OBVIOUS
<1>3. /\ c \in [0 .. Len(s) -> Nat] /\ (\A i, j \in 0 .. Len(s) : i <= j => c[i] <= c[j])
      /\ \A i \in 1 .. Len(s) :
           /\ c[i] = IF s[i].kind = "text" THEN c[i - 1] + 1 ELSE c[i - 1]
           /\ s[i].kind = "text" => s[i].n = c[i]
           /\ s[i].kind = "close" => done /\ c[i] = top
  BY <1>1 DEF Tally
<1>4. b \in [0 .. Len(t) -> Nat]
  BY <1>2, <1>3
<1>5. /\ \A i \in 0 .. Len(s) : b[i] = c[i]
      /\ b[Len(s) + 1] = up /\ b[Len(s)] = hi
  BY <1>1, <1>2
<1> HIDE DEF t, b
<1>6. \A i \in 0 .. Len(t) : i \in 0 .. Len(s) \/ i = Len(s) + 1
  BY <1>2
<1>7. \A i, j \in 0 .. Len(t) : i <= j => b[i] <= b[j]
  <2>1. \A i \in 0 .. Len(s) : c[i] \in Nat /\ c[i] <= hi
    BY <1>1, <1>2, <1>3
  <2>2. hi <= up
    OBVIOUS
  <2> QED BY <1>2, <1>3, <1>5, <1>6, <2>1, <2>2
<1>8. ASSUME NEW i \in 1 .. Len(t)
      PROVE  /\ b[i] = IF t[i].kind = "text" THEN b[i - 1] + 1 ELSE b[i - 1]
             /\ t[i].kind = "text" => t[i].n = b[i]
             /\ t[i].kind = "close" => done /\ b[i] = top
  <2>1. CASE i = Len(s) + 1
    <3>1. t[i] = f /\ b[i] = up /\ b[i - 1] = hi
      BY <1>2, <1>5, <2>1
    <3> QED BY <3>1
  <2>2. CASE i # Len(s) + 1
    <3>1. i \in 1 .. Len(s) /\ i \in 0 .. Len(s) /\ i - 1 \in 0 .. Len(s)
      BY <1>2, <2>2
    <3>2. t[i] = s[i] /\ b[i] = c[i] /\ b[i - 1] = c[i - 1]
      BY <1>2, <1>5, <3>1
    <3> QED BY <1>3, <3>1, <3>2
  <2> QED BY <2>1, <2>2
<1>9. Tally(t, b, top, done)
  BY <1>4, <1>7, <1>8 DEF Tally
<1>10. b[0] = lo /\ b[Len(t)] = up
  BY <1>1, <1>2, <1>5
<1>11. Runs(t, lo, up, top, done)
  BY <1>9, <1>10 DEF Runs
<1> QED BY <1>11 DEF t

\* The first frame is taken off.
LEMMA RunsTail ==
  ASSUME NEW s \in Seq(Item), s # <<>>, NEW lo, NEW hi, NEW top, NEW done, Runs(s, lo, hi, top, done)
  PROVE  /\ Runs(Tail(s), IF Head(s).kind = "text" THEN lo + 1 ELSE lo, hi, top, done)
         /\ Head(s).kind = "text" => Head(s).n = lo + 1
         /\ Head(s).kind = "close" => done /\ lo = top
<1>1. PICK c : Tally(s, c, top, done) /\ c[0] = lo /\ c[Len(s)] = hi
  BY DEF Runs
<1> DEFINE t == Tail(s)
           b == [i \in 0 .. Len(s) - 1 |-> c[i + 1]]
<1>2. /\ t \in Seq(Item) /\ Len(t) = Len(s) - 1 /\ Len(s) \in Nat \ {0} /\ Head(s) = s[1] /\ 1 \in 1 .. Len(s)
      /\ \A i \in 1 .. Len(s) - 1 : t[i] = s[i + 1] /\ i + 1 \in 1 .. Len(s)
  BY TailFacts
<1>3. /\ c \in [0 .. Len(s) -> Nat] /\ (\A i, j \in 0 .. Len(s) : i <= j => c[i] <= c[j])
      /\ \A i \in 1 .. Len(s) :
           /\ c[i] = IF s[i].kind = "text" THEN c[i - 1] + 1 ELSE c[i - 1]
           /\ s[i].kind = "text" => s[i].n = c[i]
           /\ s[i].kind = "close" => done /\ c[i] = top
  BY <1>1 DEF Tally
<1>4. b \in [0 .. Len(t) -> Nat] /\ \A i \in 0 .. Len(t) : b[i] = c[i + 1] /\ i + 1 \in 0 .. Len(s)
  BY <1>2, <1>3
<1> HIDE DEF t, b
<1>5. \A i, j \in 0 .. Len(t) : i <= j => b[i] <= b[j]
  BY <1>2, <1>3, <1>4
<1>6. ASSUME NEW i \in 1 .. Len(t)
      PROVE  /\ b[i] = IF t[i].kind = "text" THEN b[i - 1] + 1 ELSE b[i - 1]
             /\ t[i].kind = "text" => t[i].n = b[i]
             /\ t[i].kind = "close" => done /\ b[i] = top
  <2>1. i \in 1 .. Len(s) - 1 /\ i + 1 \in 1 .. Len(s) /\ i \in 0 .. Len(t) /\ i - 1 \in 0 .. Len(t)
        /\ (i + 1) - 1 = i /\ (i - 1) + 1 = i
    BY <1>2
  <2>2. t[i] = s[i + 1] /\ b[i] = c[i + 1] /\ b[i - 1] = c[i]
    BY <1>2, <1>4, <2>1
  <2>3. /\ c[i + 1] = IF s[i + 1].kind = "text" THEN c[i] + 1 ELSE c[i]
        /\ s[i + 1].kind = "text" => s[i + 1].n = c[i + 1]
        /\ s[i + 1].kind = "close" => done /\ c[i + 1] = top
    BY <1>3, <2>1
  <2> QED BY <2>2, <2>3
<1>7. Tally(t, b, top, done)
  BY <1>4, <1>5, <1>6 DEF Tally
<1>8. b[0] = c[1] /\ b[Len(t)] = hi
  BY <1>1, <1>2, <1>4
<1>9. /\ c[1] = IF s[1].kind = "text" THEN lo + 1 ELSE lo
      /\ s[1].kind = "text" => s[1].n = c[1]
      /\ s[1].kind = "close" => done /\ c[1] = top
  BY <1>1, <1>2, <1>3
<1>10. Runs(t, c[1], hi, top, done)
  BY <1>7, <1>8 DEF Runs
<1>11. Runs(Tail(s), c[1], hi, top, done)
  BY <1>10 DEF t
<1> QED BY <1>2, <1>9, <1>11

\* A line is cut in two, and two are put together.
LEMMA RunsCut ==
  ASSUME NEW s \in Seq(Item), NEW lo, NEW hi, NEW top, NEW done, Runs(s, lo, hi, top, done),
         NEW k \in 0 .. Len(s)
  PROVE  \E m \in Nat : /\ lo <= m /\ m <= hi
                        /\ Runs(SubSeq(s, 1, k), lo, m, top, done)
                        /\ Runs(SubSeq(s, k + 1, Len(s)), m, hi, top, done)
<1>1. PICK c : Tally(s, c, top, done) /\ c[0] = lo /\ c[Len(s)] = hi
  BY DEF Runs
<1> DEFINE t == SubSeq(s, 1, k)
           u == SubSeq(s, k + 1, Len(s))
           b == [i \in 0 .. k |-> c[i]]
           d == [i \in 0 .. Len(s) - k |-> c[k + i]]
<1>2. /\ c \in [0 .. Len(s) -> Nat] /\ (\A i, j \in 0 .. Len(s) : i <= j => c[i] <= c[j])
      /\ \A i \in 1 .. Len(s) :
           /\ c[i] = IF s[i].kind = "text" THEN c[i - 1] + 1 ELSE c[i - 1]
           /\ s[i].kind = "text" => s[i].n = c[i]
           /\ s[i].kind = "close" => done /\ c[i] = top
  BY <1>1 DEF Tally
<1>3. /\ t \in Seq(Item) /\ Len(t) = k /\ \A i \in 1 .. k : t[i] = s[i]
  BY PrefixFacts
<1>4. /\ u \in Seq(Item) /\ Len(u) = Len(s) - k /\ \A i \in 1 .. Len(s) - k : u[i] = s[k + i]
  BY SuffixFacts
<1>5. k \in Nat /\ Len(s) \in Nat /\ k <= Len(s)
  OBVIOUS
<1>6. b \in [0 .. k -> Nat] /\ \A i \in 0 .. k : b[i] = c[i] /\ i \in 0 .. Len(s)
  BY <1>2, <1>5
<1>7. d \in [0 .. Len(s) - k -> Nat] /\ \A i \in 0 .. Len(s) - k : d[i] = c[k + i] /\ k + i \in 0 .. Len(s)
  BY <1>2, <1>5
<1> HIDE DEF t, u, b, d
<1>8. Tally(t, b, top, done)
  <2>1. \A i, j \in 0 .. k : i <= j => b[i] <= b[j]
    BY <1>2, <1>6
  <2>2. ASSUME NEW i \in 1 .. k
        PROVE  /\ b[i] = IF t[i].kind = "text" THEN b[i - 1] + 1 ELSE b[i - 1]
               /\ t[i].kind = "text" => t[i].n = b[i]
               /\ t[i].kind = "close" => done /\ b[i] = top
    <3>1. i \in 1 .. Len(s) /\ i \in 0 .. k /\ i - 1 \in 0 .. k
      BY <1>5
    <3>2. t[i] = s[i] /\ b[i] = c[i] /\ b[i - 1] = c[i - 1]
      BY <1>3, <1>6, <3>1
    <3> QED BY <1>2, <3>1, <3>2
  <2> QED BY <1>3, <1>6, <2>1, <2>2 DEF Tally
<1>9. Tally(u, d, top, done)
  <2>1. \A i, j \in 0 .. Len(s) - k : i <= j => d[i] <= d[j]
    BY <1>2, <1>5, <1>7
  <2>2. ASSUME NEW i \in 1 .. Len(s) - k
        PROVE  /\ d[i] = IF u[i].kind = "text" THEN d[i - 1] + 1 ELSE d[i - 1]
               /\ u[i].kind = "text" => u[i].n = d[i]
               /\ u[i].kind = "close" => done /\ d[i] = top
    <3>1. /\ k + i \in 1 .. Len(s) /\ i \in 0 .. Len(s) - k /\ i - 1 \in 0 .. Len(s) - k
          /\ (k + i) - 1 = k + (i - 1)
      BY <1>5
    <3>2. u[i] = s[k + i] /\ d[i] = c[k + i] /\ d[i - 1] = c[k + (i - 1)]
      BY <1>4, <1>7, <3>1
    <3>3. /\ c[k + i] = IF s[k + i].kind = "text" THEN c[(k + i) - 1] + 1 ELSE c[(k + i) - 1]
          /\ s[k + i].kind = "text" => s[k + i].n = c[k + i]
          /\ s[k + i].kind = "close" => done /\ c[k + i] = top
      BY <1>2, <3>1
    <3> QED BY <3>1, <3>2, <3>3
  <2> QED BY <1>4, <1>7, <2>1, <2>2 DEF Tally
<1>10. /\ b[0] = lo /\ b[Len(t)] = c[k] /\ d[0] = c[k] /\ d[Len(u)] = hi
  <2>1. 0 \in 0 .. k /\ k \in 0 .. k /\ 0 \in 0 .. Len(s) - k /\ Len(s) - k \in 0 .. Len(s) - k
        /\ k + (Len(s) - k) = Len(s) /\ k + 0 = k
    BY <1>5
  <2> QED BY <1>1, <1>3, <1>4, <1>6, <1>7, <2>1
<1>11. c[k] \in Nat /\ lo <= c[k] /\ c[k] <= hi
  <2>1. 0 \in 0 .. Len(s) /\ Len(s) \in 0 .. Len(s)
    BY <1>5
  <2> QED BY <1>1, <1>2, <1>5, <2>1
<1>12. Runs(t, lo, c[k], top, done) /\ Runs(u, c[k], hi, top, done)
  BY <1>8, <1>9, <1>10 DEF Runs
<1> QED BY <1>11, <1>12 DEF t, u

LEMMA RunsJoin ==
  ASSUME NEW s \in Seq(Item), NEW u \in Seq(Item), NEW lo, NEW m, NEW hi, NEW top, NEW done,
         Runs(s, lo, m, top, done), Runs(u, m, hi, top, done)
  PROVE  Runs(s \o u, lo, hi, top, done)
<1>1. PICK b : Tally(s, b, top, done) /\ b[0] = lo /\ b[Len(s)] = m
  BY DEF Runs
<1>2. PICK d : Tally(u, d, top, done) /\ d[0] = m /\ d[Len(u)] = hi
  BY DEF Runs
<1> DEFINE t == s \o u
           c == [i \in 0 .. Len(s) + Len(u) |-> IF i <= Len(s) THEN b[i] ELSE d[i - Len(s)]]
<1>3. /\ t \in Seq(Item) /\ Len(t) = Len(s) + Len(u) /\ Len(s) \in Nat /\ Len(u) \in Nat
      /\ \A i \in 1 .. Len(s) : t[i] = s[i]
      /\ \A i \in 1 .. Len(u) : t[Len(s) + i] = u[i]
  BY ConcatFacts
<1>4. /\ b \in [0 .. Len(s) -> Nat] /\ (\A i, j \in 0 .. Len(s) : i <= j => b[i] <= b[j])
      /\ \A i \in 1 .. Len(s) :
           /\ b[i] = IF s[i].kind = "text" THEN b[i - 1] + 1 ELSE b[i - 1]
           /\ s[i].kind = "text" => s[i].n = b[i]
           /\ s[i].kind = "close" => done /\ b[i] = top
  BY <1>1 DEF Tally
<1>5. /\ d \in [0 .. Len(u) -> Nat] /\ (\A i, j \in 0 .. Len(u) : i <= j => d[i] <= d[j])
      /\ \A i \in 1 .. Len(u) :
           /\ d[i] = IF u[i].kind = "text" THEN d[i - 1] + 1 ELSE d[i - 1]
           /\ u[i].kind = "text" => u[i].n = d[i]
           /\ u[i].kind = "close" => done /\ d[i] = top
  BY <1>2 DEF Tally
<1>6. /\ c \in [0 .. Len(t) -> Nat]
      /\ \A i \in 0 .. Len(s) : c[i] = b[i]
      /\ \A i \in 0 .. Len(u) : c[Len(s) + i] = d[i]
  <2>1. c \in [0 .. Len(t) -> Nat]
    BY <1>3, <1>4, <1>5
  <2>2. \A i \in 0 .. Len(s) : c[i] = b[i]
    BY <1>3
  <2>3. \A i \in 1 .. Len(u) : c[Len(s) + i] = d[i]
    BY <1>3
  <2>4. c[Len(s) + 0] = d[0]
    BY <1>1, <1>2, <1>3
  <2>5. \A i \in 0 .. Len(u) : i = 0 \/ i \in 1 .. Len(u)
    BY <1>3
  <2>6. \A i \in 0 .. Len(u) : c[Len(s) + i] = d[i]
    BY <2>3, <2>4, <2>5
  <2> QED BY <2>1, <2>2, <2>6
<1> HIDE DEF t, c
<1>7. \A i \in 0 .. Len(t) : i \in 0 .. Len(s) \/ (i - Len(s) \in 0 .. Len(u) /\ i = Len(s) + (i - Len(s)))
  BY <1>3
<1>8. \A i, j \in 0 .. Len(t) : i <= j => c[i] <= c[j]
  <2>0. Len(s) \in 0 .. Len(s) /\ 0 \in 0 .. Len(u)
    BY <1>3
  <2>1. \A i \in 0 .. Len(s) : b[i] \in Nat /\ b[i] <= m
    BY <1>1, <1>4, <2>0
  <2>2. \A i \in 0 .. Len(u) : d[i] \in Nat /\ m <= d[i]
    BY <1>2, <1>5, <2>0
  <2>3. m \in Nat
    BY <1>1, <1>4, <2>0
  <2>4. ASSUME NEW i \in 0 .. Len(t), NEW j \in 0 .. Len(t), i <= j PROVE c[i] <= c[j]
    <3>1. CASE j \in 0 .. Len(s)
      <4>1. i \in 0 .. Len(s)
        BY <1>3, <2>4, <3>1
      <4> QED BY <1>4, <1>6, <2>4, <3>1, <4>1
    <3>2. CASE j \notin 0 .. Len(s) /\ i \in 0 .. Len(s)
      <4>1. c[i] = b[i] /\ c[j] = d[j - Len(s)] /\ j - Len(s) \in 0 .. Len(u)
        BY <1>6, <1>7, <3>2
      <4> QED BY <2>1, <2>2, <2>3, <3>2, <4>1
    <3>3. CASE j \notin 0 .. Len(s) /\ i \notin 0 .. Len(s)
      <4>1. j - Len(s) \in 0 .. Len(u) /\ j = Len(s) + (j - Len(s))
        BY <1>7, <3>3
      <4>2. i - Len(s) \in 0 .. Len(u) /\ i = Len(s) + (i - Len(s))
        BY <1>7, <3>3
      <4>3. c[j] = d[j - Len(s)] /\ c[i] = d[i - Len(s)]
        BY <1>6, <4>1, <4>2
      <4>4. i - Len(s) <= j - Len(s)
        BY <1>3, <2>4
      <4> QED BY <1>5, <4>1, <4>2, <4>3, <4>4
    <3> QED BY <3>1, <3>2, <3>3
  <2> QED BY <2>4
<1>9. ASSUME NEW i \in 1 .. Len(t)
      PROVE  /\ c[i] = IF t[i].kind = "text" THEN c[i - 1] + 1 ELSE c[i - 1]
             /\ t[i].kind = "text" => t[i].n = c[i]
             /\ t[i].kind = "close" => done /\ c[i] = top
  <2>1. CASE i \in 1 .. Len(s)
    <3>1. i \in 0 .. Len(s) /\ i - 1 \in 0 .. Len(s)
      BY <1>3, <2>1
    <3>2. t[i] = s[i] /\ c[i] = b[i] /\ c[i - 1] = b[i - 1]
      BY <1>3, <1>6, <2>1, <3>1
    <3> QED BY <1>4, <2>1, <3>2
  <2>2. CASE i \notin 1 .. Len(s)
    <3>1. PICK x \in 1 .. Len(u) : i = Len(s) + x
      <4>1. i - Len(s) \in 1 .. Len(u) /\ i = Len(s) + (i - Len(s))
        BY <1>3, <2>2
      <4> QED BY <4>1
    <3>2. x \in 0 .. Len(u) /\ x - 1 \in 0 .. Len(u) /\ i - 1 = Len(s) + (x - 1)
      BY <1>3, <3>1
    <3>3. t[i] = u[x] /\ c[i] = d[x] /\ c[i - 1] = d[x - 1]
      BY <1>3, <1>6, <3>1, <3>2
    <3> QED BY <1>5, <3>1, <3>3
  <2> QED BY <2>1, <2>2
<1>10. Tally(t, c, top, done)
  BY <1>6, <1>8, <1>9 DEF Tally
<1>11. c[0] = lo /\ c[Len(t)] = hi
  <2>1. 0 \in 0 .. Len(s) /\ Len(u) \in 0 .. Len(u)
    BY <1>3
  <2> QED BY <1>1, <1>2, <1>3, <1>6, <2>1
<1>12. Runs(t, lo, hi, top, done)
  BY <1>10, <1>11 DEF Runs
<1> QED BY <1>12 DEF t

\* Another message is said, or the end: there was no close frame before.
LEMMA RunsLater ==
  ASSUME NEW s \in Seq(Item), NEW lo, NEW hi, NEW top, NEW done \in BOOLEAN,
         Runs(s, lo, hi, top, done)
  PROVE  /\ Runs(s, lo, hi, top, TRUE)
         /\ \A up : ~done => Runs(s, lo, hi, up, FALSE)
<1>1. PICK c : Tally(s, c, top, done) /\ c[0] = lo /\ c[Len(s)] = hi
  BY DEF Runs
<1>2. Tally(s, c, top, TRUE)
  BY <1>1 DEF Tally
<1>3. ASSUME NEW up, ~done PROVE Tally(s, c, up, FALSE)
  BY <1>1, <1>3 DEF Tally
<1> QED BY <1>1, <1>2, <1>3 DEF Runs

LEMMA RunsNone ==
  ASSUME NEW lo, NEW hi, NEW top, NEW done, Runs(<<>>, lo, hi, top, done)
  PROVE  lo = hi
  BY DEF Runs

\* A line without messages carries none from one count to another.
LEMMA Flat ==
  ASSUME NEW n \in Nat, NEW c \in [0 .. n -> Nat], \A i \in 1 .. n : c[i] = c[i - 1]
  PROVE  c[n] = c[0]
<1> DEFINE T == {i \in 0 .. n : c[i] # c[0]}
<1>1. SUFFICES ASSUME c[n] # c[0] PROVE FALSE
  OBVIOUS
<1>2. T \subseteq Nat /\ T # {}
  BY <1>1
<1> HIDE DEF T
<1>3. PICK x \in T : \A y \in T : ~(<<y, x>> \in OpToRel(<, Nat))
  BY <1>2, NatLessThanWellFounded, WFMin
<1>4. \A y \in T : y < x => <<y, x>> \in OpToRel(<, Nat)
  BY <1>2 DEF OpToRel
<1>5. x \in 1 .. n /\ x - 1 \in 0 .. n /\ x - 1 < x
  <2>1. x \in 0 .. n /\ x # 0
    BY DEF T
  <2> QED BY <2>1
<1>6. x - 1 \in T
  BY <1>5 DEF T
<1> QED BY <1>3, <1>4, <1>5, <1>6

LEMMA RunsFlat ==
  ASSUME NEW s \in Seq(Item), ~HasKind(s, {"text"}), NEW lo, NEW hi, NEW top, NEW done,
         Runs(s, lo, hi, top, done)
  PROVE  lo = hi
<1>1. PICK c : Tally(s, c, top, done) /\ c[0] = lo /\ c[Len(s)] = hi
  BY DEF Runs
<1>2. Len(s) \in Nat /\ c \in [0 .. Len(s) -> Nat]
  BY <1>1 DEF Tally
<1>3. \A i \in 1 .. Len(s) : c[i] = c[i - 1]
  BY <1>1 DEF Tally, HasKind
<1> QED BY <1>1, <1>2, <1>3, Flat

\* Three lines, one behind the other: the wire, the writer and the queue.
Chain(w, g, q, lo, top, done) ==
  \E a, b \in Nat :
    Runs(w, lo, a, top, done) /\ Runs(g, a, b, top, done) /\ Runs(q, b, top, top, done)

LEMMA ChainFirst ==
  ASSUME NEW w \in Seq(Item), NEW g \in Seq(Item), NEW q \in Seq(Item), NEW lo, NEW top \in Nat,
         NEW done, Chain(w, g, q, lo, top, done)
  PROVE  \E h \in Nat : h <= top /\ Runs(w, lo, h, top, done)
<1>1. PICK a, b \in Nat :
        Runs(w, lo, a, top, done) /\ Runs(g, a, b, top, done) /\ Runs(q, b, top, top, done)
  BY DEF Chain
<1>2. a <= b /\ b <= top
  BY <1>1, RunsFacts
<1> QED BY <1>1, <1>2

\* A frame is read, skipped in the queue, or posted.
LEMMA ChainRead ==
  ASSUME NEW w \in Seq(Item), NEW g \in Seq(Item), NEW q \in Seq(Item), NEW lo, NEW top, NEW done,
         Chain(w, g, q, lo, top, done), w # <<>>
  PROVE  Chain(Tail(w), g, q, IF Head(w).kind = "text" THEN lo + 1 ELSE lo, top, done)
<1>1. PICK a, b \in Nat :
        Runs(w, lo, a, top, done) /\ Runs(g, a, b, top, done) /\ Runs(q, b, top, top, done)
  BY DEF Chain
<1>2. Runs(Tail(w), IF Head(w).kind = "text" THEN lo + 1 ELSE lo, a, top, done)
  BY <1>1, RunsTail
<1> QED BY <1>1, <1>2 DEF Chain

LEMMA ChainSkip ==
  ASSUME NEW w \in Seq(Item), NEW g \in Seq(Item), NEW q \in Seq(Item), NEW lo, NEW top, NEW done,
         Chain(w, g, q, lo, top, done), q # <<>>, Head(q).kind # "text"
  PROVE  Chain(w, g, Tail(q), lo, top, done)
<1>1. PICK a, b \in Nat :
        Runs(w, lo, a, top, done) /\ Runs(g, a, b, top, done) /\ Runs(q, b, top, top, done)
  BY DEF Chain
<1>2. Runs(Tail(q), IF Head(q).kind = "text" THEN b + 1 ELSE b, top, top, done)
  BY <1>1, RunsTail
<1>3. Runs(Tail(q), b, top, top, done)
  BY <1>2
<1> QED BY <1>1, <1>3 DEF Chain

\* The log goes on: another message before the close frame, or the close frame.
Later(top, done, up, last) ==
  \/ up = top /\ (done => last)
  \/ up = top + 1 /\ ~done /\ ~last

LEMMA RunsOn ==
  ASSUME NEW s \in Seq(Item), NEW lo, NEW hi, NEW top, NEW done \in BOOLEAN, NEW up,
         NEW last \in BOOLEAN, Runs(s, lo, hi, top, done), Later(top, done, up, last)
  PROVE  Runs(s, lo, hi, up, last)
<1>1. Runs(s, lo, hi, top, TRUE) /\ (~done => Runs(s, lo, hi, up, FALSE))
  BY RunsLater
<1>2. CASE last
  <2>1. up = top /\ last = TRUE
    BY <1>2 DEF Later
  <2> QED BY <1>1, <2>1
<1>3. CASE ~last
  <2>1. last = FALSE /\ ~done
    BY <1>3 DEF Later
  <2> QED BY <1>1, <2>1
<1> QED BY <1>2, <1>3

LEMMA ChainOn ==
  ASSUME NEW w \in Seq(Item), NEW g \in Seq(Item), NEW q \in Seq(Item), NEW lo, NEW top,
         NEW done \in BOOLEAN, NEW last \in BOOLEAN,
         Chain(w, g, q, lo, top, done), done => last
  PROVE  Chain(w, g, q, lo, top, last)
<1>1. PICK a, b \in Nat :
        Runs(w, lo, a, top, done) /\ Runs(g, a, b, top, done) /\ Runs(q, b, top, top, done)
  BY DEF Chain
<1>2. Later(top, done, top, last)
  BY DEF Later
<1>3. Runs(w, lo, a, top, last) /\ Runs(g, a, b, top, last) /\ Runs(q, b, top, top, last)
  BY <1>1, <1>2, RunsOn
<1> QED BY <1>1, <1>3 DEF Chain

LEMMA ChainPost ==
  ASSUME NEW w \in Seq(Item), NEW g \in Seq(Item), NEW q \in Seq(Item), NEW lo, NEW top \in Nat,
         NEW done \in BOOLEAN, Chain(w, g, q, lo, top, done),
         NEW up \in Nat, NEW last \in BOOLEAN, Later(top, done, up, last),
         NEW f \in Item, up = IF f.kind = "text" THEN top + 1 ELSE top,
         f.kind = "text" => f.n = up, f.kind = "close" => last
  PROVE  Chain(w, g, Append(q, f), lo, up, last)
<1>1. PICK a, b \in Nat :
        Runs(w, lo, a, top, done) /\ Runs(g, a, b, top, done) /\ Runs(q, b, top, top, done)
  BY DEF Chain
<1>2. Runs(w, lo, a, up, last) /\ Runs(g, a, b, up, last) /\ Runs(q, b, top, up, last)
  BY <1>1, RunsOn
<1>3. Runs(Append(q, f), b, up, up, last)
  BY <1>2, RunsAppend
<1> QED BY <1>1, <1>2, <1>3 DEF Chain

\* The first frame of the queue is written, or put behind what is pending, and
\* what is pending is written.
LEMMA ChainWrite ==
  ASSUME NEW w \in Seq(Item), NEW q \in Seq(Item), NEW lo, NEW top, NEW done,
         Chain(w, <<>>, q, lo, top, done), q # <<>>
  PROVE  Chain(Append(w, Head(q)), <<>>, Tail(q), lo, top, done)
<1>1. PICK a, b \in Nat :
        Runs(w, lo, a, top, done) /\ Runs(<<>>, a, b, top, done) /\ Runs(q, b, top, top, done)
  BY DEF Chain
<1> DEFINE up == IF Head(q).kind = "text" THEN b + 1 ELSE b
<1>2. /\ Runs(Tail(q), up, top, top, done) /\ (Head(q).kind = "text" => Head(q).n = up)
      /\ (Head(q).kind = "close" => done /\ up = top)
  BY <1>1, RunsTail
<1>3. a = b /\ up \in Nat /\ Head(q) \in Item
  BY <1>1, RunsNone
<1>4. Runs(Append(w, Head(q)), lo, up, top, done)
  BY <1>1, <1>2, <1>3, RunsAppend
<1>5. Runs(<<>>, up, up, top, done)
  <2>1. <<>> \in Seq(Item) /\ ~HasKind(<<>>, {"text", "close"})
    BY DEF HasKind
  <2> QED BY <1>3, <2>1, RunsPlain
<1> QED BY <1>2, <1>3, <1>4, <1>5 DEF Chain

LEMMA ChainHold ==
  ASSUME NEW w \in Seq(Item), NEW g \in Seq(Item), NEW q \in Seq(Item), NEW lo, NEW top, NEW done,
         Chain(w, g, q, lo, top, done), q # <<>>
  PROVE  Chain(w, Append(g, Head(q)), Tail(q), lo, top, done)
<1>1. PICK a, b \in Nat :
        Runs(w, lo, a, top, done) /\ Runs(g, a, b, top, done) /\ Runs(q, b, top, top, done)
  BY DEF Chain
<1> DEFINE up == IF Head(q).kind = "text" THEN b + 1 ELSE b
<1>2. /\ Runs(Tail(q), up, top, top, done) /\ (Head(q).kind = "text" => Head(q).n = up)
      /\ (Head(q).kind = "close" => done /\ up = top)
  BY <1>1, RunsTail
<1>3. up \in Nat /\ Head(q) \in Item
  BY <1>1
<1>4. Runs(Append(g, Head(q)), a, up, top, done)
  BY <1>1, <1>2, <1>3, RunsAppend
<1> QED BY <1>1, <1>2, <1>3, <1>4 DEF Chain

LEMMA ChainFlush ==
  ASSUME NEW w \in Seq(Item), NEW g \in Seq(Item), NEW q \in Seq(Item), NEW lo, NEW top, NEW done,
         Chain(w, g, q, lo, top, done), NEW k \in 0 .. Len(g)
  PROVE  Chain(w \o SubSeq(g, 1, k), SubSeq(g, k + 1, Len(g)), q, lo, top, done)
<1>1. PICK a, b \in Nat :
        Runs(w, lo, a, top, done) /\ Runs(g, a, b, top, done) /\ Runs(q, b, top, top, done)
  BY DEF Chain
<1>2. PICK m \in Nat : /\ Runs(SubSeq(g, 1, k), a, m, top, done)
                       /\ Runs(SubSeq(g, k + 1, Len(g)), m, b, top, done)
  BY <1>1, RunsCut
<1>3. SubSeq(g, 1, k) \in Seq(Item)
  BY PrefixFacts
<1>4. Runs(w \o SubSeq(g, 1, k), lo, m, top, done)
  BY <1>1, <1>2, <1>3, RunsJoin
<1> QED BY <1>1, <1>2, <1>4 DEF Chain

\* What is pending is dropped, and no message is among it.
LEMMA ChainShed ==
  ASSUME NEW w \in Seq(Item), NEW g \in Seq(Item), NEW q \in Seq(Item), NEW lo, NEW top, NEW done,
         Chain(w, g, q, lo, top, done), ~HasKind(g, {"text"})
  PROVE  Chain(w, <<>>, q, lo, top, done)
<1>1. PICK a, b \in Nat :
        Runs(w, lo, a, top, done) /\ Runs(g, a, b, top, done) /\ Runs(q, b, top, top, done)
  BY DEF Chain
<1>2. a = b
  BY <1>1, RunsFlat
<1>3. Runs(<<>>, a, a, top, done)
  <2>1. <<>> \in Seq(Item) /\ ~HasKind(<<>>, {"text", "close"})
    BY DEF HasKind
  <2> QED BY <1>1, <2>1, RunsPlain
<1> QED BY <1>1, <1>2, <1>3 DEF Chain

\* A line is cut, and ends.
LEMMA RunsEnd ==
  ASSUME NEW s \in Seq(Item), NEW lo, NEW hi, NEW top \in Nat, NEW done, hi <= top,
         Runs(s, lo, hi, top, done), NEW k \in 0 .. Len(s)
  PROVE  \E h \in Nat : h <= top /\ Runs(Append(SubSeq(s, 1, k), Frame("fin")), lo, h, top, done)
<1>1. PICK m \in Nat : m <= hi /\ Runs(SubSeq(s, 1, k), lo, m, top, done)
  BY RunsCut
<1>2. SubSeq(s, 1, k) \in Seq(Item) /\ Frame("fin") \in Item /\ Frame("fin").kind = "fin"
  BY PrefixFacts, Items DEF Kind
<1>3. Runs(Append(SubSeq(s, 1, k), Frame("fin")), lo, m, top, done)
  BY <1>1, <1>2, RunsAppend
<1>4. hi \in Nat
  BY RunsFacts
<1>5. m <= top
  BY <1>1, <1>4
<1> QED BY <1>1, <1>3, <1>5

-----------------------------------------------------------------------------
(* The messages for e, from its peer: in the queue and the writer of the    *)
(* peer, on the wire, and given to the script of e.                         *)

\* e will read what has arrived.
Reading(e) == ep[e].socket # "none" /\ ~Has(stack[e], "closed")

\* Everything the peer has accepted can still arrive.
Intact(e) ==
  /\ Reading(e) /\ ~Ended(wire[e])
  /\ Reading(Peer(e)) /\ ep[Peer(e)].socket = "endpoint"

Through(e, s, lo, hi) == Runs(s, lo, hi, said[Peer(e)], ep[Peer(e)].closeWasSent)

InOrder(e) ==
  Len(heard[e]) <= said[Peer(e)] /\ \A i \in 1 .. Len(heard[e]) : heard[e][i] = i
Arriving(e) ==
  Reading(e) =>
    \E h \in Nat : h <= said[Peer(e)] /\ Through(e, wire[e], Len(heard[e]), h)
Underway(e) ==
  Intact(e) => Chain(wire[e], backlog[Peer(e)], queue[Peer(e)], Len(heard[e]), said[Peer(e)],
                     ep[Peer(e)].closeWasSent)
Heeded(e) ==
  ep[e].closeWasReceived =>
    /\ ep[Peer(e)].closeWasSent /\ Len(heard[e]) = said[Peer(e)]
    /\ ep[e].socket = "none" \/ Has(stack[e], "closing")
Flow(e) == ~dropped => InOrder(e) /\ Arriving(e) /\ Underway(e) /\ Heeded(e)

\* As long as no write of the peer has dropped a message.
Sound(e) == "text" \notin lost[Peer(e)] => Flow(e)

\* What an end does to what it reads: it gives up, does something else, or
\* takes a frame.
Quits(e) ==
  /\ heard'[e] = heard[e]
  /\ \/ ep'[e].socket = "none"
     \/ /\ Has(stack'[e], "closed") /\ ep[e].socket = "endpoint" /\ ~Has(stack[e], "closing")
        /\ ep'[e].closeWasReceived = ep[e].closeWasReceived
  /\ ep'[e].closeWasReceived => ep[e].closeWasReceived \/ Reads(e, {"close"})

Rests(e) ==
  /\ heard'[e] = heard[e] /\ wire'[e] = wire[e] /\ ep'[e].socket = ep[e].socket
  /\ ep'[e].closeWasReceived = ep[e].closeWasReceived
  /\ Has(stack'[e], "closed") <=> Has(stack[e], "closed")
  /\ ep[e].closeWasReceived /\ Has(stack[e], "closing") => Has(stack'[e], "closing")

Consumes(e) ==
  /\ Reads(e, Kind \ {"fin"}) /\ wire'[e] = Tail(wire[e]) /\ ep'[e].socket = ep[e].socket
  /\ ~Has(stack'[e], "closed")
  /\ heard'[e] = IF Head(wire[e]).kind = "text" /\ Callable(e)
                 THEN Append(heard[e], Head(wire[e]).n) ELSE heard[e]
  /\ ep'[e].closeWasReceived =>
       ep[e].closeWasReceived \/ (Head(wire[e]).kind = "close" /\ Has(stack'[e], "closing"))

\* The stack under a pass of the reader.
LEMMA ReadsStack ==
  ASSUME Typed, NEW e \in End, Shape(e), NEW K, Reads(e, K)
  PROVE  /\ stack[e] = <<>> \/ stack[e] = Pass
         /\ ~Has(stack[e], "closing") /\ ~Has(stack[e], "closed")
<1>1. stack[e] = <<>> \/ stack[e] = <<"pass">>
  BY BaseTop DEF Reads, Idle, Base
<1> QED BY <1>1 DEF Pass, Has

LEMMA ReadMoves ==
  ASSUME Typed, NEW e \in End, Shape(e), Handshake(e), Posted(e), Script(e) \/ Loop(e)
  PROVE  Quits(e) \/ Rests(e) \/ Consumes(e)
<1> DEFINE q == stack[e]
           r == ep[e]
<1>0. /\ ep \in [End -> EndpointRecord] /\ stack \in [End -> Seq(Place)]
      /\ q \in Seq(Place) /\ r \in EndpointRecord /\ Answers(q, r)
      /\ wire \in [End -> Seq(Item)] /\ heard \in [End -> Seq(Nat)]
      /\ Peer(e) \in End /\ Peer(e) # e
  BY Ends2 DEF Typed, EndType, LineType, LogType, Handshake
<1> HIDE DEF q, r
<1>s. ASSUME NEW s, SetStack(e, s) PROVE stack'[e] = s
  BY <1>0, <1>s DEF SetStack
<1>p. ASSUME NEW t, SetEp(e, t) PROVE ep'[e] = t
  BY <1>0, <1>p DEF SetEp
<1>u. /\ UNCHANGED stack => stack'[e] = q
      /\ UNCHANGED ep => ep'[e] = r
      /\ UNCHANGED heard => heard'[e] = heard[e]
      /\ UNCHANGED logVars => heard'[e] = heard[e]
      /\ UNCHANGED wire => wire'[e] = wire[e]
      /\ UNCHANGED netVars => wire'[e] = wire[e]
  BY DEF q, r, logVars, netVars
<1> DEFINE Tame(t) == t.socket = r.socket /\ t.closeWasReceived = r.closeWasReceived
<1>t. /\ Tame(r) /\ Tame(More(r)) /\ Tame(Fewer(r)) /\ Tame(Closing(r)) /\ Tame(Opened(r))
      /\ Tame(Requested(r)) /\ Tame(Announced(More(r)))
  <2>1. /\ Tame(r) /\ Tame(More(r)) /\ Tame(Fewer(r)) /\ Tame(Closing(r)) /\ Tame(Opened(r))
        /\ Tame(Requested(r)) /\ More(r) \in EndpointRecord
    BY <1>0, MoreFacts, FewerFacts, ClosingFacts, OpenedFacts, RequestedFacts
  <2> QED BY <2>1, AnnouncedFacts
<1>l. /\ "closed" \in Place /\ "closing" \in Place /\ "error" \in Place /\ "failed" \in Place
      /\ "message" \in Place /\ "pass" \in Place
      /\ <<>> \in Seq(Place) /\ Pass \in Seq(Place) /\ Pass = <<"pass">>
  BY DEF Place, Pass
<1> DEFINE Calm(s) == /\ Has(s, "closed") <=> Has(q, "closed")
                      /\ r.closeWasReceived /\ Has(q, "closing") => Has(s, "closing")
<1>c. ASSUME Calm(stack'[e]), Tame(ep'[e]), heard'[e] = heard[e], wire'[e] = wire[e]
      PROVE  Rests(e)
  BY <1>c DEF Rests, q, r
<1>q. /\ Calm(q) /\ Calm(Append(q, "error")) /\ Calm(Append(q, "closing"))
      /\ q = <<>> => Calm(<<"message">>)
      /\ q # <<>> /\ Last(q) \in {"message", "error", "close"} => Calm(Front(q))
      /\ q # <<>> /\ Last(q) = "closing" /\ ~r.closeWasReceived => Calm(Front(q))
      /\ q = <<"pass">> => Calm(<<>>)
      /\ q = <<"failed">> => Calm(<<>>) /\ Calm(Append(<<>>, "closing"))
  <2>1. /\ \A f \in Place : Has(Append(q, f), "closed") <=> Has(q, "closed") \/ f = "closed"
        /\ \A f \in Place : Has(Append(q, f), "closing") <=> Has(q, "closing") \/ f = "closing"
    <3>1. \A s \in Seq(Place), f, x \in Place : Has(Append(s, f), x) <=> Has(s, x) \/ f = x
      BY HasFacts
    <3> QED BY <1>0, <1>l, <3>1
  <2>2. \A x \in {"closed", "closing"} :
          q # <<>> /\ Last(q) # x => (Has(Front(q), x) <=> Has(q, x))
    BY <1>0, <1>l, HasFacts
  <2>3. /\ ~Has(<<>>, "closed") /\ ~Has(<<>>, "closing")
        /\ ~Has(<<"message">>, "closed") /\ ~Has(<<"pass">>, "closed") /\ ~Has(<<"pass">>, "closing")
        /\ ~Has(<<"failed">>, "closed") /\ ~Has(<<"failed">>, "closing")
        /\ ~Has(Append(<<>>, "closing"), "closed")
    BY DEF Has
  <2>4. Calm(q) /\ Calm(Append(q, "error")) /\ Calm(Append(q, "closing"))
    BY <1>l, <2>1
  <2>5. /\ q # <<>> /\ Last(q) \in {"message", "error", "close"} => Calm(Front(q))
        /\ q # <<>> /\ Last(q) = "closing" /\ ~r.closeWasReceived => Calm(Front(q))
    BY <2>2
  <2> QED BY <2>3, <2>4, <2>5
<1>b. \A f : Top(e, f) => q # <<>> /\ Last(q) = f /\ Below(e) = Front(q)
  BY DEF Top, Idle, Below, q
<1> HIDE DEF Calm, Tame
<1>d. ASSUME NEW t \in EndpointRecord, NEW s, Disconnect(e, t, s), UNCHANGED heard,
             t.closeWasReceived => r.closeWasReceived \/ Reads(e, {"close"})
      PROVE  Quits(e)
  <2>1. ep'[e].socket = "none" /\ ep'[e].closeWasReceived = t.closeWasReceived
    BY <1>d, <1>p, ClosedFacts DEF Disconnect
  <2> QED BY <1>d, <1>u, <2>1 DEF Quits, r
<1>1. ASSUME Script(e) PROVE Rests(e)
  <2>1. CASE KPR_websocketclient_send(e)
    <3>1. /\ ep'[e] \in {r, More(r)} /\ stack'[e] \in {q, Append(q, "error")}
          /\ UNCHANGED <<netVars, heard>>
      BY <2>1, <1>p, <1>s, <1>u DEF KPR_websocketclient_send, SendRawFrame, CallError, q, r
    <3> QED BY <1>c, <1>q, <1>t, <1>u, <3>1
  <2>2. CASE KPR_websocketclient_close(e)
    <3>1. /\ ep'[e] = Closing(r) /\ stack'[e] \in {q, Append(q, "closing")}
          /\ UNCHANGED <<netVars, logVars>>
      BY <2>2, <1>p, <1>s DEF KPR_websocketclient_close, Close, q, r
    <3> QED BY <1>c, <1>q, <1>t, <1>u, <3>1
  <2>3. CASE KPR_websocketclient(e)
    <3>1. UNCHANGED <<ep, stack, netVars, logVars>>
      BY <2>3 DEF KPR_websocketclient
    <3> QED BY <1>c, <1>q, <1>t, <1>u, <3>1
  <2> QED BY <1>1, <2>1, <2>2, <2>3 DEF Script
<1>2. ASSUME Calls(e) PROVE Quits(e) \/ Rests(e)
  <2>1. CASE OpenDeferred(e)
    <3>1. /\ q = <<>> /\ stack'[e] = <<"message">> /\ ep'[e] = r /\ UNCHANGED <<netVars, logVars>>
      BY <2>1, <1>s, <1>u DEF OpenDeferred, Called, Idle, q
    <3> QED BY <1>c, <1>q, <1>t, <1>u, <3>1
  <2>2. CASE SendBytes(e) \/ KprSocketWriterDataWriter(e)
    <3>1. /\ ep'[e] \in {r, Fewer(r)} /\ stack'[e] = q /\ UNCHANGED logVars
      BY <2>2, <1>p, <1>u DEF SendBytes, KprSocketWriterDataWriter, r
    <3>2. wire'[e] = wire[e]
      BY <1>0, <2>2 DEF SendBytes, KprSocketWriterDataWriter, Arrives
    <3> QED BY <1>c, <1>q, <1>t, <1>u, <3>1, <3>2
  <2>3. CASE SendBytesFails(e) \/ DataWriterFails(e)
    <3>1. /\ ep'[e] \in {r, Fewer(r)} /\ stack'[e] = Append(<<>>, "closed") /\ q = <<>>
          /\ UNCHANGED heard
      BY <2>3, <1>p, <1>s, <1>u DEF SendBytesFails, DataWriterFails, CallError, Called, Idle, q, r
    <3>2. r.socket = "endpoint"
      BY <2>3 DEF SendBytesFails, DataWriterFails, Posted, r
    <3>3. Has(Append(<<>>, "closed"), "closed") /\ ~Has(<<>>, "closing")
      BY DEF Has
    <3>4. ep'[e].closeWasReceived = r.closeWasReceived
      BY <1>t, <3>1 DEF Tame
    <3> QED BY <1>u, <3>1, <3>2, <3>3, <3>4 DEF Quits, q, r
  <2>5. CASE SendBytesError(e) \/ DataWriterError(e)
    <3>1. /\ ep'[e] \in {r, Fewer(r)} /\ stack'[e] \in {<<>>, Append(<<>>, "failed")} /\ q = <<>>
          /\ UNCHANGED <<heard, wire>>
      BY <2>5, <1>p, <1>s, <1>u DEF SendBytesError, DataWriterError, HandleError, CallError, Called,
         Idle, netVars, q, r
    <3>2. ~Has(Append(<<>>, "failed"), "closed") /\ ~Has(<<>>, "closed") /\ ~Has(<<>>, "closing")
      BY DEF Has
    <3>3. Calm(stack'[e])
      BY <3>1, <3>2 DEF Calm
    <3> QED BY <1>c, <1>t, <1>u, <3>1, <3>3
  <2>4. CASE EndpointDispose(e) \/ SendDisposed(e)
    <3>1. UNCHANGED <<stack, logVars>>
      BY <2>4 DEF EndpointDispose, SendDisposed
    <3>2. CASE ep'[e] \in {r, Fewer(r), Requested(r)} /\ UNCHANGED wire
      BY <1>c, <1>q, <1>t, <1>u, <3>1, <3>2
    <3>3. CASE ~(ep'[e] \in {r, Fewer(r), Requested(r)} /\ UNCHANGED wire)
      <4>1. PICK t \in {r, Fewer(r)} : ep'[e] = Closed(t)
        BY <2>4, <3>3, <1>p, EpMoves DEF SendDisposed, Free, r
      <4>2. t \in EndpointRecord /\ t.closeWasReceived = r.closeWasReceived
        BY <1>0, FewerFacts
      <4>3. ep'[e].socket = "none" /\ ep'[e].closeWasReceived = r.closeWasReceived
        BY <4>1, <4>2, ClosedFacts
      <4> QED BY <1>u, <3>1, <4>3 DEF Quits, r
    <3> QED BY <3>2, <3>3
  <2> QED BY <1>2, <2>1, <2>2, <2>3, <2>4, <2>5 DEF Calls
<1>3. ASSUME Passes(e) PROVE Quits(e) \/ Rests(e) \/ Consumes(e)
  <2>0. Got(r) \in EndpointRecord /\ Got(r).closeWasReceived /\ Got(r).socket = r.socket
    BY <1>0, GotFacts
  <2>1. CASE HandleRefusal(e)
    <3>1. Disconnect(e, r, Pass) /\ UNCHANGED heard
      BY <2>1 DEF HandleRefusal, r
    <3> QED BY <1>0, <1>d, <3>1
  <2>2. CASE HandleCloseFrame(e)
    <3>1. Disconnect(e, Got(r), Pass) /\ UNCHANGED heard /\ Reads(e, {"close"})
      BY <2>2, EpMoves DEF HandleCloseFrame, r
    <3> QED BY <1>d, <2>0, <3>1
  <2>3. CASE ReadClosed(e)
    <3>1. /\ stack'[e] = Append(<<>>, "closed") /\ ep'[e] = r /\ r.socket = "endpoint"
          /\ Reads(e, {"fin"}) /\ UNCHANGED heard
      BY <2>3, <1>s, <1>u DEF ReadClosed, CallError, Reads, r
    <3>2. Has(Append(<<>>, "closed"), "closed") /\ ~Has(q, "closing")
      <4>1. Has(Append(<<>>, "closed"), "closed")
        BY DEF Has
      <4> QED BY <3>1, <4>1, ReadsStack DEF q
    <3> QED BY <1>u, <3>1, <3>2 DEF Quits, q, r
  <2>4. CASE EndPass(e)
    <3>1. q = <<"pass">> /\ stack'[e] = <<>> /\ ep'[e] = r /\ UNCHANGED <<netVars, logVars>>
      BY <2>4, <1>s, <1>u, BaseTop DEF EndPass, Base, q
    <3> QED BY <1>c, <1>q, <1>t, <1>u, <3>1
  <2>k. {"response", "text", "ping", "pong", "close", "fail"} \subseteq Kind \ {"fin"}
    BY DEF Kind, Sent
  <2>h. /\ ~Has(<<>>, "closed") /\ ~Has(Pass, "closed") /\ ~Has(Append(Pass, "message"), "closed")
        /\ ~Has(Append(Pass, "error"), "closed") /\ ~Has(Append(<<>>, "failed"), "closed")
        /\ ~Has(Append(Pass, "closing"), "closed") /\ Has(Append(Pass, "closing"), "closing")
    BY DEF Has, Pass
  <2>n. ASSUME NEW k \in Kind \ {"fin"}, Reads(e, {k}), Consumed(e)
        PROVE  /\ Reads(e, Kind \ {"fin"}) /\ wire'[e] = Tail(wire[e]) /\ Head(wire[e]).kind = k
    BY <1>0, <2>n DEF Reads, Consumed
  <2>5. CASE HandleTextMessage(e)
    <3>1. /\ Reads(e, {"text"}) /\ Consumed(e) /\ ep'[e] = r
          /\ stack'[e] = Append(Pass, "message")
          /\ heard'[e] = IF Callable(e) THEN Append(heard[e], Head(wire[e]).n) ELSE heard[e]
      BY <1>0, <2>5, <1>s, <1>u DEF HandleTextMessage
    <3>2. Reads(e, Kind \ {"fin"}) /\ wire'[e] = Tail(wire[e]) /\ Head(wire[e]).kind = "text"
      BY <2>k, <2>n, <3>1
    <3> QED BY <2>h, <3>1, <3>2 DEF Consumes, r
  <2>6. CASE AnswerCloseFrame(e)
    <3>1. /\ Reads(e, {"close"}) /\ Consumed(e) /\ ep'[e] = Answering(Got(r))
          /\ stack'[e] = Append(Pass, "closing") /\ UNCHANGED logVars
      BY <2>6, <1>s, <1>p, EpMoves DEF AnswerCloseFrame, r
    <3>2. Reads(e, Kind \ {"fin"}) /\ wire'[e] = Tail(wire[e]) /\ Head(wire[e]).kind = "close"
      BY <2>k, <2>n, <3>1
    <3>3. ep'[e].socket = r.socket
      BY <2>0, <3>1, AnsweringFacts
    <3> QED BY <1>u, <2>h, <3>1, <3>2, <3>3 DEF Consumes, r
  <2>7. CASE HandleResponse(e) \/ HandlePing(e) \/ HandlePong(e) \/ ReadFails(e)
    <3>1. /\ ep'[e] \in {r, Opened(r), More(r)} /\ heard'[e] = heard[e]
          /\ stack'[e] \in {<<>>, Pass, Append(Pass, "error"), Append(<<>>, "failed")}
      BY <2>7, <1>s, <1>p, <1>u, EpMoves DEF HandleResponse, HandlePing,
         HandlePong, ReadFails, HandleError, SendRawFrame, CallError, r
    <3>2. PICK k \in {"response", "ping", "pong", "fail"} : Reads(e, {k}) /\ Consumed(e)
      BY <2>7 DEF HandleResponse, HandlePing, HandlePong, ReadFails, HandleError
    <3>3. Reads(e, Kind \ {"fin"}) /\ wire'[e] = Tail(wire[e]) /\ Head(wire[e]).kind = k
      BY <2>k, <2>n, <3>2
    <3>4. Tame(ep'[e]) /\ ~Has(stack'[e], "closed")
      BY <1>t, <2>h, <3>1
    <3> QED BY <3>1, <3>3, <3>4 DEF Consumes, Tame, r
  <2> QED BY <1>3, <2>1, <2>2, <2>3, <2>4, <2>5, <2>6, <2>7 DEF Passes
<1>4. ASSUME Returns(e) PROVE Quits(e) \/ Rests(e)
  <2>1. CASE ReturnScript(e) \/ ReturnClose(e)
    <3>1. /\ stack'[e] = Front(q) /\ q # <<>> /\ ep'[e] = r /\ UNCHANGED <<netVars, logVars>>
          /\ Last(q) \in {"message", "error", "close"}
      BY <2>1, <1>s, <1>u, <1>b DEF ReturnScript, ReturnClose
    <3> QED BY <1>c, <1>q, <1>t, <1>u, <3>1
  <2>2. CASE ReturnClosed(e)
    <3>1. Disconnect(e, r, Below(e)) /\ UNCHANGED heard
      BY <2>2 DEF ReturnClosed, r
    <3> QED BY <1>0, <1>d, <3>1
  <2>3. CASE ReturnFailed(e)
    <3>1. /\ stack'[e] \in {Append(<<>>, "closing"), <<>>} /\ q = <<"failed">>
          /\ ep'[e] = Closing(r) /\ UNCHANGED <<netVars, logVars>>
      BY <1>s, <1>p, <2>3, BaseTop DEF ReturnFailed, Close, Base, q, r
    <3> QED BY <1>c, <1>q, <1>t, <1>u, <3>1
  <2>4. CASE ReturnClosing(e)
    <3> DEFINE a == Announced(More(r))
    <3>0. More(r) \in EndpointRecord /\ More(r).closeWasReceived = r.closeWasReceived
      BY <1>0, MoreFacts
    <3>1. a \in EndpointRecord /\ a.closeWasReceived = r.closeWasReceived
      BY <3>0, AnnouncedFacts
    <3>2. Clean(a) \in EndpointRecord /\ Clean(a).closeWasReceived = r.closeWasReceived
      BY <3>1, CleanFacts
    <3>3. q # <<>> /\ Last(q) = "closing" /\ Below(e) = Front(q) /\ UNCHANGED heard
      BY <2>4, <1>b DEF ReturnClosing
    <3>5. CASE r.closeWasReceived
      <4>1. Disconnect(e, Clean(a), Below(e))
        BY <2>4, <3>1, <3>5, EpMoves DEF r
      <4> QED BY <1>d, <3>2, <3>3, <3>5, <4>1
    <3>6. CASE ~r.closeWasReceived
      <4>1. /\ ep'[e] = a /\ stack'[e] = Front(q) /\ UNCHANGED wire
        BY <1>s, <1>p, <2>4, <3>1, <3>3, <3>6, EpMoves DEF r
      <4> QED BY <1>c, <1>q, <1>t, <1>u, <3>3, <3>6, <4>1
    <3> QED BY <3>5, <3>6
  <2> QED BY <1>4, <2>1, <2>2, <2>3, <2>4 DEF Returns
<1> QED BY <1>1, <1>2, <1>3, <1>4 DEF Loop

LEMMA EmptyLine ==
  ASSUME NEW s \in Seq(Item)
  PROVE  s = <<>> <=> Len(s) = 0
OBVIOUS

\* Only the end of the stream is the last frame of a stream that has ended.
LEMMA EndedStays ==
  ASSUME NEW w \in Seq(Item), w # <<>>, Head(w).kind # "fin", Ended(w)
  PROVE  Ended(Tail(w))
<1>0. Len(Tail(w)) = Len(w) - 1 /\ Len(w) \in Nat \ {0} /\ Tail(w) \in Seq(Item)
  BY TailFacts
<1>1. CASE Len(w) = 1
  <2>1. Last(w) = Head(w)
    BY <1>1, TailFacts DEF Last
  <2> QED BY <2>1 DEF Ended
<1>2. CASE Len(w) # 1
  <2>1. Len(w) - 1 # 0
    BY <1>0, <1>2
  <2>2. Tail(w) # <<>>
    BY <1>0, <2>1, EmptyLine
  <2> QED BY <2>2, EndedTail
<1> QED BY <1>1, <1>2

\* While the connection is not dropped, the script of a connected end is there.
LEMMA Heard ==
  ASSUME Inv, ~dropped, NEW e \in End, ep[e].socket = "endpoint"
  PROVE  Callable(e)
<1>1. Gone(e) /\ Typed /\ Accepting
  BY DEF Inv, EndInv
<1>2. wrapper[e] \notin {"forgotten", "collected"}
  BY <1>1 DEF Gone, Left
<1>3. wrapper[e] # "none"
  BY <1>1, Ends2 DEF Accepting
<1> QED BY <1>1, <1>2, <1>3 DEF Callable, Typed, EndType

\* The sender of the messages for e does nothing.
Silent(e) ==
  /\ ep'[Peer(e)] = ep[Peer(e)] /\ stack'[Peer(e)] = stack[Peer(e)]
  /\ queue'[Peer(e)] = queue[Peer(e)] /\ backlog'[Peer(e)] = backlog[Peer(e)]
  /\ said'[Peer(e)] = said[Peer(e)] /\ dropped' = dropped

\* e stops reading, does something else, or takes a frame.
LEMMA FlowLeft ==
  ASSUME NEW e \in End, Flow(e), Silent(e), heard'[e] = heard[e], ~Reading(e)',
         ~dropped /\ ep'[e].closeWasReceived =>
           /\ ep[Peer(e)].closeWasSent /\ Len(heard[e]) = said[Peer(e)]
           /\ ep'[e].socket = "none" \/ Has(stack'[e], "closing")
  PROVE  Flow(e)'
<1> SUFFICES ASSUME ~dropped PROVE InOrder(e)' /\ Arriving(e)' /\ Underway(e)' /\ Heeded(e)'
  BY DEF Flow, Silent
<1>1. InOrder(e)'
  BY DEF Flow, InOrder, Silent
<1>2. Arriving(e)' /\ Underway(e)'
  BY DEF Arriving, Underway, Intact
<1>3. Heeded(e)'
  BY DEF Heeded, Silent
<1> QED BY <1>1, <1>2, <1>3

LEMMA FlowKept ==
  ASSUME NEW e \in End, Flow(e), Silent(e), heard'[e] = heard[e], wire'[e] = wire[e],
         Reading(e)' <=> Reading(e), ep'[e].closeWasReceived = ep[e].closeWasReceived,
         ep[e].closeWasReceived /\ (ep[e].socket = "none" \/ Has(stack[e], "closing")) =>
           ep'[e].socket = "none" \/ Has(stack'[e], "closing")
  PROVE  Flow(e)'
<1> SUFFICES ASSUME ~dropped PROVE InOrder(e)' /\ Arriving(e)' /\ Underway(e)' /\ Heeded(e)'
  BY DEF Flow, Silent
<1>0. InOrder(e) /\ Arriving(e) /\ Underway(e) /\ Heeded(e)
  BY DEF Flow
<1>1. Reading(Peer(e))' <=> Reading(Peer(e))
  BY DEF Reading, Silent
<1>2. Intact(e)' => Intact(e)
  BY <1>1 DEF Intact, Silent
<1>3. InOrder(e)'
  BY <1>0 DEF InOrder, Silent
<1>4. Arriving(e)'
  BY <1>0 DEF Arriving, Through, Silent
<1>5. Underway(e)'
  BY <1>0, <1>2 DEF Underway, Silent
<1>6. Heeded(e)'
  BY <1>0 DEF Heeded, Silent
<1> QED BY <1>3, <1>4, <1>5, <1>6

LEMMA FlowTaken ==
  ASSUME Typed, NEW e \in End, Flow(e), Silent(e), wire[e] # <<>>, Head(wire[e]).kind # "fin",
         Reading(e), wire'[e] = Tail(wire[e]), ~ep[e].closeWasReceived,
         ~dropped =>
           heard'[e] = IF Head(wire[e]).kind = "text"
                       THEN Append(heard[e], Head(wire[e]).n) ELSE heard[e],
         ep'[e].closeWasReceived => Head(wire[e]).kind = "close" /\ Has(stack'[e], "closing")
  PROVE  Flow(e)'
<1> DEFINE p == Peer(e)
           w == wire[e]
           lo == Len(heard[e])
           up == Len(heard'[e])
<1>0. /\ p \in End /\ w \in Seq(Item) /\ heard[e] \in Seq(Nat) /\ said[p] \in Nat
      /\ backlog[p] \in Seq(Item) /\ queue[p] \in Seq(Item) /\ lo \in Nat
  BY Ends2 DEF Typed, LineType, LogType
<1> SUFFICES ASSUME ~dropped PROVE InOrder(e)' /\ Arriving(e)' /\ Underway(e)' /\ Heeded(e)'
  BY DEF Flow, Silent
<1>1. /\ ep'[p] = ep[p] /\ stack'[p] = stack[p] /\ queue'[p] = queue[p] /\ backlog'[p] = backlog[p]
      /\ said'[p] = said[p]
  BY DEF Silent
<1>2. InOrder(e) /\ Arriving(e) /\ Underway(e) /\ Heeded(e)
  BY DEF Flow
<1>3. heard'[e] = IF Head(w).kind = "text" THEN Append(heard[e], Head(w).n) ELSE heard[e]
  OBVIOUS
<1>4. up = IF Head(w).kind = "text" THEN lo + 1 ELSE lo
  BY <1>0, <1>3
<1>5. ASSUME NEW h, Through(e, w, lo, h)
      PROVE  /\ Through(e, Tail(w), up, h)
             /\ Head(w).kind = "text" => Head(w).n = lo + 1
             /\ Head(w).kind = "close" => ep[p].closeWasSent /\ lo = said[p]
  BY <1>0, <1>4, <1>5, RunsTail DEF Through
<1>6. PICK h \in Nat : h <= said[p] /\ Through(e, w, lo, h)
  BY <1>2 DEF Arriving
<1>7. Tail(w) \in Seq(Item)
  BY <1>0
<1>8. up <= h
  BY <1>0, <1>5, <1>6, <1>7, RunsFacts DEF Through
<1>9. InOrder(e)'
  <2>1. up <= said[p]
    BY <1>0, <1>4, <1>6, <1>8
  <2>2. \A i \in 1 .. up : heard'[e][i] = i
    <3>1. CASE Head(w).kind = "text"
      BY <1>0, <1>2, <1>3, <1>4, <1>5, <1>6, <3>1 DEF InOrder
    <3>2. CASE Head(w).kind # "text"
      BY <1>2, <1>3, <3>2 DEF InOrder
    <3> QED BY <3>1, <3>2
  <2> QED BY <1>1, <2>1, <2>2 DEF InOrder
<1>10. Arriving(e)'
  <2>1. Runs(wire'[e], up, h, said[p], ep[p].closeWasSent)
    BY <1>5, <1>6 DEF Through
  <2> QED BY <1>1, <1>6, <2>1 DEF Arriving, Through
<1>11. Underway(e)'
  <2>1. SUFFICES ASSUME Intact(e)'
                 PROVE  Chain(Tail(w), backlog[p], queue[p], up, said[p], ep[p].closeWasSent)
    BY <1>1 DEF Underway
  <2>2. ~Ended(w)
    BY <1>0, <2>1, EndedStays DEF Intact
  <2>3. Reading(p) /\ ep[p].socket = "endpoint"
    <3>1. Reading(p)' /\ ep'[p].socket = "endpoint"
      BY <2>1 DEF Intact
    <3> QED BY <1>1, <3>1 DEF Reading
  <2>4. Intact(e)
    BY <2>2, <2>3 DEF Intact
  <2>5. Chain(w, backlog[p], queue[p], lo, said[p], ep[p].closeWasSent)
    BY <1>2, <2>4 DEF Underway
  <2> QED BY <1>0, <1>4, <2>5, ChainRead
<1>12. Heeded(e)'
  <2>1. SUFFICES ASSUME ep'[e].closeWasReceived
                 PROVE  /\ ep[p].closeWasSent /\ up = said[p] /\ Has(stack'[e], "closing")
    BY <1>1 DEF Heeded
  <2> QED BY <1>4, <1>5, <1>6, <2>1
<1> QED BY <1>9, <1>10, <1>11, <1>12

\* A step of e keeps what is said of the messages for e.
LEMMA FlowIn ==
  ASSUME Inv, NEW e \in End, Flow(e), Script(e) \/ Loop(e)
  PROVE  Flow(e)'
<1> DEFINE p == Peer(e)
<1>0. /\ Typed /\ Shape(e) /\ Handshake(e) /\ Posted(e) /\ p \in End /\ p # e
  BY Ends2 DEF Inv, EndInv
<1>w. wire[e] \in Seq(Item)
  BY <1>0 DEF Typed, LineType
<1>1. Silent(e)
  BY <1>0, Elsewhere DEF Silent
<1>2. dropped \/ (InOrder(e) /\ Arriving(e) /\ Underway(e) /\ Heeded(e))
  BY DEF Flow
<1>3. CASE Quits(e)
  <2>1. ~Reading(e)' /\ heard'[e] = heard[e]
    BY <1>3 DEF Quits, Reading
  <2>2. ASSUME ~dropped, ep'[e].closeWasReceived
        PROVE  /\ ep[p].closeWasSent /\ Len(heard[e]) = said[p]
               /\ ep'[e].socket = "none" \/ Has(stack'[e], "closing")
    <3>1. CASE ep[e].closeWasReceived
      BY <1>2, <1>3, <2>2, <3>1 DEF Heeded, Quits
    <3>2. CASE ~ep[e].closeWasReceived
      <4>1. Reads(e, {"close"}) /\ ep'[e].socket = "none"
        BY <1>3, <2>2, <3>2 DEF Quits
      <4>2. Reading(e) /\ wire[e] # <<>> /\ Head(wire[e]).kind = "close"
        BY <1>0, <4>1, ReadsStack DEF Reading, Reads
      <4>3. PICK h \in Nat : Through(e, wire[e], Len(heard[e]), h)
        BY <1>2, <2>2, <4>2 DEF Arriving
      <4>4. ep[p].closeWasSent /\ Len(heard[e]) = said[p]
        BY <1>w, <4>2, <4>3, RunsTail DEF Through
      <4> QED BY <4>1, <4>4
    <3> QED BY <3>1, <3>2
  <2> QED BY <1>1, <2>1, <2>2, FlowLeft
<1>4. CASE Rests(e)
  <2>1. Reading(e)' <=> Reading(e)
    BY <1>4 DEF Rests, Reading
  <2>2. /\ heard'[e] = heard[e] /\ wire'[e] = wire[e]
        /\ ep'[e].closeWasReceived = ep[e].closeWasReceived
        /\ ep[e].closeWasReceived /\ (ep[e].socket = "none" \/ Has(stack[e], "closing")) =>
             ep'[e].socket = "none" \/ Has(stack'[e], "closing")
    BY <1>4 DEF Rests
  <2> QED BY <1>1, <2>1, <2>2, FlowKept
<1>5. CASE Consumes(e)
  <2>1. /\ wire[e] # <<>> /\ Head(wire[e]).kind # "fin" /\ ep[e].socket = "endpoint"
        /\ ~Has(stack[e], "closing") /\ Reading(e) /\ wire'[e] = Tail(wire[e])
    BY <1>0, <1>5, ReadsStack DEF Consumes, Reads, Reading
  <2>2. CASE dropped
    BY <1>1, <2>2 DEF Silent, Flow
  <2>3. CASE ~dropped
    <3>1. Callable(e)
      BY <2>1, <2>3, Heard
    <3>2. heard'[e] = IF Head(wire[e]).kind = "text"
                      THEN Append(heard[e], Head(wire[e]).n) ELSE heard[e]
      BY <1>5, <3>1 DEF Consumes
    <3>3. ~ep[e].closeWasReceived
      BY <1>2, <2>1, <2>3 DEF Heeded
    <3>4. ep'[e].closeWasReceived => Head(wire[e]).kind = "close" /\ Has(stack'[e], "closing")
      BY <1>5, <3>3 DEF Consumes
    <3> QED BY <1>0, <1>1, <2>1, <3>2, <3>3, <3>4, FlowTaken
  <2> QED BY <2>2, <2>3
<1> QED BY <1>0, <1>3, <1>4, <1>5, ReadMoves

-----------------------------------------------------------------------------
(* What an end does to what it sends: it posts a frame, gives it to the     *)
(* socket or to the writer, writes what is pending, drops it, or is severed. *)

Logs(e) == Later(said[e], ep[e].closeWasSent, said'[e], ep'[e].closeWasSent)

Severs(e) ==
  /\ ~Reading(e)' \/ ep'[e].socket # "endpoint"
  /\ \/ wire'[Peer(e)] = wire[Peer(e)]
     \/ \E k \in 0 .. Len(wire[Peer(e)]) :
          wire'[Peer(e)] = Append(SubSeq(wire[Peer(e)], 1, k), Frame("fin"))

Waits(e) ==
  /\ wire'[Peer(e)] = wire[Peer(e)] /\ backlog'[e] = backlog[e]
  /\ \/ queue'[e] = queue[e]
     \/ /\ queue[e] # <<>> /\ Head(queue[e]).kind # "text"
        /\ queue'[e] = Tail(queue[e])
  /\ said'[e] = said[e] /\ ep'[e].closeWasSent = ep[e].closeWasSent

Enqueues(e) ==
  /\ wire'[Peer(e)] = wire[Peer(e)] /\ backlog'[e] = backlog[e]
  /\ \E f \in Item :
       /\ queue'[e] = Append(queue[e], f)
       /\ said'[e] = IF f.kind = "text" THEN said[e] + 1 ELSE said[e]
       /\ f.kind = "text" => f.n = said'[e]
       /\ f.kind = "close" => ep'[e].closeWasSent

Stops(e) ==
  /\ wire'[Peer(e)] = wire[Peer(e)] /\ backlog'[e] = backlog[e]
  /\ said'[e] = said[e] /\ ep'[e].closeWasSent
  /\ queue'[e] = Append(Append(queue[e], Frame("close")), Frame("stop"))

Writes(e) ==
  /\ Called(e, Sent) /\ queue'[e] = Tail(queue[e]) /\ ep[e].socket = "endpoint"
  /\ said'[e] = said[e] /\ ep'[e].closeWasSent = ep[e].closeWasSent
  /\ \/ backlog[e] = <<>> /\ backlog'[e] = <<>> /\ Delivers(e, <<Head(queue[e])>>)
     \/ backlog'[e] = Append(backlog[e], Head(queue[e])) /\ wire'[Peer(e)] = wire[Peer(e)]

Flushes(e) ==
  /\ Idle(e) /\ backlog[e] # <<>> /\ queue'[e] = queue[e]
  /\ said'[e] = said[e] /\ ep'[e].closeWasSent = ep[e].closeWasSent
  /\ \E k \in 1 .. Len(backlog[e]) :
       /\ Delivers(e, SubSeq(backlog[e], 1, k))
       /\ backlog'[e] = SubSeq(backlog[e], k + 1, Len(backlog[e]))

Sheds(e) ==
  /\ wire'[Peer(e)] = wire[Peer(e)] /\ queue'[e] = queue[e]
  /\ ~HasKind(backlog[e], {"text"}) /\ backlog'[e] = <<>>
  /\ said'[e] = said[e] /\ ep'[e].closeWasSent = ep[e].closeWasSent

LEMMA SendMoves ==
  ASSUME Inv, LossType, ~dropped, NEW e \in End, Script(e) \/ Loop(e), "text" \notin lost'[e]
  PROVE  /\ Logs(e)
         /\ Severs(e) \/ Waits(e) \/ Enqueues(e) \/ Writes(e) \/ Flushes(e) \/ Sheds(e)
<1> DEFINE r == ep[e]
           p == Peer(e)
<1>0. /\ ep \in [End -> EndpointRecord] /\ stack \in [End -> Seq(Place)] /\ r \in EndpointRecord
      /\ queue \in [End -> Seq(Item)] /\ wire \in [End -> Seq(Item)]
      /\ backlog \in [End -> Seq(Item)] /\ said \in [End -> Nat]
      /\ p \in End /\ p # e /\ Typed /\ Shape(e) /\ Posted(e) /\ Disposal(e) /\ Gone(e)
  BY Ends2 DEF Inv, EndInv, Typed, EndType, LineType, LogType
<1> HIDE DEF r
<1>s. ASSUME NEW s, SetStack(e, s) PROVE stack'[e] = s
  BY <1>0, <1>s DEF SetStack
<1>p. ASSUME NEW t, SetEp(e, t) PROVE ep'[e] = t
  BY <1>0, <1>p DEF SetEp
<1>u. /\ UNCHANGED stack => stack'[e] = stack[e]
      /\ UNCHANGED ep => ep'[e] = r
      /\ UNCHANGED logVars => said'[e] = said[e]
      /\ UNCHANGED netVars => wire'[p] = wire[p] /\ backlog'[e] = backlog[e]
  BY DEF r, logVars, netVars
<1>g. ASSUME NEW f, Post(e, f) PROVE queue'[e] = Append(queue[e], f)
  BY <1>0, <1>g DEF Post
<1> DEFINE Same(t) == t.closeWasSent = r.closeWasSent /\ t.socket = r.socket
<1>t. /\ Same(r) /\ Same(More(r)) /\ Same(Fewer(r)) /\ Same(Closing(r)) /\ Same(Opened(r))
      /\ Same(Requested(r)) /\ Got(r) \in EndpointRecord /\ Same(Got(r)) /\ Same(Answering(Got(r)))
  <2>1. Same(r) /\ Same(More(r)) /\ Same(Fewer(r))
    BY <1>0, MoreFacts, FewerFacts
  <2>2. Same(Closing(r)) /\ Same(Opened(r))
    BY <1>0, ClosingFacts, OpenedFacts
  <2>3. Same(Requested(r)) /\ Got(r) \in EndpointRecord /\ Same(Got(r))
    BY <1>0, RequestedFacts, GotFacts
  <2> QED BY <2>1, <2>2, <2>3, AnsweringFacts
<1> HIDE DEF Same
\* The log stays as it is.
<1>k. ASSUME said'[e] = said[e], r.closeWasSent => ep'[e].closeWasSent PROVE Logs(e)
  BY <1>k DEF Logs, Later, r
<1>d. ASSUME NEW t \in EndpointRecord, NEW s, Disconnect(e, t, s), UNCHANGED said,
             r.closeWasSent => t.closeWasSent
      PROVE  Logs(e) /\ Severs(e)
  <2>1. ep'[e].socket = "none" /\ ep'[e].closeWasSent = t.closeWasSent
    BY <1>d, <1>p, ClosedFacts DEF Disconnect
  <2>2. Cuts(e)
    BY <1>0, <1>d, CloseCuts DEF Disconnect
  <2>3. Severs(e)
    BY <2>1, <2>2 DEF Severs, Cuts
  <2> QED BY <1>d, <1>k, <2>1, <2>3
\* Frames that are posted.
<1>f. /\ \A k \in Kind : Frame(k) \in Item /\ Frame(k).kind = k
      /\ Text(said[e] + 1) \in Item /\ Text(said[e] + 1).kind = "text"
      /\ Text(said[e] + 1).n = said[e] + 1 /\ {"close", "dispose", "open", "pong"} \subseteq Kind
  BY <1>0, Items DEF Kind, Sent
<1>e. ASSUME NEW k \in {"dispose", "open", "pong"}, queue'[e] = Append(queue[e], Frame(k)),
             wire'[p] = wire[p], backlog'[e] = backlog[e], said'[e] = said[e]
      PROVE  Enqueues(e)
  BY <1>e, <1>f DEF Enqueues
<1>1. ASSUME Script(e) PROVE Logs(e) /\ (Waits(e) \/ Enqueues(e))
  <2>1. CASE KPR_websocketclient_send(e)
    <3>1. /\ said'[e] = IF Takes(e) THEN said[e] + 1 ELSE said[e]
          /\ wire'[p] = wire[p] /\ backlog'[e] = backlog[e]
      BY <1>0, <1>u, <2>1 DEF KPR_websocketclient_send
    <3>2. CASE Takes(e)
      <4>1. ep'[e] = More(r) /\ queue'[e] = Append(queue[e], Text(said[e] + 1))
        BY <2>1, <1>p, <1>g, <3>2 DEF KPR_websocketclient_send, SendRawFrame, r
      <4>2. ~ep'[e].closeWasSent /\ ~r.closeWasSent
        BY <1>t, <3>2, <4>1 DEF Takes, Same, r
      <4>3. Enqueues(e)
        BY <1>f, <3>1, <3>2, <4>1 DEF Enqueues
      <4> QED BY <3>1, <3>2, <4>2, <4>3 DEF Logs, Later, r
    <3>3. CASE ~Takes(e)
      <4>1. ep'[e] = r /\ queue'[e] = queue[e]
        BY <2>1, <1>u, <3>3 DEF KPR_websocketclient_send, SendRawFrame
      <4> QED BY <1>k, <3>1, <3>3, <4>1 DEF Waits, r
    <3> QED BY <3>2, <3>3
  <2>2. CASE KPR_websocketclient_close(e)
    <3>1. /\ ep'[e] = Closing(r) /\ UNCHANGED <<queue, netVars, logVars>>
      BY <2>2, <1>p DEF KPR_websocketclient_close, Close, r
    <3>2. ep'[e].closeWasSent = r.closeWasSent
      BY <1>t, <3>1 DEF Same
    <3> QED BY <1>k, <1>u, <3>1, <3>2 DEF Waits, r
  <2>3. CASE KPR_websocketclient(e)
    <3>1. /\ ep'[e] = r /\ queue'[e] = Append(queue[e], Frame("dispose"))
          /\ UNCHANGED <<netVars, logVars>>
      BY <2>3, <1>g, <1>u DEF KPR_websocketclient
    <3> QED BY <1>e, <1>k, <1>u, <3>1
  <2> QED BY <1>1, <2>1, <2>2, <2>3 DEF Script
<1>2. ASSUME Calls(e)
      PROVE  Logs(e) /\ (Severs(e) \/ Waits(e) \/ Writes(e) \/ Flushes(e) \/ Sheds(e))
  <2>1. CASE OpenDeferred(e)
    <3>1. /\ queue[e] # <<>> /\ Head(queue[e]).kind # "text"
          /\ queue'[e] = Tail(queue[e]) /\ ep'[e] = r
          /\ UNCHANGED <<netVars, logVars>>
      BY <1>0, <2>1, <1>u DEF OpenDeferred, Dequeue, Called
    <3> QED BY <1>k, <1>u, <3>1 DEF Waits, r
  <2>2. CASE SendBytes(e)
    <3>1. /\ Called(e, Sent) /\ queue'[e] = Tail(queue[e]) /\ ep'[e] = Fewer(r)
          /\ UNCHANGED <<stack, logVars>>
      BY <1>0, <2>2, <1>p DEF SendBytes, Dequeue, r
    <3>2. ep'[e].closeWasSent = r.closeWasSent /\ ep'[e].socket = r.socket
      BY <1>t, <3>1 DEF Same
    <3>3. CASE r.socket # "endpoint"
      <4>1. wire'[p] = wire[p]
        BY <2>2, <3>3 DEF SendBytes, r
      <4> QED BY <1>k, <1>u, <3>1, <3>2, <3>3, <4>1 DEF Severs
    <3>4. CASE r.socket = "endpoint"
      <4>1. \/ backlog[e] = <<>> /\ Arrives(e, <<Head(queue[e])>>) /\ UNCHANGED backlog
            \/ /\ backlog' = [backlog EXCEPT ![e] = Append(@, Head(queue[e]))] /\ UNCHANGED wire
        BY <2>2, <3>4 DEF SendBytes, r
      <4>2. \/ backlog[e] = <<>> /\ backlog'[e] = <<>> /\ Delivers(e, <<Head(queue[e])>>)
            \/ backlog'[e] = Append(backlog[e], Head(queue[e])) /\ wire'[p] = wire[p]
        BY <1>0, <4>1 DEF Arrives, Delivers
      <4> QED BY <1>k, <1>u, <3>1, <3>2, <3>4, <4>2 DEF Writes, r
    <3> QED BY <3>3, <3>4
  <2>3. CASE KprSocketWriterDataWriter(e)
    <3>1. PICK k \in 1 .. Len(backlog[e]) :
            /\ Arrives(e, SubSeq(backlog[e], 1, k))
            /\ backlog' = [backlog EXCEPT ![e] = SubSeq(@, k + 1, Len(@))]
      BY <2>3 DEF KprSocketWriterDataWriter
    <3>2. backlog'[e] = SubSeq(backlog[e], k + 1, Len(backlog[e]))
      BY <1>0, <3>1
    <3>3. UNCHANGED <<ep, queue, logVars>> /\ backlog[e] # <<>> /\ Idle(e)
      BY <2>3 DEF KprSocketWriterDataWriter
    <3>4. Delivers(e, SubSeq(backlog[e], 1, k))
      BY <1>0, <3>1 DEF Arrives, Delivers
    <3> QED BY <1>k, <1>u, <3>2, <3>3, <3>4 DEF Flushes, r
  <2>4. CASE SendBytesFails(e) \/ DataWriterFails(e)
    <3>1. /\ ep'[e] \in {r, Fewer(r)} /\ stack'[e] = Append(<<>>, "closed")
          /\ wire'[p] = wire[p] /\ said'[e] = said[e]
      BY <2>4, <1>p, <1>s, <1>u DEF SendBytesFails, DataWriterFails, CallError, netVars, r
    <3>2. Has(Append(<<>>, "closed"), "closed")
      BY DEF Has
    <3>3. ep'[e].closeWasSent = r.closeWasSent
      BY <1>t, <3>1 DEF Same
    <3>4. ~Reading(e)'
      BY <3>1, <3>2 DEF Reading
    <3> QED BY <1>k, <3>1, <3>3, <3>4 DEF Severs
  <2>6. CASE SendBytesError(e)
    <3>1. /\ ep'[e] = Fewer(r) /\ queue[e] # <<>> /\ queue'[e] = Tail(queue[e])
          /\ wire'[p] = wire[p] /\ backlog'[e] = backlog[e] /\ said'[e] = said[e]
      BY <1>0, <2>6, <1>p, <1>u DEF SendBytesError, Called, Dequeue, r
    <3>2. lost' = [lost EXCEPT ![e] = @ \union {Head(queue[e]).kind}]
      BY <2>6 DEF SendBytesError, Drops
    <3>3. Head(queue[e]).kind # "text"
      BY <3>2 DEF LossType
    <3>4. ep'[e].closeWasSent = r.closeWasSent
      BY <1>t, <3>1 DEF Same
    <3> QED BY <1>k, <3>1, <3>3, <3>4 DEF Waits, r
  <2>7. CASE DataWriterError(e)
    <3>1. /\ ep'[e] = r /\ queue'[e] = queue[e] /\ backlog'[e] = <<>>
          /\ wire'[p] = wire[p] /\ said'[e] = said[e]
      BY <1>0, <2>7, <1>u DEF DataWriterError
    <3>2. lost' = [lost EXCEPT ![e] = @ \union {backlog[e][i].kind : i \in DOMAIN backlog[e]}]
      BY <2>7 DEF DataWriterError, Drops
    <3>3. \A i \in DOMAIN backlog[e] : backlog[e][i].kind # "text"
      BY <3>2 DEF LossType
    <3>4. ~HasKind(backlog[e], {"text"})
      <4>1. DOMAIN backlog[e] = 1 .. Len(backlog[e])
        BY <1>0
      <4> QED BY <3>3, <4>1 DEF HasKind
    <3> QED BY <1>k, <3>1, <3>4 DEF Sheds, r
  <2>5. CASE EndpointDispose(e) \/ SendDisposed(e)
    <3>1. wrapper[e] = "collected"
      <4>1. CASE SendDisposed(e)
        BY <1>0, <4>1, FewerFacts DEF SendDisposed, Disposal, r
      <4>2. CASE EndpointDispose(e)
        <5>1. queue[e] \in Seq(Item) /\ queue[e] # <<>> /\ Head(queue[e]).kind = "dispose"
          BY <1>0, <4>2 DEF EndpointDispose, Called
        <5>2. 1 \in 1 .. Len(queue[e]) /\ queue[e][1].kind = "dispose"
          BY <5>1
        <5> QED BY <1>0, <5>2 DEF Disposal
      <4> QED BY <2>5, <4>1, <4>2
    <3>2. r.socket = "none"
      BY <1>0, <3>1 DEF Gone, Left, r
    <3>3. Fewer(r).socket = "none" /\ Requested(r).socket = "none"
      BY <1>t, <3>2 DEF Same
    <3>4. ep'[e] \in {r, Fewer(r), Requested(r)} /\ UNCHANGED <<wire, logVars>>
      BY <1>p, <2>5, <3>2, <3>3, EpMoves DEF EndpointDispose, SendDisposed, Free, r
    <3>5. ep'[e].socket = "none" /\ ep'[e].closeWasSent = r.closeWasSent
      BY <1>t, <3>2, <3>4 DEF Same
    <3> QED BY <1>k, <1>u, <3>4, <3>5 DEF Severs
  <2> QED BY <1>2, <2>1, <2>2, <2>3, <2>4, <2>5, <2>6, <2>7 DEF Calls
<1>3. ASSUME Passes(e) PROVE Logs(e) /\ (Severs(e) \/ Waits(e) \/ Enqueues(e))
  <2>1. CASE HandleRefusal(e)
    <3>1. Disconnect(e, r, Pass) /\ UNCHANGED said
      BY <2>1 DEF HandleRefusal, r
    <3> QED BY <1>0, <1>d, <3>1
  <2>2. CASE HandleCloseFrame(e)
    <3>1. Disconnect(e, Got(r), Pass) /\ UNCHANGED said
      BY <2>2, EpMoves DEF HandleCloseFrame, r
    <3> QED BY <1>d, <1>t, <3>1 DEF Same
  <2>w. ASSUME NEW K, Reads(e, K), Consumed(e) PROVE wire'[p] = wire[p]
    BY <1>0, <2>w DEF Consumed
  <2>3. CASE HandleResponse(e)
    <3>1. /\ ep'[e] = Opened(r) /\ queue'[e] = Append(queue[e], Frame("open"))
          /\ wire'[p] = wire[p] /\ backlog'[e] = backlog[e] /\ said'[e] = said[e]
      BY <2>3, <2>w, <1>g, <1>p, <1>u, EpMoves DEF HandleResponse, r
    <3>2. ep'[e].closeWasSent = r.closeWasSent
      BY <1>t, <3>1 DEF Same
    <3> QED BY <1>e, <1>k, <3>1, <3>2
  <2>4. CASE HandlePing(e)
    <3>1. wire'[p] = wire[p] /\ backlog'[e] = backlog[e] /\ said'[e] = said[e]
      BY <2>4, <2>w DEF HandlePing
    <3>2. CASE Takes(e)
      <4>1. ep'[e] = More(r) /\ queue'[e] = Append(queue[e], Frame("pong"))
        BY <2>4, <3>2, <1>g, <1>p DEF HandlePing, SendRawFrame, r
      <4>2. ep'[e].closeWasSent = r.closeWasSent
        BY <1>t, <4>1 DEF Same
      <4> QED BY <1>e, <1>k, <3>1, <4>1, <4>2
    <3>3. CASE ~Takes(e)
      <4>1. ep'[e] = r /\ queue'[e] = queue[e]
        BY <2>4, <3>3, <1>u DEF HandlePing, SendRawFrame
      <4> QED BY <1>k, <3>1, <4>1 DEF Waits, r
    <3> QED BY <3>2, <3>3
  <2>5. CASE \/ EndPass(e) \/ HandleTextMessage(e) \/ HandlePong(e) \/ AnswerCloseFrame(e)
             \/ ReadClosed(e) \/ ReadFails(e)
    <3>1. /\ ep'[e] \in {r, Answering(Got(r))} /\ queue'[e] = queue[e]
          /\ backlog'[e] = backlog[e] /\ said'[e] = said[e]
      BY <2>5, <1>p, <1>u, EpMoves DEF EndPass, HandleTextMessage, HandlePong, AnswerCloseFrame,
         ReadClosed, ReadFails, HandleError, netVars, r
    <3>2. wire'[p] = wire[p]
      BY <2>5, <2>w, <1>u DEF EndPass, HandleTextMessage, HandlePong, AnswerCloseFrame,
         ReadClosed, ReadFails, HandleError
    <3>3. ep'[e].closeWasSent = r.closeWasSent
      BY <1>t, <3>1 DEF Same
    <3> QED BY <1>k, <3>1, <3>2, <3>3 DEF Waits, r
  <2> QED BY <1>3, <2>1, <2>2, <2>3, <2>4, <2>5 DEF Passes
<1>4. ASSUME Returns(e) PROVE Logs(e) /\ (Severs(e) \/ Waits(e) \/ Enqueues(e))
  <2>1. CASE ReturnScript(e) \/ ReturnClose(e) \/ ReturnFailed(e)
    <3>1. ep'[e] \in {r, Closing(r)} /\ UNCHANGED <<queue, netVars, logVars>>
      BY <2>1, <1>p, <1>u DEF ReturnScript, ReturnClose, ReturnFailed, Close, r
    <3>2. ep'[e].closeWasSent = r.closeWasSent
      BY <1>t, <3>1 DEF Same
    <3> QED BY <1>k, <1>u, <3>1, <3>2 DEF Waits, r
  <2>2. CASE ReturnClosed(e)
    <3>1. Disconnect(e, r, Below(e)) /\ UNCHANGED said
      BY <2>2 DEF ReturnClosed, r
    <3> QED BY <1>0, <1>d, <3>1
  <2>3. CASE ReturnClosing(e)
    <3> DEFINE a == Announced(More(r))
    <3>0. More(r) \in EndpointRecord
      BY <1>0, MoreFacts
    <3>1. a \in EndpointRecord /\ a.closeWasSent
      BY <3>0, AnnouncedFacts
    <3>2. Clean(a) \in EndpointRecord /\ Clean(a).closeWasSent
      BY <3>1, CleanFacts
    <3>3. queue'[e] = Append(queue[e], Frame("close")) /\ UNCHANGED said
      BY <2>3, <1>g DEF ReturnClosing
    <3>4. CASE a.closeWasReceived
      <4>1. Disconnect(e, Clean(a), Below(e))
        BY <2>3, <3>4, EpMoves DEF r
      <4> QED BY <1>d, <3>2, <3>3, <4>1
    <3>5. CASE ~a.closeWasReceived
      <4>1. ep'[e] = a /\ UNCHANGED <<wire, backlog>>
        BY <1>p, <2>3, <3>5, EpMoves DEF r
      <4>2. Enqueues(e)
        BY <1>f, <3>1, <3>3, <4>1 DEF Enqueues
      <4> QED BY <1>k, <3>1, <3>3, <4>1, <4>2
    <3> QED BY <3>4, <3>5
  <2> QED BY <1>4, <2>1, <2>2, <2>3 DEF Returns
<1> QED BY <1>1, <1>2, <1>3, <1>4 DEF Loop

\* An end that still reads after its step was reading before it.
LEMMA ReadingOn ==
  ASSUME Inv, NEW e \in End, Script(e) \/ Loop(e), Reading(e)'
  PROVE  Reading(e) /\ ep'[e].socket = ep[e].socket
<1>0. Typed /\ Shape(e) /\ Handshake(e) /\ Posted(e)
  BY DEF Inv, EndInv
<1>1. ~Quits(e)
  BY DEF Quits, Reading
<1>2. CASE Rests(e)
  BY <1>2 DEF Rests, Reading
<1>3. CASE Consumes(e)
  BY <1>0, <1>3, ReadsStack DEF Consumes, Reads, Reading
<1> QED BY <1>0, <1>1, <1>2, <1>3, ReadMoves

\* Whatever e does to what it sends keeps what is said of the messages for its
\* peer.
LEMMA FlowSends ==
  ASSUME Typed, Typed', NEW e \in End, Flow(Peer(e)), Posted(e),
         ep'[Peer(e)] = ep[Peer(e)], stack'[Peer(e)] = stack[Peer(e)],
         heard'[Peer(e)] = heard[Peer(e)], dropped' = dropped,
         Reading(e)' /\ ep'[e].socket = "endpoint" => Reading(e) /\ ep[e].socket = "endpoint",
         ~dropped =>
           /\ Logs(e)
           /\ \/ Severs(e) \/ Waits(e) \/ Enqueues(e) \/ Writes(e) \/ Flushes(e) \/ Sheds(e)
              \/ Stops(e)
  PROVE  Flow(Peer(e))'
<1> DEFINE d == Peer(e)
           lo == Len(heard[d])
<1>0. /\ Typed /\ d \in End /\ d # e /\ Peer(d) = e /\ heard[d] \in Seq(Nat) /\ lo \in Nat
      /\ wire[d] \in Seq(Item) /\ queue[e] \in Seq(Item) /\ backlog[e] \in Seq(Item)
      /\ said[e] \in Nat /\ ep[e] \in EndpointRecord /\ ep[e].closeWasSent \in BOOLEAN
  <2>1. Typed /\ d \in End /\ d # e /\ Peer(d) = e
    BY Ends2
  <2>2. ep[e] \in EndpointRecord /\ said[e] \in Nat /\ heard[d] \in Seq(Nat)
    BY <2>1 DEF Typed, EndType, LogType
  <2>3. wire[d] \in Seq(Item) /\ queue[e] \in Seq(Item) /\ backlog[e] \in Seq(Item)
    BY <2>1 DEF Typed, LineType
  <2>4. ep[e].closeWasSent \in BOOLEAN
    BY <2>2 DEF EndpointRecord
  <2> QED BY <2>1, <2>2, <2>3, <2>4
<1>1. /\ ep'[d] = ep[d] /\ stack'[d] = stack[d] /\ heard'[d] = heard[d] /\ dropped' = dropped
  OBVIOUS
<1>2. said'[e] \in Nat /\ ep'[e].closeWasSent \in BOOLEAN
  BY <1>0 DEF Typed, EndType, LogType, EndpointRecord
<1> SUFFICES ASSUME ~dropped PROVE InOrder(d)' /\ Arriving(d)' /\ Underway(d)' /\ Heeded(d)'
  BY <1>1 DEF Flow
<1>3. InOrder(d) /\ Arriving(d) /\ Underway(d) /\ Heeded(d)
  BY DEF Flow
<1>4. /\ Logs(e)
      /\ \/ Severs(e) \/ Waits(e) \/ Enqueues(e) \/ Writes(e) \/ Flushes(e) \/ Sheds(e)
         \/ Stops(e)
  OBVIOUS
<1>5. Later(said[e], ep[e].closeWasSent, said'[e], ep'[e].closeWasSent)
  BY <1>4 DEF Logs
<1>6. InOrder(d)'
  <2>1. lo <= said'[e]
    BY <1>0, <1>2, <1>3, <1>5 DEF InOrder, Later
  <2> QED BY <1>0, <1>1, <1>3, <2>1 DEF InOrder
<1>7. Heeded(d)'
  <2>1. SUFFICES ASSUME ep[d].closeWasReceived
                 PROVE  ep'[e].closeWasSent /\ lo = said'[e]
    BY <1>0, <1>1, <1>3 DEF Heeded
  <2>2. ep[e].closeWasSent /\ lo = said[e]
    BY <1>0, <1>3, <2>1 DEF Heeded
  <2> QED BY <1>5, <2>2 DEF Later
<1>8. Reading(d)' <=> Reading(d)
  BY <1>1 DEF Reading
\* What arrives at d when nothing of e gets through.
<1>9. ASSUME \/ wire'[d] = wire[d]
             \/ \E k \in 0 .. Len(wire[d]) :
                  wire'[d] = Append(SubSeq(wire[d], 1, k), Frame("fin"))
      PROVE  Arriving(d)'
  <2>1. SUFFICES ASSUME Reading(d)
                 PROVE  \E h \in Nat : /\ h <= said'[e]
                                       /\ Runs(wire'[d], lo, h, said'[e], ep'[e].closeWasSent)
    BY <1>0, <1>1, <1>8 DEF Arriving, Through
  <2>2. PICK h \in Nat : h <= said[e] /\ Runs(wire[d], lo, h, said[e], ep[e].closeWasSent)
    BY <1>0, <1>3, <2>1 DEF Arriving, Through
  <2>3. Runs(wire[d], lo, h, said'[e], ep'[e].closeWasSent)
    BY <1>0, <1>2, <1>5, <2>2, RunsOn
  <2>4. h <= said'[e]
    BY <1>0, <1>2, <1>5, <2>2 DEF Later
  <2>5. CASE wire'[d] = wire[d]
    BY <2>3, <2>4, <2>5
  <2>6. CASE wire'[d] # wire[d]
    <3>1. PICK k \in 0 .. Len(wire[d]) : wire'[d] = Append(SubSeq(wire[d], 1, k), Frame("fin"))
      BY <1>9, <2>6
    <3> QED BY <1>0, <1>2, <2>3, <2>4, <3>1, RunsEnd
  <2> QED BY <2>5, <2>6
\* The chain from d to e before the step, and after it.
<1> DEFINE Before0 == Chain(wire[d], backlog[e], queue[e], lo, said[e], ep[e].closeWasSent)
           After0 == Chain(wire'[d], backlog'[e], queue'[e], lo, said'[e], ep'[e].closeWasSent)
<1>10. ASSUME Intact(d)', ~Ended(wire[d]) PROVE Before0
  <2>1. Reading(d) /\ Reading(e)' /\ ep'[e].socket = "endpoint"
    BY <1>0, <1>8, <1>10 DEF Intact
  <2>2. Reading(e) /\ ep[e].socket = "endpoint"
    BY <2>1
  <2>3. Intact(d)
    BY <1>0, <1>10, <2>1, <2>2 DEF Intact
  <2> QED BY <1>0, <1>3, <2>3 DEF Underway
<1>11. ASSUME Intact(d)' => After0 PROVE Underway(d)'
  BY <1>0, <1>1, <1>11 DEF Underway
<1>12. ASSUME Intact(d)' PROVE ~Ended(wire'[d])
  BY <1>12 DEF Intact
<1>13. CASE Severs(e)
  <2>1. ~Intact(d)'
    BY <1>0, <1>13 DEF Severs, Intact
  <2>2. Arriving(d)'
    BY <1>9, <1>13 DEF Severs
  <2> QED BY <1>6, <1>7, <1>11, <2>1, <2>2
<1>14. CASE Waits(e)
  <2>1. wire'[d] = wire[d]
    BY <1>14 DEF Waits
  <2>2. ASSUME Intact(d)' PROVE After0
    <3>1. Before0
      BY <1>10, <1>12, <2>1, <2>2
    <3>2. CASE queue'[e] = queue[e]
      BY <1>14, <3>1, <3>2 DEF Waits
    <3>3. CASE /\ queue[e] # <<>> /\ Head(queue[e]).kind # "text"
               /\ queue'[e] = Tail(queue[e])
      <4>1. queue[e] # <<>> /\ Head(queue[e]).kind # "text"
        BY <3>3
      <4>2. Chain(wire[d], backlog[e], Tail(queue[e]), lo, said[e], ep[e].closeWasSent)
        BY <1>0, <3>1, <4>1, ChainSkip
      <4> QED BY <1>14, <3>3, <4>2 DEF Waits
    <3> QED BY <1>14, <3>2, <3>3 DEF Waits
  <2> QED BY <1>6, <1>7, <1>9, <1>11, <2>1, <2>2
<1>15. CASE Enqueues(e)
  <2>1. wire'[d] = wire[d] /\ backlog'[e] = backlog[e]
    BY <1>15 DEF Enqueues
  <2>2. ASSUME Intact(d)' PROVE After0
    <3>1. Before0
      BY <1>10, <1>12, <2>1, <2>2
    <3>2. PICK f \in Item :
            /\ queue'[e] = Append(queue[e], f)
            /\ said'[e] = IF f.kind = "text" THEN said[e] + 1 ELSE said[e]
            /\ f.kind = "text" => f.n = said'[e]
            /\ f.kind = "close" => ep'[e].closeWasSent
      BY <1>15 DEF Enqueues
    <3>3. Chain(wire[d], backlog[e], Append(queue[e], f), lo, said'[e], ep'[e].closeWasSent)
      BY <1>0, <1>2, <1>5, <3>1, <3>2, ChainPost
    <3> QED BY <2>1, <3>2, <3>3
  <2> QED BY <1>6, <1>7, <1>9, <1>11, <2>1, <2>2
\* What e writes gets through when d is there; then everything is underway.
<1>16. ASSUME Idle(e), ep[e].socket = "endpoint", Reading(d), ~Ended(wire[d]) PROVE Before0
  <2>1. Reading(e)
    BY <1>16 DEF Idle, Reading, Has
  <2>2. Intact(d)
    BY <1>0, <1>16, <2>1 DEF Intact
  <2> QED BY <1>0, <1>3, <2>2 DEF Underway
<1>17. ASSUME After0, wire'[d] \in Seq(Item), backlog'[e] \in Seq(Item), queue'[e] \in Seq(Item)
       PROVE  Arriving(d)' /\ Underway(d)'
  <2>1. \E h \in Nat : h <= said'[e] /\ Runs(wire'[d], lo, h, said'[e], ep'[e].closeWasSent)
    BY <1>2, <1>17, ChainFirst
  <2>2. Arriving(d)'
    BY <1>0, <1>1, <2>1 DEF Arriving, Through
  <2> QED BY <1>11, <1>17, <2>2
<1>18. wire'[d] \in Seq(Item) /\ backlog'[e] \in Seq(Item) /\ queue'[e] \in Seq(Item)
  BY <1>0 DEF Typed, LineType
<1>19. ASSUME NEW s, Delivers(e, s), ~(Reading(d) /\ ~Ended(wire[d]))
       PROVE  Arriving(d)' /\ Underway(d)'
  <2>1. CASE Fits(d)
    <3>1. ~Reading(d)'
      BY <1>8, <1>19, <2>1 DEF Fits
    <3> QED BY <3>1 DEF Arriving, Underway, Intact
  <2>2. CASE ~Fits(d)
    <3>1. wire'[d] = wire[d]
      BY <1>19, <2>2 DEF Delivers
    <3>2. ~Intact(d)'
      BY <1>8, <1>12, <1>19, <3>1 DEF Intact
    <3> QED BY <1>9, <1>11, <3>1, <3>2
  <2> QED BY <2>1, <2>2
<1>20. CASE Writes(e)
  <2>0. /\ Idle(e) /\ queue[e] # <<>> /\ ep[e].socket = "endpoint" /\ queue'[e] = Tail(queue[e])
        /\ said'[e] = said[e] /\ ep'[e].closeWasSent = ep[e].closeWasSent
    BY <1>20 DEF Writes, Called
  <2>1. CASE backlog[e] = <<>> /\ backlog'[e] = <<>> /\ Delivers(e, <<Head(queue[e])>>)
    <3>1. CASE Reading(d) /\ ~Ended(wire[d])
      <4>1. Before0
        BY <1>16, <2>0, <3>1
      <4>2. Head(queue[e]) \in Item
        BY <1>0, <2>0
      <4>3. wire'[d] = Append(wire[d], Head(queue[e]))
        <5>1. wire'[d] = wire[d] \o <<Head(queue[e])>>
          BY <2>1, <3>1 DEF Delivers, Fits, Reading
        <5>2. wire[d] \o <<Head(queue[e])>> = Append(wire[d], Head(queue[e]))
          BY <1>0, <4>2
        <5> QED BY <5>1, <5>2
      <4>4. Chain(Append(wire[d], Head(queue[e])), <<>>, Tail(queue[e]), lo, said[e], ep[e].closeWasSent)
        BY <1>0, <2>0, <2>1, <4>1, ChainWrite
      <4>5. After0
        BY <2>0, <2>1, <4>3, <4>4
      <4> QED BY <1>6, <1>7, <1>17, <1>18, <4>5
    <3>2. CASE ~(Reading(d) /\ ~Ended(wire[d]))
      BY <1>6, <1>7, <1>19, <2>1, <3>2
    <3> QED BY <3>1, <3>2
  <2>2. CASE backlog'[e] = Append(backlog[e], Head(queue[e])) /\ wire'[d] = wire[d]
    <3>1. ASSUME Intact(d)' PROVE After0
      <4>1. Before0
        BY <1>10, <1>12, <2>2, <3>1
      <4>2. Chain(wire[d], Append(backlog[e], Head(queue[e])), Tail(queue[e]), lo, said[e],
                  ep[e].closeWasSent)
        BY <1>0, <2>0, <4>1, ChainHold
      <4> QED BY <2>0, <2>2, <4>2
    <3> QED BY <1>6, <1>7, <1>9, <1>11, <2>2, <3>1
  <2> QED BY <1>20, <2>1, <2>2 DEF Writes
<1>21. CASE Flushes(e)
  <2>0. /\ Idle(e) /\ queue'[e] = queue[e] /\ ep[e].socket = "endpoint"
        /\ said'[e] = said[e] /\ ep'[e].closeWasSent = ep[e].closeWasSent
    BY <1>21 DEF Flushes, Posted
  <2>1. PICK k \in 1 .. Len(backlog[e]) :
          /\ Delivers(e, SubSeq(backlog[e], 1, k))
          /\ backlog'[e] = SubSeq(backlog[e], k + 1, Len(backlog[e]))
    BY <1>21 DEF Flushes
  <2>2. CASE Reading(d) /\ ~Ended(wire[d])
    <3>1. Before0 /\ k \in 0 .. Len(backlog[e])
      BY <1>16, <2>0, <2>2
    <3>2. wire'[d] = wire[d] \o SubSeq(backlog[e], 1, k)
      BY <2>1, <2>2 DEF Delivers, Fits, Reading
    <3>3. Chain(wire[d] \o SubSeq(backlog[e], 1, k), SubSeq(backlog[e], k + 1, Len(backlog[e])),
                queue[e], lo, said[e], ep[e].closeWasSent)
      BY <1>0, <3>1, ChainFlush
    <3>4. After0
      BY <2>0, <2>1, <3>2, <3>3
    <3> QED BY <1>6, <1>7, <1>17, <1>18, <3>4
  <2>3. CASE ~(Reading(d) /\ ~Ended(wire[d]))
    BY <1>6, <1>7, <1>19, <2>1, <2>3
  <2> QED BY <2>2, <2>3
<1>22. CASE Stops(e)
  <2> DEFINE q == Append(queue[e], Frame("close"))
  <2>1. /\ wire'[d] = wire[d] /\ backlog'[e] = backlog[e] /\ said'[e] = said[e]
        /\ ep'[e].closeWasSent /\ queue'[e] = Append(q, Frame("stop"))
    BY <1>22 DEF Stops
  <2>2. /\ Frame("close") \in Item /\ Frame("close").kind = "close"
        /\ Frame("stop") \in Item /\ Frame("stop").kind = "stop"
    BY Items DEF Kind, Sent
  <2>3. q \in Seq(Item)
    BY <1>0, <2>2
  <2> HIDE DEF q
  <2>4. ASSUME Intact(d)' PROVE After0
    <3>1. Before0
      BY <1>10, <1>12, <2>1, <2>4
    <3>2. Chain(wire[d], backlog[e], q, lo, said'[e], ep'[e].closeWasSent)
      <4>1. PICK f \in Item : f = Frame("close") /\ f.kind = "close"
        BY <2>2
      <4>3. /\ said'[e] = IF f.kind = "text" THEN said[e] + 1 ELSE said[e]
            /\ f.kind = "text" => f.n = said'[e]
            /\ f.kind = "close" => ep'[e].closeWasSent
        BY <2>1, <4>1
      <4>2. Chain(wire[d], backlog[e], Append(queue[e], f), lo, said'[e], ep'[e].closeWasSent)
        BY <1>0, <1>2, <1>5, <3>1, <4>3, ChainPost
      <4> QED BY <4>1, <4>2 DEF q
    <3>3. Later(said'[e], ep'[e].closeWasSent, said'[e], ep'[e].closeWasSent)
      BY DEF Later
    <3>4. Chain(wire[d], backlog[e], Append(q, Frame("stop")), lo, said'[e], ep'[e].closeWasSent)
      BY <1>0, <1>2, <2>2, <2>3, <3>2, <3>3, ChainPost
    <3> QED BY <2>1, <3>4
  <2> QED BY <1>6, <1>7, <1>9, <1>11, <2>1, <2>4
<1>23. CASE Sheds(e)
  <2>1. wire'[d] = wire[d]
    BY <1>23 DEF Sheds
  <2>2. ASSUME Intact(d)' PROVE After0
    <3>1. Before0
      BY <1>10, <1>12, <2>1, <2>2
    <3>2. ~HasKind(backlog[e], {"text"})
      BY <1>23 DEF Sheds
    <3>3. Chain(wire[d], <<>>, queue[e], lo, said[e], ep[e].closeWasSent)
      BY <1>0, <3>1, <3>2, ChainShed
    <3> QED BY <1>23, <2>1, <3>3 DEF Sheds
  <2> QED BY <1>6, <1>7, <1>9, <1>11, <2>1, <2>2
<1> QED BY <1>4, <1>13, <1>14, <1>15, <1>20, <1>21, <1>22, <1>23

\* A step of e that drops no message keeps what is said of the messages for its
\* peer.
LEMMA FlowOut ==
  ASSUME Inv, LossType, NEW e \in End, Flow(Peer(e)), Script(e) \/ Loop(e), "text" \notin lost'[e]
  PROVE  Flow(Peer(e))'
<1>0. Typed /\ Posted(e) /\ Peer(e) \in End /\ Peer(e) # e
  BY Ends2 DEF Inv, EndInv
<1>1. Typed'
  BY <1>0, TypedStep DEF Next
<1>2. /\ ep'[Peer(e)] = ep[Peer(e)] /\ stack'[Peer(e)] = stack[Peer(e)]
      /\ heard'[Peer(e)] = heard[Peer(e)] /\ dropped' = dropped
  BY <1>0, Elsewhere
<1>3. Reading(e)' => Reading(e) /\ ep'[e].socket = ep[e].socket
  BY ReadingOn
<1>4. ~dropped =>
        /\ Logs(e)
        /\ Severs(e) \/ Waits(e) \/ Enqueues(e) \/ Writes(e) \/ Flushes(e) \/ Sheds(e)
  BY SendMoves
<1> QED BY <1>0, <1>1, <1>2, <1>3, <1>4, FlowSends

-----------------------------------------------------------------------------
(* The steps of the connection and of the server. *)

\* Nothing has been said to e yet, or nothing can be.
LEMMA FlowFresh ==
  ASSUME Typed', NEW e \in End, heard'[e] = <<>>, said'[Peer(e)] = 0, ~ep'[e].closeWasReceived,
         ~HasKind(wire'[e], {"text", "close"}),
         \/ ep'[Peer(e)].socket # "endpoint"
         \/ /\ ~HasKind(backlog'[Peer(e)], {"text", "close"})
            /\ ~HasKind(queue'[Peer(e)], {"text", "close"})
  PROVE  Flow(e)'
<1> DEFINE p == Peer(e)
           done == ep'[p].closeWasSent
<1>0. /\ p \in End /\ wire'[e] \in Seq(Item) /\ backlog'[p] \in Seq(Item) /\ queue'[p] \in Seq(Item)
      /\ Len(heard'[e]) = 0 /\ 0 \in Nat
  BY Ends2 DEF Typed, LineType
<1>1. InOrder(e)'
  BY <1>0 DEF InOrder
<1>2. Heeded(e)'
  BY DEF Heeded
<1>3. Runs(wire'[e], 0, 0, 0, done)
  BY <1>0, RunsPlain
<1>4. Arriving(e)'
  <2>1. \E h \in Nat : h <= 0 /\ Runs(wire'[e], 0, h, 0, done)
    BY <1>3
  <2> QED BY <1>0, <2>1 DEF Arriving, Through
<1>5. Underway(e)'
  <2>1. SUFFICES ASSUME ep'[p].socket = "endpoint"
                 PROVE  Chain(wire'[e], backlog'[p], queue'[p], 0, 0, done)
    BY <1>0 DEF Underway, Intact
  <2>2. Runs(backlog'[p], 0, 0, 0, done) /\ Runs(queue'[p], 0, 0, 0, done)
    BY <1>0, <2>1, RunsPlain
  <2> QED BY <1>3, <2>2 DEF Chain
<1> QED BY <1>1, <1>2, <1>4, <1>5 DEF Flow

\* The connection is dialled and made.
LEMMA FlowConnect ==
  ASSUME Inv, Typed', StartConnect \/ Connects, NEW e \in End
  PROVE  Flow(e)'
<1>0. /\ Typed /\ ep \in [End -> EndpointRecord] /\ wire \in [End -> Seq(Item)]
      /\ queue \in [End -> Seq(Item)]
  BY DEF Inv, Typed, EndType, LineType
<1>1. dial # "done"
  <2>1. StartConnect => dial = "idle"
    <3>1. StartConnect => HasKind(queue["client"], {"start"})
      <4>1. ASSUME StartConnect PROVE 1 \in 1 .. Len(queue["client"]) /\ queue["client"][1].kind = "start"
        <5>1. queue["client"] # <<>> /\ Head(queue["client"]).kind = "start" /\ "client" \in End
          BY <4>1, Ends2 DEF StartConnect
        <5> QED BY <1>0, <5>1, TailFacts
      <4> QED BY <4>1 DEF HasKind
    <3> QED BY <3>1, Ends2 DEF Inv, EndInv, Posted
  <2>2. Connects => dial = "calling"
    BY DEF Connects, ConnectCallback_none, ConnectCallback, ConnectCallback_refused,
       ConnectCallback_unsent, ConnectCallback_cancelled, Answered
  <2> QED BY <2>1, <2>2
<1>2. /\ \A d \in End : wire[d] = <<>> /\ said[d] = 0 /\ heard[d] = <<>>
      /\ \A d \in End : ~ep[d].closeWasReceived /\ ep[d].socket = "none"
      /\ Only(queue["server"], {"stop"})
      /\ queue["client"] = IF dial = "idle" THEN <<Frame("start")>> ELSE <<>>
  BY <1>1, Before, Ends2 DEF Fresh
<1>3. said' = said /\ heard' = heard /\ backlog' = backlog
  BY DEF StartConnect, Connects, ConnectCallback_none, ConnectCallback, ConnectCallback_refused,
     ConnectCallback_unsent, ConnectCallback_cancelled, logVars
<1>4. \A d \in End : backlog[d] = <<>>
  BY <1>2 DEF Inv, EndInv, Posted
<1>5. \A d \in End : ~HasKind(queue'[d], {"text", "close"})
  <2>1. queue'["server"] = queue["server"] /\ queue'["client"] = <<>>
    <3>1. CASE StartConnect
      <4>1. queue' = [queue EXCEPT !["client"] = Tail(@)] /\ queue["client"] # <<>>
        BY <3>1 DEF StartConnect
      <4>2. queue["client"] = <<Frame("start")>>
        BY <1>2, <4>1
      <4>3. Tail(<<Frame("start")>>) = <<>>
        OBVIOUS
      <4> QED BY <1>0, <4>1, <4>2, <4>3, Ends2
    <3>2. CASE Connects
      <4>1. queue' = queue /\ dial = "calling"
        BY <3>2 DEF Connects, ConnectCallback_none, ConnectCallback, ConnectCallback_refused,
           ConnectCallback_unsent, ConnectCallback_cancelled, Answered
      <4> QED BY <1>2, <4>1
    <3> QED BY <3>1, <3>2
  <2>2. ~HasKind(<<>>, {"text", "close"}) /\ ~HasKind(queue["server"], {"text", "close"})
    BY <1>2 DEF HasKind, Only
  <2> QED BY <2>1, <2>2, Ends2
<1>6. \A d \in End : ~HasKind(wire'[d], {"text", "close"})
  <2>1. \A d \in End : wire'[d] \in {<<>>, <<Frame("request")>>, <<Frame("fin")>>}
    <3>1. CASE \/ StartConnect \/ ConnectCallback_none \/ ConnectCallback_unsent
               \/ ConnectCallback_cancelled
      BY <1>2, <3>1 DEF StartConnect, ConnectCallback_none, ConnectCallback_unsent,
         ConnectCallback_cancelled
    <3>2. CASE ConnectCallback
      BY <1>0, <1>2, <3>2, Ends2 DEF ConnectCallback
    <3>3. CASE ConnectCallback_refused
      BY <1>0, <1>2, <3>3, Ends2 DEF ConnectCallback_refused
    <3> QED BY <3>1, <3>2, <3>3 DEF Connects
  <2>2. /\ ~HasKind(<<>>, {"text", "close"}) /\ ~HasKind(<<Frame("request")>>, {"text", "close"})
        /\ ~HasKind(<<Frame("fin")>>, {"text", "close"})
    BY DEF HasKind, Frame
  <2> QED BY <2>1, <2>2
<1>7. \A d \in End : ~ep'[d].closeWasReceived
  <2>1. CASE StartConnect \/ ConnectCallback_none
    BY <1>2, <2>1 DEF StartConnect, ConnectCallback_none
  <2>2. CASE ConnectCallback \/ ConnectCallback_unsent
    <3>1. ep' = [ep EXCEPT !["client"] = Plugged(ep["client"]), !["server"] = Offered(ep["server"])]
      BY <1>0, <2>2, ServerEpMoves
    <3>2. ep'["client"] = Plugged(ep["client"]) /\ ep'["server"] = Offered(ep["server"])
      BY <1>0, <3>1, Ends2
    <3>3. ep["client"] \in EndpointRecord /\ ep["server"] \in EndpointRecord
      BY <1>0, Ends2
    <3> QED BY <1>2, <3>2, <3>3, PluggedFacts, OfferedFacts, Ends2
  <2>3. CASE ConnectCallback_refused \/ ConnectCallback_cancelled
    <3>1. SetEp("client", Plugged(ep["client"])) \/ SetEp("client", Closed(ep["client"]))
      BY <1>0, <2>3, ServerEpMoves DEF ConnectCallback_cancelled
    <3>2. /\ ep'["client"] = Plugged(ep["client"]) \/ ep'["client"] = Closed(ep["client"])
          /\ ep'["server"] = ep["server"]
      BY <1>0, <3>1, Ends2 DEF SetEp
    <3>3. ep["client"] \in EndpointRecord
      BY <1>0, Ends2
    <3> QED BY <1>2, <3>2, <3>3, PluggedFacts, ClosedFacts, Ends2
  <2> QED BY <2>1, <2>2, <2>3 DEF Connects
<1>8. ~HasKind(<<>>, {"text", "close"})
  BY DEF HasKind
<1>9. Peer(e) \in End
  BY Ends2
<1> QED BY <1>2, <1>3, <1>4, <1>5, <1>6, <1>7, <1>8, <1>9, FlowFresh

\* Before the server has accepted nothing was said to the client.
LEMMA Unsaid ==
  ASSUME Inv, ep["server"].socket = "request"
  PROVE  /\ said["server"] = 0 /\ heard["client"] = <<>> /\ backlog["server"] = <<>>
         /\ Only(queue["server"], {"stop"}) /\ ~HasKind(wire["client"], {"text", "close"})
         /\ ~HasKind(backlog["server"], {"text", "close"})
         /\ ~HasKind(queue["server"], {"text", "close"})
         /\ ~ep["server"].closeWasReceived /\ ~ep["server"].closeWasSent
         /\ ~dropped /\ Flow("client") => ~ep["client"].closeWasReceived
<1>1. Accepting /\ Posted("server")
  BY Ends2 DEF Inv, EndInv
<1>2. /\ said["server"] = 0 /\ heard["client"] = <<>> /\ Only(queue["server"], {"stop"})
      /\ ~HasKind(wire["client"], {"text", "close"})
      /\ ~ep["server"].closeWasReceived /\ ~ep["server"].closeWasSent
  BY <1>1 DEF Accepting, Fresh
<1>3. backlog["server"] = <<>>
  BY <1>1 DEF Posted
<1>4. ~HasKind(backlog["server"], {"text", "close"}) /\ ~HasKind(queue["server"], {"text", "close"})
  <2>1. ~HasKind(<<>>, {"text", "close"})
    BY DEF HasKind
  <2>2. ~HasKind(queue["server"], {"text", "close"})
    BY <1>2 DEF HasKind, Only
  <2> QED BY <1>3, <2>1, <2>2
<1>5. ~dropped /\ Flow("client") => ~ep["client"].closeWasReceived
  BY <1>2, Ends2 DEF Flow, Heeded
<1> QED BY <1>2, <1>3, <1>4, <1>5

LEMMA FlowHandleRequest ==
  ASSUME Inv, Typed', HandleRequest
  PROVE  (Flow("client") => Flow("client")') /\ (Flow("server") => Flow("server")')
<1>0. /\ Typed /\ "client" \in End /\ "server" \in End /\ "client" # "server"
      /\ Peer("client") = "server" /\ Peer("server") = "client"
      /\ stack \in [End -> Seq(Place)] /\ wire \in [End -> Seq(Item)]
  BY Ends2 DEF Inv, Typed, LineType
<1>1. /\ ep["server"].socket = "request" /\ stack["server"] = <<>>
      /\ wire["server"] # <<>> /\ Head(wire["server"]).kind = "request"
      /\ UNCHANGED <<ep, queue, backlog, serverVars, logVars>>
  BY DEF HandleRequest, Idle
<1>2. /\ wire'["server"] = Tail(wire["server"])
      /\ wire'["client"] = IF Fits("client") THEN Append(wire["client"], Frame("response"))
                           ELSE wire["client"]
      /\ stack'["server"] = <<"connect">> /\ stack'["client"] = stack["client"]
  BY <1>0 DEF HandleRequest, SetStack
<1>u. /\ said["server"] = 0 /\ heard["client"] = <<>> /\ ~HasKind(wire["client"], {"text", "close"})
      /\ ~HasKind(backlog["server"], {"text", "close"})
      /\ ~HasKind(queue["server"], {"text", "close"}) /\ ~ep["server"].closeWasReceived
      /\ ~dropped /\ Flow("client") => ~ep["client"].closeWasReceived
  BY <1>1, Unsaid
<1>3. CASE dropped
  BY <1>1, <1>3 DEF Flow, serverVars
<1>4. CASE ~dropped
  <2>1. ASSUME Flow("client") PROVE Flow("client")'
    <3>1. ~HasKind(wire'["client"], {"text", "close"})
      <4>1. Frame("response") \in Item /\ Frame("response").kind = "response"
            /\ wire["client"] \in Seq(Item)
        BY <1>0, Items DEF Kind
      <4> QED BY <1>2, <1>u, <4>1, HasAppend
    <3> QED BY <1>0, <1>1, <1>4, <1>u, <2>1, <3>1, FlowFresh DEF logVars
  <2>2. ASSUME Flow("server") PROVE Flow("server")'
    <3>1. Silent("server")
      BY <1>0, <1>1, <1>2 DEF Silent, serverVars, logVars
    <3>2. Reading("server")
      BY <1>1 DEF Reading, Has
    <3>3. heard'["server"] = heard["server"] /\ ~ep'["server"].closeWasReceived
      BY <1>1, <1>u DEF logVars
    <3> QED BY <1>0, <1>1, <1>2, <1>u, <2>2, <3>1, <3>2, <3>3, FlowTaken
  <2> QED BY <2>1, <2>2
<1> QED BY <1>3, <1>4

\* The server gives the connection up before it has accepted it.
LEMMA FlowRefused ==
  ASSUME Inv, Typed', ep["server"].socket = "request",
         ep'["server"].socket = "none",
         ep'["server"].closeWasReceived = ep["server"].closeWasReceived, ep'["client"] = ep["client"],
         stack'["client"] = stack["client"], queue'["client"] = queue["client"],
         backlog'["client"] = backlog["client"],
         UNCHANGED <<said, heard, dropped>>, ~HasKind(wire'["client"], {"text", "close"})
  PROVE  (Flow("client") => Flow("client")') /\ (Flow("server") => Flow("server")')
<1>0. /\ "client" \in End /\ "server" \in End
      /\ Peer("client") = "server" /\ Peer("server") = "client"
  BY Ends2
<1>u. /\ said["server"] = 0 /\ heard["client"] = <<>> /\ ~ep["server"].closeWasReceived
      /\ ~dropped /\ Flow("client") => ~ep["client"].closeWasReceived
  BY Unsaid
<1>1. CASE dropped
  BY <1>1 DEF Flow
<1>2. CASE ~dropped
  <2>1. ASSUME Flow("client") PROVE Flow("client")'
    BY <1>0, <1>2, <1>u, <2>1, FlowFresh
  <2>2. Silent("server") /\ ~Reading("server")'
    BY <1>0 DEF Silent, Reading
  <2>3. ASSUME Flow("server") PROVE Flow("server")'
    BY <1>0, <1>u, <2>2, <2>3, FlowLeft
  <2> QED BY <2>1, <2>3
<1> QED BY <1>1, <1>2

LEMMA FlowRejects ==
  ASSUME Inv, Typed',
         \/ RejectRequest \/ ReturnUnhandled
         \/ KprWebSocketServerDispose /\ ep["server"].socket = "request"
  PROVE  (Flow("client") => Flow("client")') /\ (Flow("server") => Flow("server")')
<1>0. /\ Typed /\ "client" \in End /\ "server" \in End /\ "client" # "server"
      /\ Peer("client") = "server" /\ Peer("server") = "client"
      /\ ep \in [End -> EndpointRecord] /\ wire \in [End -> Seq(Item)] /\ wire["client"] \in Seq(Item)
      /\ stack \in [End -> Seq(Place)] /\ queue \in [End -> Seq(Item)]
  BY Ends2 DEF Inv, Typed, EndType, LineType
<1>1. ep["server"].socket = "request"
  <2>1. CASE ReturnUnhandled
    <3>1. Has(stack["server"], "connect")
      <4>1. stack["server"] = <<"connect">>
        BY <1>0, <2>1, BaseTop DEF ReturnUnhandled, Base, Inv, EndInv
      <4> QED BY <4>1 DEF Has
    <3> QED BY <1>0, <3>1 DEF Inv, Accepting
  <2> QED BY <2>1 DEF RejectRequest
<1>2. SetEp("server", Unplugged(ep["server"]))
  BY <1>0, ServerEpMoves
<1>3. /\ ep'["server"] = Unplugged(ep["server"]) /\ ep'["client"] = ep["client"]
      /\ ep["server"] \in EndpointRecord
  BY <1>0, <1>2 DEF SetEp
<1>4. /\ ep'["server"].socket = "none"
      /\ ep'["server"].closeWasReceived = ep["server"].closeWasReceived
  BY <1>3, UnpluggedFacts
<1>5. /\ stack'["client"] = stack["client"] /\ queue'["client"] = queue["client"]
      /\ backlog' = backlog /\ UNCHANGED <<said, heard, dropped>>
  BY <1>0 DEF RejectRequest, ReturnUnhandled, KprWebSocketServerDispose, SetStack, Dequeue,
     serverVars, logVars
<1>6. ~HasKind(wire'["client"], {"text", "close"})
  <2>u. ~HasKind(wire["client"], {"text", "close"})
    BY <1>1, Unsaid
  <2>f. /\ Frame("fin") \in Item /\ Frame("fin").kind = "fin"
        /\ Frame("refusal") \in Item /\ Frame("refusal").kind = "refusal"
    BY Items DEF Kind
  <2>1. CASE RejectRequest
    <3>1. \/ wire'["client"] = wire["client"]
          \/ wire'["client"] = wire["client"] \o <<Frame("refusal"), Frame("fin")>>
          \/ wire'["client"] = wire["client"] \o <<Frame("fin")>>
      BY <1>0, <2>1 DEF RejectRequest
    <3>3. ~HasKind(wire["client"] \o <<Frame("fin")>>, {"text", "close"})
      <4>1. wire["client"] \o <<Frame("fin")>> = Append(wire["client"], Frame("fin"))
        BY <1>0, <2>f
      <4> QED BY <1>0, <2>f, <2>u, <4>1, HasAppend
    <3>2. ~HasKind(wire["client"] \o <<Frame("refusal"), Frame("fin")>>, {"text", "close"})
      <4>1. wire["client"] \o <<Frame("refusal"), Frame("fin")>>
              = Append(Append(wire["client"], Frame("refusal")), Frame("fin"))
        BY <1>0, <2>f
      <4>2. Append(wire["client"], Frame("refusal")) \in Seq(Item)
        BY <1>0, <2>f
      <4>3. ~HasKind(Append(wire["client"], Frame("refusal")), {"text", "close"})
        BY <1>0, <2>f, <2>u, HasAppend
      <4>4. ~HasKind(Append(Append(wire["client"], Frame("refusal")), Frame("fin")), {"text", "close"})
        BY <2>f, <4>2, <4>3, HasAppend
      <4> QED BY <4>1, <4>4
    <3> QED BY <2>u, <3>1, <3>2, <3>3
  <2>2. CASE ~RejectRequest
    <3>1. FskNetSocketClose("server")
      BY <1>0, <2>2, ServerEpMoves DEF ReturnUnhandled
    <3>2. Cuts("server")
      BY <1>0, <3>1, CloseCuts
    <3>3. CASE wire'["client"] = wire["client"]
      BY <2>u, <3>3
    <3>4. CASE wire'["client"] # wire["client"]
      <4>1. PICK k \in 0 .. Len(wire["client"]) :
              wire'["client"] = Append(SubSeq(wire["client"], 1, k), Frame("fin"))
        BY <1>0, <3>2, <3>4 DEF Cuts
      <4>2. SubSeq(wire["client"], 1, k) \in Seq(Item) /\ ~HasKind(SubSeq(wire["client"], 1, k), {"text", "close"})
        <5>1. /\ SubSeq(wire["client"], 1, k) \in Seq(Item) /\ Len(SubSeq(wire["client"], 1, k)) = k
              /\ \A x \in 1 .. k : SubSeq(wire["client"], 1, k)[x] = wire["client"][x]
          BY <1>0, PrefixFacts
        <5>2. \A x \in 1 .. k : x \in 1 .. Len(wire["client"])
          BY <1>0
        <5> QED BY <2>u, <5>1, <5>2 DEF HasKind
      <4> QED BY <2>f, <4>1, <4>2, HasAppend
    <3> QED BY <3>3, <3>4
  <2> QED BY <2>1, <2>2
<1> QED BY <1>1, <1>3, <1>4, <1>5, <1>6, FlowRefused

LEMMA FlowReturnConnect ==
  ASSUME Inv, Typed', ReturnConnect
  PROVE  (Flow("client") => Flow("client")') /\ (Flow("server") => Flow("server")')
<1>0. /\ Typed /\ "client" \in End /\ "server" \in End /\ "client" # "server"
      /\ Peer("client") = "server" /\ Peer("server") = "client"
      /\ ep \in [End -> EndpointRecord] /\ stack \in [End -> Seq(Place)] /\ queue \in [End -> Seq(Item)]
      /\ queue["server"] \in Seq(Item)
  BY Ends2 DEF Inv, Typed, EndType, LineType
<1>1. stack["server"] = <<"connect">> /\ Below("server") = <<>>
  BY <1>0, BaseTop DEF ReturnConnect, Base, Inv, EndInv
<1>2. ep["server"].socket = "request"
  <2>1. Has(stack["server"], "connect")
    BY <1>1 DEF Has
  <2> QED BY <1>0, <2>1 DEF Inv, Accepting
<1>3. /\ ep'["server"] = Joined(ep["server"]) /\ ep'["client"] = ep["client"]
      /\ ep["server"] \in EndpointRecord
  BY <1>0, ServerEpMoves DEF SetEp
<1>4. /\ ep'["server"].socket = "endpoint"
      /\ ep'["server"].closeWasReceived = ep["server"].closeWasReceived
  BY <1>3, JoinedFacts
<1>5. /\ stack'["server"] = <<>> /\ stack'["client"] = stack["client"]
      /\ queue'["server"] = Append(queue["server"], Frame("open")) /\ queue'["client"] = queue["client"]
      /\ wire' = wire /\ backlog' = backlog /\ UNCHANGED <<said, heard, dropped>>
  BY <1>0, <1>1 DEF ReturnConnect, SetStack, Post, netVars, logVars
<1>u. /\ said["server"] = 0 /\ heard["client"] = <<>> /\ ~HasKind(wire["client"], {"text", "close"})
      /\ ~HasKind(backlog["server"], {"text", "close"})
      /\ ~HasKind(queue["server"], {"text", "close"}) /\ ~ep["server"].closeWasReceived
      /\ ~dropped /\ Flow("client") => ~ep["client"].closeWasReceived
  BY <1>2, Unsaid
<1>6. CASE dropped
  BY <1>5, <1>6 DEF Flow
<1>7. CASE ~dropped
  <2>1. ASSUME Flow("client") PROVE Flow("client")'
    <3>1. ~HasKind(queue'["server"], {"text", "close"})
      <4>1. Frame("open") \in Item /\ Frame("open").kind = "open"
        BY Items DEF Kind
      <4> QED BY <1>0, <1>5, <1>u, <4>1, HasAppend
    <3> QED BY <1>0, <1>3, <1>5, <1>7, <1>u, <2>1, <3>1, FlowFresh
  <2>2. ASSUME Flow("server") PROVE Flow("server")'
    <3>1. Silent("server")
      BY <1>0, <1>3, <1>5 DEF Silent
    <3>2. Reading("server")' <=> Reading("server")
      BY <1>1, <1>2, <1>4, <1>5 DEF Reading, Has
    <3> QED BY <1>0, <1>4, <1>5, <1>u, <2>2, <3>1, <3>2, FlowKept
  <2> QED BY <2>1, <2>2
<1> QED BY <1>6, <1>7

\* The server posts something, or takes the stop off its queue.
LEMMA FlowServer ==
  ASSUME Inv, Typed', Rests("server"), Silent("server"),
         heard'["client"] = heard["client"], Logs("server"),
         Waits("server") \/ Enqueues("server") \/ Stops("server")
  PROVE  (Flow("client") => Flow("client")') /\ (Flow("server") => Flow("server")')
<1>0. /\ Typed /\ "client" \in End /\ "server" \in End /\ Posted("server")
      /\ Peer("client") = "server" /\ Peer("server") = "client"
  BY Ends2 DEF Inv, EndInv
<1>1. Reading("server")' <=> Reading("server")
  BY DEF Rests, Reading
<1>2. ASSUME Flow("server") PROVE Flow("server")'
  <2>1. /\ heard'["server"] = heard["server"] /\ wire'["server"] = wire["server"]
        /\ ep'["server"].closeWasReceived = ep["server"].closeWasReceived
        /\ ep["server"].closeWasReceived /\ (ep["server"].socket = "none" \/ Has(stack["server"], "closing")) =>
             ep'["server"].socket = "none" \/ Has(stack'["server"], "closing")
    BY DEF Rests
  <2> QED BY <1>0, <1>1, <1>2, <2>1, FlowKept
<1>3. ASSUME Flow("client") PROVE Flow("client")'
  <2>1. /\ ep'["client"] = ep["client"] /\ stack'["client"] = stack["client"] /\ dropped' = dropped
    BY <1>0 DEF Silent
  <2>2. ep'["server"].socket = ep["server"].socket
    BY DEF Rests
  <2>3. Flow(Peer("server"))'
    BY <1>0, <1>1, <1>3, <2>1, <2>2, FlowSends
  <2> QED BY <1>0, <2>3
<1> QED BY <1>2, <1>3

LEMMA FlowServerDispose ==
  ASSUME Inv, Typed', KprWebSocketServerDispose,
         ep["server"].socket # "request"
  PROVE  (Flow("client") => Flow("client")') /\ (Flow("server") => Flow("server")')
<1>0. "client" \in End /\ "server" \in End /\ "client" # "server" /\ Peer("server") = "client"
      /\ queue \in [End -> Seq(Item)]
  BY Ends2 DEF Inv, Typed, LineType
<1>1. /\ UNCHANGED <<ep, stack, wire, backlog, dropped, said, heard>>
      /\ Called("server", {"stop"}) /\ queue'["server"] = Tail(queue["server"])
      /\ queue'["client"] = queue["client"]
  BY <1>0 DEF KprWebSocketServerDispose, Dequeue, logVars
<1>2. Rests("server") /\ Silent("server")
  BY <1>0, <1>1 DEF Rests, Silent
<1>3. Logs("server")
  BY <1>1 DEF Logs, Later
<1>4. Waits("server")
  BY <1>1 DEF Waits, Called
<1> QED BY <1>1, <1>2, <1>3, <1>4, FlowServer

LEMMA FlowPing ==
  ASSUME Inv, Typed', KPR_websocketserver_timeToPing
  PROVE  (Flow("client") => Flow("client")') /\ (Flow("server") => Flow("server")')
<1>0. /\ "client" \in End /\ "server" \in End /\ "client" # "server" /\ Peer("server") = "client"
      /\ ep \in [End -> EndpointRecord] /\ queue \in [End -> Seq(Item)] /\ stack \in [End -> Seq(Place)]
      /\ ep["server"] \in EndpointRecord
  BY Ends2 DEF Inv, Typed, EndType, LineType
<1>1. /\ stack["server"] = <<>> /\ SendRawFrame("server", Frame("ping"), <<>>)
      /\ UNCHANGED <<wire, backlog, dropped, said, heard>>
  BY DEF KPR_websocketserver_timeToPing, Idle, netVars, serverVars
<1>2. /\ ep'["client"] = ep["client"] /\ stack'["client"] = stack["client"]
      /\ queue'["client"] = queue["client"]
      /\ \/ /\ ep'["server"] = More(ep["server"]) /\ stack'["server"] = <<>>
            /\ queue'["server"] = Append(queue["server"], Frame("ping"))
         \/ /\ ep'["server"] = ep["server"] /\ stack'["server"] = <<"error">>
            /\ queue'["server"] = queue["server"]
  BY <1>0, <1>1 DEF SendRawFrame, CallError, Post, SetEp, SetStack
<1>3. /\ ep'["server"].socket = ep["server"].socket
      /\ ep'["server"].closeWasReceived = ep["server"].closeWasReceived
      /\ ep'["server"].closeWasSent = ep["server"].closeWasSent
  BY <1>0, <1>2, MoreFacts
<1>4. /\ ~Has(<<>>, "closed") /\ ~Has(<<>>, "closing") /\ ~Has(<<"error">>, "closed")
  BY DEF Has
<1>5. Rests("server") /\ Silent("server")
  BY <1>0, <1>1, <1>2, <1>3, <1>4 DEF Rests, Silent
<1>6. Logs("server")
  BY <1>1, <1>3 DEF Logs, Later
<1>7. Waits("server") \/ Enqueues("server")
  <2>1. Frame("ping") \in Item /\ Frame("ping").kind = "ping"
    BY Items DEF Kind, Sent
  <2>2. CASE queue'["server"] = Append(queue["server"], Frame("ping"))
    BY <1>1, <2>1, <2>2 DEF Enqueues
  <2>3. CASE queue'["server"] = queue["server"]
    BY <1>1, <1>3, <2>3 DEF Waits
  <2> QED BY <1>2, <2>2, <2>3
<1> QED BY <1>1, <1>5, <1>6, <1>7, FlowServer

LEMMA FlowServerGone ==
  ASSUME Inv, Typed', KPR_websocketserver
  PROVE  (Flow("client") => Flow("client")') /\ (Flow("server") => Flow("server")')
<1> DEFINE q == queue["server"]
           r == ep["server"]
           open == listed /\ ep["server"].state = "open"
<1>0. /\ "client" \in End /\ "server" \in End /\ "client" # "server" /\ Peer("server") = "client"
      /\ Typed /\ ep \in [End -> EndpointRecord] /\ queue \in [End -> Seq(Item)]
      /\ r \in EndpointRecord /\ q \in Seq(Item)
  BY Ends2 DEF Inv, Typed, EndType, LineType
<1>1. /\ queue' = [queue EXCEPT !["server"] =
                     @ \o (IF open THEN <<Frame("close")>> ELSE <<>>) \o <<Frame("stop")>>]
      /\ UNCHANGED <<stack, wire, backlog, dropped, said, heard>>
  BY DEF KPR_websocketserver, netVars, logVars
<1>2. IF open THEN SetEp("server", Stopped(More(r))) ELSE UNCHANGED ep
  BY <1>0, ServerEpMoves
<1>3. /\ ep'["client"] = ep["client"] /\ queue'["client"] = queue["client"]
      /\ open => ep'["server"] = Stopped(More(r))
      /\ ~open => ep' = ep
  BY <1>0, <1>1, <1>2 DEF SetEp
<1>f. /\ Frame("close") \in Item /\ Frame("stop") \in Item /\ Frame("stop").kind = "stop"
  BY Items DEF Kind, Sent
<1>4. /\ open => queue'["server"] = Append(Append(q, Frame("close")), Frame("stop"))
      /\ ~open => queue'["server"] = Append(q, Frame("stop"))
  <2>1. /\ open => queue'["server"] = q \o <<Frame("close")>> \o <<Frame("stop")>>
        /\ ~open => queue'["server"] = q \o <<>> \o <<Frame("stop")>>
    BY <1>0, <1>1
  <2>2. q \o <<Frame("close")>> = Append(q, Frame("close")) /\ q \o <<>> = q
    BY <1>0, <1>f
  <2>3. \A s \in Seq(Item) : s \o <<Frame("stop")>> = Append(s, Frame("stop"))
    BY <1>f
  <2>4. Append(q, Frame("close")) \in Seq(Item)
    BY <1>0, <1>f
  <2> QED BY <1>0, <2>1, <2>2, <2>3, <2>4
<1>5. /\ ep'["server"].socket = r.socket /\ ep'["server"].closeWasReceived = r.closeWasReceived
      /\ open => ep'["server"].closeWasSent
      /\ ~open => ep'["server"].closeWasSent = r.closeWasSent
  <2>1. More(r) \in EndpointRecord /\ More(r).socket = r.socket
        /\ More(r).closeWasReceived = r.closeWasReceived
    BY <1>0, MoreFacts
  <2>2. CASE open
    BY <1>3, <2>1, <2>2, StoppedFacts
  <2>3. CASE ~open
    BY <1>3, <2>3
  <2> QED BY <2>2, <2>3
<1>6. Rests("server") /\ Silent("server")
  BY <1>0, <1>1, <1>3, <1>5 DEF Rests, Silent
<1>7. Logs("server")
  BY <1>1, <1>5 DEF Logs, Later
<1>8. Enqueues("server") \/ Stops("server")
  <2>1. CASE open
    BY <1>1, <1>4, <1>5, <2>1 DEF Stops
  <2>2. CASE ~open
    BY <1>1, <1>4, <1>f, <2>2 DEF Enqueues
  <2> QED BY <2>1, <2>2
<1> QED BY <1>1, <1>6, <1>7, <1>8, FlowServer

LEMMA TwoItems ==
  ASSUME NEW f \in Item, NEW g \in Item
  PROVE  <<f>> \o <<g>> = <<f, g>>
<1>1. <<f>> \in Seq(Item) /\ <<g>> \in Seq(Item) /\ Len(<<f>>) = 1 /\ Len(<<g>>) = 1
  OBVIOUS
<1> DEFINE s == <<f>> \o <<g>>
<1>2. s \in Seq(Item) /\ Len(s) = 2 /\ s[1] = f /\ s[2] = g
  BY <1>1
<1>3. s = <<s[1], s[2]>>
  <2> HIDE DEF s
  <2> QED BY <1>2
<1> QED BY <1>2, <1>3

LEMMA FlowBreak ==
  ASSUME Inv, Typed', Break, NEW e \in End, Flow(e)
  PROVE  Flow(e)'
<1>1. UNCHANGED <<ep, queue, stack, backlog, dropped, said, heard>>
  BY DEF Break, serverVars, logVars
<1>2. PICK d \in End, told \in {<<>>, <<Frame("fail")>>} :
        wire' = [wire EXCEPT ![d] = told \o <<Frame("fin")>>, ![Peer(d)] = <<Frame("fin")>>]
  BY DEF Break
<1>3. /\ wire \in [End -> Seq(Item)] /\ wire'[e] \in Seq(Item) /\ heard[e] \in Seq(Nat)
      /\ Peer(e) \in End /\ said[Peer(e)] \in Nat
  BY Ends2 DEF Inv, Typed, LineType, LogType
<1>4. wire'[e] = told \o <<Frame("fin")>> \/ wire'[e] = <<Frame("fin")>>
  BY <1>2, <1>3, Ends2
<1>5. /\ Frame("fin") \in Item /\ Frame("fail") \in Item /\ Frame("fin").kind = "fin"
      /\ Frame("fail").kind = "fail"
  BY Items DEF Kind
<1>6. wire'[e] = <<Frame("fin")>> \/ wire'[e] = <<Frame("fail"), Frame("fin")>>
  <2>1. \A f \in Item : <<>> \o <<f>> = <<f>>
    OBVIOUS
  <2>2. \A f, g \in Item : <<f>> \o <<g>> = <<f, g>>
    BY TwoItems
  <2>3. PICK f \in Item : f = Frame("fin")
    BY <1>5
  <2>4. PICK g \in Item : g = Frame("fail")
    BY <1>5
  <2>5. CASE told = <<>>
    BY <1>4, <2>1, <2>3, <2>5
  <2>6. CASE told = <<Frame("fail")>>
    <3>1. told \o <<Frame("fin")>> = <<g, f>>
      BY <2>2, <2>3, <2>4, <2>6
    <3> QED BY <1>4, <2>3, <2>4, <3>1
  <2> QED BY <1>2, <2>5, <2>6
<1>7. Ended(wire'[e]) /\ ~HasKind(wire'[e], {"text", "close"})
  <2>1. CASE wire'[e] = <<Frame("fin")>>
    BY <1>5, <2>1 DEF Ended, Last, HasKind
  <2>2. CASE wire'[e] = <<Frame("fail"), Frame("fin")>>
    BY <1>5, <2>2 DEF Ended, Last, HasKind
  <2> QED BY <1>6, <2>1, <2>2
<1> SUFFICES ASSUME ~dropped PROVE InOrder(e)' /\ Arriving(e)' /\ Underway(e)' /\ Heeded(e)'
  BY <1>1 DEF Flow
<1>8. InOrder(e) /\ Heeded(e)
  BY DEF Flow
<1>9. InOrder(e)' /\ Heeded(e)'
  BY <1>1, <1>8 DEF InOrder, Heeded
<1>10. Underway(e)'
  BY <1>7 DEF Underway, Intact
<1>11. Arriving(e)'
  <2>1. Len(heard[e]) \in Nat /\ Len(heard[e]) <= said[Peer(e)]
    BY <1>3, <1>8 DEF InOrder
  <2>2. Runs(wire'[e], Len(heard[e]), Len(heard[e]), said[Peer(e)], ep[Peer(e)].closeWasSent)
    BY <1>3, <1>7, <2>1, RunsPlain
  <2> QED BY <1>1, <2>1, <2>2 DEF Arriving, Through
<1> QED BY <1>9, <1>10, <1>11

-----------------------------------------------------------------------------

LEMMA FlowInit ==
  ASSUME Init, NEW e \in End
  PROVE  Flow(e)
<1>1. /\ heard[e] = <<>> /\ said[Peer(e)] = 0 /\ ep[e] = Endpoint0 /\ stack[e] = <<>>
  BY Ends2 DEF Init
<1>2. Endpoint0.socket = "none" /\ Endpoint0.closeWasReceived = FALSE
  BY DEF Endpoint0
<1>3. ~Reading(e) /\ ~ep[e].closeWasReceived
  BY <1>1, <1>2 DEF Reading
<1>4. InOrder(e)
  BY <1>1 DEF InOrder
<1> QED BY <1>3, <1>4 DEF Flow, Arriving, Underway, Intact, Heeded

LEMMA FlowStep ==
  ASSUME Inv, LossType, Next, NEW e \in End, Sound(e), "text" \notin lost'[Peer(e)]
  PROVE  Flow(e)'
<1>0. /\ "client" \in End /\ "server" \in End /\ \A d \in End : d = "client" \/ d = "server"
      /\ Typed' /\ Peer(e) \in End /\ Peer(Peer(e)) = e
  BY Ends2, TypedStep DEF Inv
<1>f. Flow(e)
  <2>1. "text" \notin lost[Peer(e)]
    BY <1>0, LossStep
  <2> QED BY <2>1 DEF Sound
<1>1. ASSUME NEW d \in End, Script(d) \/ Loop(d) PROVE Flow(e)'
  <2>1. CASE d = e
    BY <1>1, <1>f, <2>1, FlowIn
  <2>2. CASE d # e
    <3>1. d = Peer(e) /\ Peer(d) = e
      BY <1>0, <2>2 DEF Peer
    <3>2. Flow(Peer(d)) /\ "text" \notin lost'[d]
      BY <1>f, <3>1
    <3>3. Flow(Peer(d))'
      BY <1>1, <3>2, FlowOut
    <3> QED BY <3>1, <3>3
  <2> QED BY <2>1, <2>2
<1>2. ASSUME StartConnect \/ Connects PROVE Flow(e)'
  BY <1>0, <1>2, FlowConnect
<1>3. ASSUME Accepts
      PROVE  (Flow("client") => Flow("client")') /\ (Flow("server") => Flow("server")')
  BY <1>0, <1>3, FlowHandleRequest, FlowRejects, FlowReturnConnect, FlowServerDispose DEF Accepts
<1>4. ASSUME KPR_websocketserver_timeToPing \/ KPR_websocketserver
      PROVE  (Flow("client") => Flow("client")') /\ (Flow("server") => Flow("server")')
  BY <1>0, <1>4, FlowPing, FlowServerGone
<1>5. ASSUME KPR_WebSocketServer_onInterfaceDrop PROVE Flow(e)'
  BY <1>5 DEF KPR_WebSocketServer_onInterfaceDrop, Flow
<1>6. ASSUME Break PROVE Flow(e)'
  BY <1>0, <1>6, <1>f, FlowBreak
<1> QED BY <1>0, <1>1, <1>2, <1>3, <1>4, <1>5, <1>6, <1>f DEF Next

LEMMA FlowInvariance == Spec => [](Inv /\ LossType /\ \A e \in End : Sound(e))
<1> DEFINE All == \A e \in End : Sound(e)
<1>1. Init => All
  BY FlowInit DEF Sound
<1>2. Inv /\ LossType /\ All /\ [Next]_vars => All'
  <2>1. ASSUME Inv, All, UNCHANGED vars PROVE All'
    <3>0. /\ UNCHANGED <<ep, queue, stack, wire, backlog, dropped, said, heard, lost>>
      BY <2>1 DEF vars, netVars, serverVars, logVars, boundVars
    <3>1. \A e \in End : Silent(e) /\ (Reading(e)' <=> Reading(e))
      BY <3>0 DEF Silent, Reading
    <3>2. ASSUME NEW e \in End, Flow(e) PROVE Flow(e)'
      BY <3>0, <3>1, <3>2, FlowKept
    <3> QED BY <2>1, <3>0, <3>2 DEF Sound
  <2>2. ASSUME Inv, LossType, All, Next PROVE All'
    BY <2>2, FlowStep DEF Sound
  <2> QED BY <2>1, <2>2
<1> QED BY <1>1, <1>2, LossInvariance, PTL DEF Spec

\* When an end reports a clean close its script has been given every message
\* the other end accepted, in order: the close frame overtakes no message, neither
\* in the event queue of KprWebSocketEndpointSendBytesDeferred nor in the
\* pendingData of the writer, and an end answers a close frame only after it has
\* read what came before.  Excepted are a dropped interface and a peer one of
\* whose failing writes dropped a message; writes that drop a ping, a pong or a
\* close frame are not.
THEOREM MessagesComplete == Spec => []NothingLost
<1>1. Inv /\ (\A e \in End : Sound(e)) => NothingLost
  <2> SUFFICES ASSUME Inv, \A e \in End : Sound(e), NEW e \in End, ep[e].cleanClose, ~dropped,
                      "text" \notin lost[Peer(e)]
               PROVE  heard[e] = [i \in 1 .. said[Peer(e)] |-> i]
    BY DEF NothingLost
  <2>1. ep[e].closeWasReceived
    BY DEF Inv, EndInv, Handshake, Answers
  <2>2. Len(heard[e]) = said[Peer(e)] /\ \A i \in 1 .. Len(heard[e]) : heard[e][i] = i
    BY <2>1 DEF Sound, Flow, Heeded, InOrder
  <2>3. heard[e] \in Seq(Nat)
    BY DEF Inv, Typed, LogType
  <2> QED BY <2>2, <2>3
<1> QED BY <1>1, FlowInvariance, PTL
=============================================================================
