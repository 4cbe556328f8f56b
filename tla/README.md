# KinomaJS: specifications of messages, services, threads and protocols

TLA+ models of the parts of KinomaJS in which several actors have to agree:
KPR *messages* and the services that answer them, the *HTTP client* behind the
http service, the *run loop* of the services thread, and the *CoAP* and
*WebSocket* extensions.  TLC checks the models on small instances, TLAPS proves
theorems about all five for every instance.

Source references are to `src/`; `K` stands for `src/kinoma/kpr/sources`, `X` for
`src/kinoma/kpr/extensions`.

## 1. The system

KinomaJS is a JavaScript framework: the XS6 engine (`src/xs6`), a portable
runtime (`src/core`: threads, timers, files, sockets, graphics), and KPR
(`src/kinoma/kpr`): contents and behaviours for the user interface, messages
for everything that is asked of somebody else, and extensions for network
protocols.

| Part | State | Operations | Hard because |
| --- | --- | --- | --- |
| Messages (`K/kprMessage.c`) | `usage`, `waiting`, `url`, request and response target; the list `gShell->messages` | new, invoke, cancel, redirect, suspend, resume, notify, complete, dispose | hand-counted references; two threads; scripts run in the middle of native functions |
| Handlers (`K/kprHandler.c`) | `self->message` while a script runs; a target record in each direction | invoke, download, upload, wait, redirect | the invoking message is suspended on the invoked one |
| Contents, message side (`K/kprContent.c`) | the `kprMessaging` flag | invoke, wait, cancel, dispose | a disposed content must not be called back |
| Behaviours (`K/kprBehavior.c`) | none | `onInvoke`, `onComplete`, `onCancel`... each makes a wrapper | the wrapper is a reference, the collector gives it back |
| HTTP client (`K/kprHTTPClient.c`) | targets by priority, a pool of connections, the age of cached answers | invoke, cancel, iterate, complete, closed, stop | reads `waiting` without a lock; retries; a connection that becomes free must be offered |
| File service (`K/kprFile.c`) | none | invoke | other thread |
| Threads and run loop (`src/core/base/FskThread.c`) | one event queue per thread, wake socket and `wakePending` | post, wake, wait, handle, join | the wake flag has no lock; posts to a thread that ends |
| Timers (`src/core/base/FskTime.c`) | a sorted list per thread, marks | set, remove, service, wait | callbacks that change the list being serviced |
| CoAP (`X/coap`) | requests, ids, tokens, sessions, resend queues | send, resolve, receive, resend, expire, observe | datagrams are lost, delayed, duplicated; timers on both ends |
| WebSocket (`X/websocket`) | endpoint state, deferred sends, the script object | connect, upgrade, send, ping, close, collect | two ends close against each other and against the network; disposal races deferred calls |
| MQTT (`X/mqtt`) | connection, packet identifiers | connect, publish, subscribe | quality of service |
| HTTP server, cache, cookies, keychain (`K/kprHTTP*.c`) | dictionaries, connections | lookup, expiry, persistence | size bounds, persistence |
| Shell, applications (`K/kprShell.c`, `K/kprApplication.c`) | application chain | user interface events | mostly geometry |
| XS6 (`src/xs6`) | heap, stack | run, collect | here only the caller of destructors |
| Graphics, media, text | bitmaps, ports | rendering | numeric: no protocol to check |

Interaction: the **shell thread** runs scripts, the xkpr service, the CoAP and
WebSocket extensions, timers and `KprMessageComplete`; the **services thread**
runs the HTTP client and the file service.  They exchange callbacks through
`FskThreadPostCallback`, one FIFO queue per thread.

What makes the parts correct:

* messages: the count of references is exact, nothing that will be followed is
  freed, a cancelled message is silent, a suspended message waits for what it is
  suspended on, whoever asked is called back or was let go;
* HTTP client: each message is in one place and completed once, none is
  overtaken, a free connection never idles over a waiting message;
* run loop: no event and no timer is slept over, events stay in order, nobody
  uses a thread that was freed;
* CoAP: a request is run once, its answer is its own, whatever the network does;
* WebSocket: a clean close has delivered everything, `onclose` comes, once and
  last, and no deferred call meets a freed endpoint.

`PROJECT.json` lists the hazards, each at its line, with the properties that
would catch it going wrong.

## 2. Modules

| Module | Content |
| --- | --- |
| `KprMessage` | messages, handlers, contents and the xkpr service: state, one action per operation or callback, properties |
| `KprMessageInvariant` | the inductive invariants `IInv` and `Extra`, and the condition `Careful` on scripts |
| `KprMessageTypes`, `KprMessageProofs`, `KprMessageSafety` | theorems about `KprMessage` |
| `KprService` | abstract: what a message relies on when a service was asked |
| `KprHTTPClient` | the http service, which implements `KprService` |
| `KprHTTPClientProofs`, `ListTheorems` | theorems about it; lemmas about lists without repetition |
| `FskThread`, `FskThreadProofs` | the services thread: event queue, wake, timers, stop and join |
| `KprCoAP`, `KprCoAPProofs` | a CoAP client, a CoAP server and the network between them |
| `KprWebSocket`, `KprWebSocketProofs` | the two ends of a WebSocket connection and the socket between them |
| `MC_message`, `MC_http`, `MC_thread`, `MC_coap`, `MC_websocket` | instances for TLC |

`KprMessage` assumes of the services thread what `KprService` says (a message
given to a service is in `serviceQ`, then `held`, and completed once), and of its
event queues that they are FIFO and lose nothing.  `KprHTTPClient` is shown to
implement the first, `FskThread` to provide the second (`InOrder`, `NoLostWake`,
`Delivered`).

An operator whose name ends in a word after an underscore and whose comment
starts with "Mutant" is a plausible bug in the definition it precedes; each
property is known to fail when one of them takes the place of the original.

### 2.1 Messages

`usage`, `waiting`, `request`, `response`, `messages` are the fields and the
list of the code.  `url` and `location` keep of a url its scheme, which is all
the code looks at.  `request[m]` is a content, a promise, or, for a
`KprHandlerTarget`, the *former* message it holds; `response[m]` is the message
that m's handler invoked, or a timer.  `alive` and `host` are ghosts: whether
the record is allocated and how many JavaScript wrappers point at it.
`shellQ` and `serviceQ` are the two event queues, `held` the messages a service
works on.  `messages` is a set: no walk of the code depends on the order, and
that `FskListAppend` may be given an element twice is recorded in `looped`.

A native function that calls a script is cut there.  What it will do afterwards
is a frame on `stack`; while the frame on top says `script`, the actions of
`ScriptStep` may run (the script uses the API) before the `Return...` action of
the frame.  `KprMessageComplete(m)`, for example, is called by five actions;
its delivery (`Delivered`) pushes a `complete` frame, `ReturnComplete` does what
the target does after `onComplete`, and `Cleanup` the end of the function.

| Code | Actions |
| --- | --- |
| `KPR_Message`, `KPR_message` (destructor) | `KPR_Message`, `KPR_message_destructor` |
| `KPR_content_invoke`, `KPR_handler_invoke`, `KPR_message_invoke` | same names, and `KPR_invoke_only` when no result is wanted |
| `KPR_handler_wait`, `KPR_handler_redirect`, `KPR_handler_get_message`, `KPR_content_wait` | same names |
| `KPR_message_cancel`, `KprContentCancel`, `KprContentDispose` | same names, `WalkCancel` (one message of the loop), `WalkEnd` |
| `KprXKPRServiceInvoke` | same name, then `ReturnInvoke` |
| `KprXKPRServiceCancel` | same name, then `ReturnCancel` |
| `KprMessageComplete` | `Absent`, `Reinvoked`, `Delivered`, then `ReturnComplete`, `Cleanup` |
| `KprMessageNotifyCallback` | same name, `NotifyContext`, `ReturnShell`, `ReturnNotify` |
| the timers | `KPR_handler_waitComplete`, `ReturnResume`, `KPR_content_waitComplete` |
| download progress | `DeliverProgress`, `ReturnProgress` |
| a service of the services thread | `ServiceInvoke`, `ServiceCancel`, `ServiceProgress`, `ServiceFinish` |

The collector (`fxCollect` of `xs6Memory.c`) runs while a script runs or a wrapper
is allocated (`Collects`), and destroys a wrapper that no slot of the stack
(`Held`) keeps.

`KprContextInvoke` gives a notified message to a handler of the shell or of an
application, or to its delegate: `NotifyContext` does either, so the script may
read `handler.message`, wait and invoke, which suspends a message that is in no
list.

`Script` names what the scripts of an instance do.  Members of `Respectful` keep
to what the code silently relies on; each member of `Careless` breaks one such
condition:

* `reinvoke`: a message is invoked again before everything about its former
  invocation is over;
* `parallel`: a handler invokes a second message while its own is suspended;
* `failingProxy`: a handler invokes a message that cannot be invoked;
* `cancelInner`: a script cancels the message a handler waits for.

`notify` is respectful, as the repository's own scripts do it, but not *careful*
(section 4): several properties fail with it (section 3.1).

### 2.2 HTTP client

`targets`, `target`, `client`, `priority`, `order` are `self->targets` and the
fields of the connections (`order` keeps of `connection->time` which is older);
`inbox` holds the callbacks posted by the shell thread, `waiting` the flags it
clears at any moment, `posts` counts the completions posted back.  `busy` and
`due` say of an `FskHTTPClient` whether an exchange is under way and whether its
finished callback will come.

`KprHTTPClientIterate` reads `message->waiting` in three loops without a lock, so
it is cut at each read: `loop` is the loop it is in and the element it is at, the
actions of `Iterating` are its iterations, and the shell may cancel between any
two.  Every other callback starts when no Iterate is under way, and those that
call it leave `loop` at its start.  `KprHTTPConnectionCompleteCallback` covers an
answer, a revalidation, a redirection, a gateway timeout, a failure and a dropped
connection; `ClosedKeep` and `ClosedLost` are the finished callback and the loss
of an idle connection; `KprHTTPClientStop` drops everything.  After the callback
has posted the completion it reads `message->error` of a message the shell may
have freed: with `Racy`, the test goes either way.

### 2.3 Threads and timers

The Android build of `FskThread.c` and `FskTime.c`, run by `KprServicesLoop`.  (The
branch for other Linux builds calls `FskTimeCallbackServiceUntil`, which
`FskTime.c` compiles for Android only; Mac, Windows and KPL have loops of their
own.)  `lock` is the mutex of `gThreads`; `wakePending`, `quitting` and the wake
socket (`datagrams`) are shared without a lock, so `FskThreadWake` is three actions
(`WakeTest`, `WakeCount`, `WakeSend`) and the loop's side two (`PollData`,
`ClearWake`).  `step[q]` is where a caller is in `FskThreadPostEvent` or, for the
shell, in `FskThreadJoin`; `loop` is where the thread is in its cycle: service the
timers, take the whole queue (`TakeEvents`), handle it, wait, take one event
(`OneEvent`).  Callbacks set, move and remove timers while the list is serviced;
`marked` and `timers` are the marks and the order `FskTimeCallbackServiceUntil`
works with.  `Finish` is the end of `KprServicesLoop`, where the services are
stopped (`KprHTTPClientStop` of `KprHTTPClient`); `Unlist`, `DisposeQueue` and
`ReleaseRunning` are the end of `threadProc`.

### 2.4 CoAP

One client, one server.  `Send`, `Resolved` and `ResolveError` are the client's
script and resolver; `Deliver` is the receive callback of either end, with all
that `KprCoAPClient` and `KprCoAPServer` do on a request, a response, an
acknowledgement or a reset; `ClientResend`, `ServerResend`, `PeriodicalCheck` are
the timers; `SessionSend`, `SessionSendAck`, `SessionEndObserve` what the
server's script does with a session it kept; `PeerReset` a peer that is not
KinomaJS.  Datagrams are records with the fields the ends match on (type, id,
token, observe option) and, as ghosts, the request and response they belong to.
The network loses (a datagram may die of age), delays up to `MaxLatency`,
reorders, and duplicates `MaxDups` times.  `Tick` passes time when no timer is
due.

`SendFails` names the ends whose `FskNetSocketSendUDP` may fail.  A new request
then throws (`SendThrows`); a request that waited for the resolver, and those
behind it, are never started (`ResolvedFails`); a resend takes its entry out of the
queue and tells `onError` (`ClientResendFails`, `ServerResendFails`), and the request
is neither ended nor reported as failed: `dropped` collects such requests.  A server
whose answer cannot be sent tries an acknowledgement, and when that fails too
disposes of the session, so a copy of the request runs again (`forgotten`).  Sends
of a session object that fail throw; the message id they use up is left out.

An endpoint the server gives up lives on, with its resend queue, as long as a
script holds a session of it: `Orphaned` keeps the entries, marked `old`, or drops
them, and `SessionDestructor` is the collection of the last such session.

### 2.5 WebSocket

The endpoint of `new WebSocket(url)` and the one a `WebSocketServer` makes for it,
each with a shell thread: `queue` is its event queue, `stack` the native functions
that wait for a script to return, as in `KprMessage`.  `ep` keeps the fields of
`KprWebSocketEndpointRecord`; `wire` and `backlog` are what the socket will
receive and what the writer could not write.  A pass of the reader
(`KprSocketReaderDataReader`) is a `pass` frame at the bottom of the stack: it
handles frame after frame, and nothing else of the thread runs before `EndPass`.

| Code | Actions |
| --- | --- |
| `KPR_websocketclient_send`, `_close`, `KPR_websocketclient` (destructor) | same names |
| `KprWebSocketEndpointConnectCallback` | `ConnectCallback`, `..._none`, `..._refused`, `..._cancelled`, `..._unsent` |
| `KprWebSocketServerHandleRequest`, `KPR_WebSocketServer_onConnect` | `HandleRequest`, then `ReturnConnect` or `ReturnUnhandled`; `RejectRequest` when the request is refused or the response cannot be written |
| `KprWebSocketEndpointSendBytesDeferred`, `KprSocketWriterSendBytes` | `SendBytes`, `SendDisposed`, `SendBytesFails` (the connection is closed), `SendBytesError` (another error) |
| `KprSocketWriterDataWriter` | same name, `DataWriterFails`, `DataWriterError` |
| `KprWebSocketEndpointHandleFrame`, `HandleResponse` | `HandleTextMessage`, `HandlePing`, `HandlePong`, `HandleCloseFrame`, `AnswerCloseFrame`, `HandleResponse`, `HandleRefusal` |
| `KprWebSocketHandleError` | `ReadClosed`, `ReadFails`, `HandleError` (of a write), then `ReturnClosed`, `ReturnFailed` |
| `KprWebSocketEndpointStartClosingHandshake` | `Close`, then `ReturnClosing` |
| `KprWebSocketEndpointDispose` | `EndpointDispose` |
| the server | `KPR_websocketserver_timeToPing`, `KPR_WebSocketServer_onInterfaceDrop`, `KPR_websocketserver`, `KprWebSocketServerDispose` |

`fault`, chosen in the initial state, is the one thing that goes wrong in a
behaviour: the name does not resolve, nobody listens, the server does not
upgrade, the connection breaks, sockets are full and writes fail, the interface is
dropped, the server is collected.  A write that fails, other than because the
connection is closed, drops what it should write (`lost` records the kinds); an end
that is open then calls `onerror` and starts the closing handshake, an end that is
closing does nothing.

## 3. Runs

| Run | Instance | Shows |
| --- | --- | --- |
| `message_cancel` | x1, h1; cancel, dispose, wait, notify, promise; 4 calls, 2 wrappers | `TypeOK`, `UsageCounts`, `NoGoneTarget`, `OneCompletion`, `CancelSilences` |
| `message_chain` | x1, x2 (sniffing), h1; redirect, wait, promise; 4 calls, 2 wrappers | `IInv`, `NoLeak`, `SuspendedUntilComplete`: handler on handler on http, with redirections |
| `message_settles` | x1, h1, w1; both waits, cancel, dispose, promise; 3 calls, 2 wrappers; fairness | `NoDangling`, `NoLeakButWaits`, `Settles` |
| `message_refused` | x1; redirect to a scheme nobody accepts | violates `UsageCounts` |
| `http_pool` | 3 messages of 3 priorities, 2 owners, 2 hosts, 2 connections, a redirection | `TypeOK`, `Custody`, `NothingForgotten`, `ImplementsService`, `NoOvertaking` |
| `http_serves` | 2 messages, 2 connections, cache, redirection, drop, failure, stop, race; fairness | `CancelReturns`, `Serves` |
| `http_stalled` | 2 messages, 1 connection, a failure that closes it; fairness | violates `Serves` |
| `thread_loop` | one poster, the thread's own callbacks, the shell, 2 timers; fairness | `TypeOK`, `NoFreed`, `InOrder`, `NoLostWake`, `NoSpin`, `PassComplete`, `OnTime`, `Delivered`, `Fires`, `Joins` |
| `coap_exchange` | 2 confirmable requests, loss, delay, one duplicate, 2 retransmissions, resolution and client sends that may fail | `TypeOK`, `RunOnce`, `OwnAnswer`, `Acknowledges` |
| `coap_separate` | a confirmable and a non-confirmable request answered later, sends of both ends that may fail; fairness | `AckMeansRun`, `Settles` |
| `coap_observe` | an observed request, resets, acknowledgements by hand, server sends that may fail | `WithinSpan` |
| `websocket_close` | both ends, every fault, 2 calls or pings; fairness | `TypeOK`, `NoFreed`, `NothingLost`, `CloseIsLast`, `Ends` |

**Bounds.**  *Messages*: `MaxCalls` bounds the API calls of scripts that allocate
or post, `MaxHost` the wrappers of a message, and one progress callback of a
message is in flight at a time.  Four calls are enough for invoke, handler
invoke, cancel and a further invocation; three messages for a suspension behind
a suspension; two wrappers for one that the program keeps beside the argument of
a callback.  *HTTP*: three messages are needed for an order by priority to be
disturbed (a low one, a high one and an urgent one, which differs from the high
one only in the sign), two connections for one message to wait for a busy
connection while the other is free, one redirection and two hosts for a target
to come back to the list and go to another connection; dropped connections are in
`http_serves`.  *Threads*: two events and two timers for an order; the
clock makes one step, which is enough for a timer that is due, one that is not,
and one set again for now; the number of posters is unbounded in the proofs.
*CoAP*: two retransmissions for the interval to double, in all three runs; in
`coap_exchange` a latency as long as the retransmission interval for a copy to meet
its successor (`coap_observe`, which is about the resends, delivers at once or never);
ids start at 65000, away from the wrap (see 3.1).  *WebSocket*: two calls are close
against close, send against close, a close after a send behind a full socket or
after a send that fails, a ping in either.
With three calls the safety properties hold as well (a run of one minute
without `Ends`).

Deadlock is not checked: scripts may stop for ever, and a model whose bounds are
used up has nothing to do.

**Fairness.**  *Messages*: the shell thread runs its loop and its scripts return
(`WF(ShellStep)`), the services thread runs its loop, a request ends
(`WF(ServiceFinish(m))`; for http this is what `Serves` is about).  *HTTP*: the
run loop of the services thread goes on and a finished callback that is due
comes.  That servers answer is not assumed of the system: it is the hypothesis
`NetworkFairness` of `Serves`, and `CancelReturns` does without it.  *Threads*: the
loop, the clock, a caller in the middle of a post and the join go on.  *CoAP*:
timers fire, time passes, the resolver answers; the network owes nothing.
*WebSocket*: the run loops go on, scripts return, and the network answers or
fails the connection attempt.  Nothing is ever assumed of scripts or of the
collector.

### 3.1 Where code and words disagree

Two runs show a disagreement:

* `message_refused`: a handler redirects to a url nobody accepts.  The request
  reference is given back at `kprMessage.c:408` and again at `:420`.
* `http_stalled`: a request fails and the server closed the connection with it.
  `KprHTTPConnectionCompleteCallback` calls Iterate only when there was no error
  (`kprHTTPClient.c:1056`), and the disposed client has no finished callback:
  the next message waits until some other message is invoked or cancelled.

Others can be reproduced by changing the constants of a run:

| Change | Then violated | What happens |
| --- | --- | --- |
| `message_chain` with x1 only, redirect and cancel | `UsageCounts` | cancelled between a redirection and its new invocation, a message has no response, but `kprMessage.c:119` gives one back |
| `message_chain` with `Script = {"parallel"}` | `SuspendedUntilComplete` | the second suspension overwrites the first; the invoking message completes early |
| `message_settles` with x1, o1, `Script = {"failingProxy"}` | `Settles` | the suspension precedes an invocation that fails; nobody resumes |
| `message_settles` with x1, h1, `Script = {"cancel", "cancelInner"}` | `Settles` | the outer message stays suspended on a message that was cancelled |
| `message_cancel` with x1, `Script = {"cancel", "reinvoke"}` | `ListIntact` | cancel and invoke again: the element is appended to the list it is in |
| `message_cancel` with x1, `Script = {"notify"}` | `NoDangling` | `KprMessageNotifyCallback` gives its reference back first (`kprMessage.c:547`); the wrapper of `Message.notify(new Message(...))`, as in `NetworkHandlers.xml:66`, is collected before the second context is called |
| `message_cancel` with x1, `Script = {"notify", "wait"}` | `NoLeak` | a handler of the notified message waits; when it resumes, `KprMessageComplete` does not find the message in the list (`kprMessage.c:393`) and nothing frees it |
| `message_chain` with x1, h1, `Script = {"notify"}` | `SuspendedUntilComplete`, `IInv` | a handler of the notified message invokes another: the suspended message is in no list |
| `http_pool` with two messages of priority 1 and an urgent one, `MaxDrops = 1` | `NothingForgotten` | an urgent request takes a connection of priority 1, which is dropped; the new client gets priority -1 (`kprHTTPClient.c:796`), the message held back by the old one is not held back any more, and nothing calls Iterate |
| `coap_exchange` with one request, `Replies = {"later"}` | `Acknowledges` | a request that arrives again after its empty acknowledgement was lost is not acknowledged: `kprCoAPServerSession.c:235` against "When an endpoint receives a confirmable message, it responds with an acknowledgment message", `coap-client-and-server-in-kinomajs.md:31` |
| `coap_exchange` with `FirstId = 0` | `OwnAnswer` | message id 0 is replaced by 1, which the next message has as well (`kprCoAPClient.c:239`) |
| `coap_separate`, both confirmable, `TokenMode = "auto"`, `MaxDups = 1` | `OwnAnswer` | a token is recycled at once; a duplicated response finds a newer request |

Noted while modelling, and excepted in the statements of the properties or left
out of the model:

* CoAP: one response that cannot be delivered invalidates the endpoint, and
  copies of requests that were finished run again (`kprCoAPServer.c:497`; `RunOnce`
  is about endpoints that were not invalidated, and about servers that could send
  an answer or an acknowledgement).  A name that does not resolve is
  reported to the client only, its waiting requests never end
  (`kprCoAPClientResolver.c:86`); neither does a request whose resend fails
  (`kprCoAPEndpoint.c:332`), or one that was waiting when the request before it could
  not be sent: `client.onError` is all that is called (`dropped` in `Settles`).
* WebSocket: the answering end disconnects before its deferred close frame is
  sent (`kprWebSocketEndpoint.c:424`), so the other end sees the end of the stream,
  `onerror`, and an unclean `onclose`; an end that does receive the answer reports
  `wasClean` false too (`:590`).  A name that does not resolve gives `onerror` and
  never `onclose`.  `onmessage` and `onclose` may precede `onopen`, which is
  deferred, and which may be called for a script object that was collected
  (`kprWebSocket.c:209`).  When an interface is dropped `onclose` is called without
  disconnecting, and again later (`:618`).  `close()` within `onconnect` is undone
  by `KprWebSocketEndpointOpenWithSocket`.  The destructor of the server leaves
  `client->server` as it is (`:391`), the destructor of a WebSocket leaves
  `closingCallback`, which may be called with the freed record after an interface
  was dropped (`:101`, `:647`).  A message whose write fails is dropped, and the
  close that follows may still be clean for the other end (`kprUtilities.c:2429`,
  `kprWebSocketEndpoint.c:316`; `lost` in `NothingLost`); a close frame or request
  whose write fails is not tried again, and the end waits for what its peer does
  (`lost` in `Ends`).  `KprSocketReaderReadBytes` does not advance
  after it has copied what was left over from the headers (`kprUtilities.c:2239`):
  the model's stream carries whole frames.
* HTTP: dropped connections are retried without a limit and without looking at
  `waiting` (`kprHTTPClient.c:965`; the model bounds them by `MaxDrops`).  When the
  shell cancels the message that keeps a connection busy while Iterate is in the
  middle of its list, a message behind the one that waited for this connection
  may get it (`Cut` in `NoOvertaking`).

## 4. Theorems

All are proved for every value of the constants that satisfies the assumptions of
the module that declares them; where a theorem needs more of the constants, its
hypothesis is named below, and some run satisfies it.

**Messages.**  `TypeCorrect`: `Spec => []TypeOK`, for all scripts.  `Inductive`:
`Spec => []IInv` for every instance that is `Careful`: the scripts keep to
`Respectful` and do not notify (a suspended message would not be in the list),
redirections go to schemes that some service accepts, and
redirections and cancellations are not both used (together they leave a message
without the response that `kprMessage.c:119` gives back).  The instances of
`message_chain` and `message_settles` are careful; the one of `message_cancel`, which
notifies, is not, and what holds there with notifications is model-checked.  From
`IInv` follow `UsageCorrect`, `LinkedCorrect`, `SuspensionCorrect` and
`CancelCorrect`.

`UsageCounts` is not inductive.  An action that gives back two references in one
statement (`KprXKPRServiceCancel`: list and event queue; later the response) is
right only because the message it is called for is suspended, and that in turn
holds because a pending xkpr message is suspended, or its invoke callback is
still posted, or its script runs (`InvOwed`), and because a cancel callback is
posted behind the invoke callback (`InvCancel`).  `Delivered` gives back the
response reference of another message, which is right only because the two
directions of a handler target agree (`InvLinked`); the request reference goes
in `Cleanup`, several frames later, so the frames are part of the invariant
(`InvFrames`).  `InvHttp` and `InvWait` keep the services thread and the messages
of `content.wait` away from handlers.

The argument: `Safe` is `IInv` without `TypeOK`.  `Ready(m, u, r, q, below)` in
`KprMessageProofs` says from which counts, targets and queue `KprMessageComplete`
may start; `AbsentSafe`, `ReinvokedSafe` and `DeliveredSafe` show that its three
outcomes lead to `Safe'`, and one lemma per caller establishes `Ready`.  In
`KprMessageSafety`, `Recount` reduces `UsageCounts'` to the messages a step
recounts, `PostInvoke` and `PostOther` give the queue invariants after a post,
`TailQueue` after a delivery, and each action has a lemma.  `CancelCorrect` looks
at where new `complete` frames come from (`FramesSilent`): only from `Delivered`,
of a message in the list with a request target, and such a message waits
(`PendingWaits`).

`NoDanglingCorrect`, `NoGoneTargetCorrect`, `OneCompletionCorrect`, `NoLeakCorrect`
and `OnlyWaitsLeak` are from `IInv` and `Extra` (`ExtraCorrect`).  The posts to and
from the services thread hold no reference, so that they name live messages is not
a matter of counting: it holds because the thread has exactly the pending messages
of its scheme, each once, and a progress callback is followed by the completion of
its message or the message is still held (`InCustody` of both queues, the targets
and the list; the lemmas `Custody...` are one per way to post or deliver).
`InvCalls` says whom a native frame calls, and that the frames below the top of a
chain of completions are for handlers, so that disposing of a content inside a
script cannot leave it to a frame further down.  `InvContent` is the
`kprMessaging` flag: a content with a pending message has it, so its disposal walks
the list.  `InvKept` says that only a message of `content.wait` is live without
references, even inside a callback.  `NoLeak` is proved without `content.wait`
(see section 5); `OnlyWaitsLeak` (`NoLeakButWaits`) says that nothing else leaks with
it.  `Unnotified`, a part of `IInv`, says that no notification is posted or running.

**HTTP client.**  `TypeCorrect`; `InCustody`: `Spec => []Custody`;
`ClientImplementsService`: `Spec => ImplementsService`.  The invariant is `TypeOK`,
`Custody`, `Known` (an invoke callback is posted once, and who is anywhere was asked
for) and `Paired` (a connection has a target exactly when its client is busy).  `Custody` says of each message that it is in one place: the cuts of
Iterate move it between two of them in one action each.  For the refinement each
step is a step of `KprService` with `held` the messages in the list or with a
connection, or leaves its variables alone.  `ListTheorems` says what inserting
into and removing from a list without repetition leaves.

`RequestsInTurn`: `Spec => NoOvertaking`, without a hypothesis.  Its invariant is
`OrderInv`: the list is ordered by rank (`Sorted`), the client of a
connection speaks to the host of its target (`Matched`), and the waiting messages
that a running Iterate has passed by are held back by a busy connection or by one
whose message was cancelled meanwhile (`Passed`).
`NobodyForgotten`: `Spec => []NothingForgotten`, with the hypothesis `RoomIsKnown`:
the ways to make room without calling Iterate do not occur.  They are a failed
request that closes its connection (the run `http_stalled`), the race on
`message->error` together with a server that closes, and a dropped connection when
messages are urgent (see 3.1).  The invariant `Offered` extends `NothingForgotten`
to a running Iterate: a message behind its position is still to be looked at, one
before it was passed by.

**Threads.**  `TypeCorrect`; `NobodyUsesFreed` (`NoFreed`); `WakesArrive`
(`NoLostWake`); `NothingSpins` (`NoSpin`); `EventsInOrder` (`InOrder`); `TimersServed`
(`PassComplete`); `WaitsEndOnTime` (`OnTime`).  The invariant adds to these `Held` (who is in the critical section has
the lock), `Noticed` (an event in the queue of a thread that will not look at it before it
sleeps has the flag, a datagram, or a poster on its way to send one), `Numbered` (what is in the queue
and the batch are the events between `handled` and `posted`), `Chain` (the list is
sorted, without repetition, the marked timers first) and `Marks` (marked timers are
due, and there are none outside a service pass).

**CoAP.**  `TypeCorrect`; `ResendsWithinSpan` (`WithinSpan`); `RunsOnce` (`RunOnce`).  An entry of a resend
queue was queued with some timeout that has doubled with each resend (`Paced`), so
its age and the time to its next resend determine each other; with the power of
two in `MaxTransmitSpan` this bounds the age.  A session outlives each copy of its
request on the network and each copy the client may still send (`Outlives`), which
is what `ExchangeLifetime` was computed for; so a server that has run a request
still has its session, or no copy can come (`Remembered`).  This holds whichever
sends fail, as long as an answer or an acknowledgement leaves (`forgotten`).

`AcksAreEarned` (`AckMeansRun`) and `AnswersFindTheirRequest` (`OwnAnswer`) have the
hypothesis `IdsSuffice`: the first id is not 0 and there are fewer requests than ids
from it to the last one, so that no id is given twice (section 3.1 has what
happens otherwise).  The second has `TokensSuffice` as well: scripts set tokens, or
there are none, or each answer comes with its acknowledgement; automatic tokens
with separate answers are the counterexample of section 3.1.  The invariant is
`Numbered` (the ids in use are as many as the client has counted, and different),
`Labelled` (tokens) and `Honest`: every message on the network, in a resend queue or
kept in a session for resending is `Right`, that is, an acknowledgement has the id
of a request that was run, and a response the token of its request.  Messages are
copied from one of these places to another by nearly every action, and `HonestStays`
leaves the new ones to show.  `EveryCopyAcknowledged` (`Acknowledges`) has the
hypothesis `Prompt`: no observers, no answers later, and the server's sends succeed.
Then every session is `Answered`:
what it keeps for resending is an acknowledgement with the id of its request.
Without `Prompt` it is false (section 3.1).

**WebSocket.**  `TypeCorrect`; `NobodyUsesFreed` (`NoFreed`); `CloseLast`
(`CloseIsLast`); `MessagesComplete` (`NothingLost`): for every number of calls and
every fault.

The first invariant, `Inv`, is about one end at a time.  `NoFreed` rests on
`pendingSendCount`: an endpoint whose disposal was requested is freed when the
count is zero, so the count has to be the number of posted sends (`Counted`).  It
is a `UInt8`, and right only modulo 256; that is enough because a disposed
endpoint has at most one send left, its close frame (`Disposal`, `Posted`: one close
frame is ever posted, nothing else is posted behind the dispose).  `CloseIsLast`
needs that whoever reports the end has closed the socket first, and that no frame
of the stack below will report it again (`Gone`), hence which frames can be below
which (`Shape`) and where the closing handshake stands (`Handshake`: the closing
callback runs once, and a close frame that was received is answered in the pass
that read it).  `Dialling`, `Accepting` and `Response` say how little has happened
before the connection is made, before `onconnect` has returned, and while the
answer to the handshake is on its way.

The second invariant, `Flow`, is about what one end says and the other hears.
`Runs(s, lo, hi, top, done)` says of a line of frames that its messages are
numbered from `lo + 1` to `hi` and that a close frame stands behind message `top`
only: it is a counting function along the line, so no recursion is needed, and
lemmas say what appending to, taking from and concatenating lines does to it.
While both ends read, wire, writer and queue together run from what was heard to
what was said (`Underway`, with `Chain`); when the other end has gone, what is left
on the wire still runs from what was heard (`Arriving`); the close frame therefore
comes when everything was heard, and nothing is said behind it (`Heeded`).  Each
action is a step of one of a few kinds for the end that reads (`Quits`, `Rests`,
`Consumes`) and for the end that writes (`Severs`, `Waits`, `Enqueues`, `Stops`,
`Writes`, `Flushes`, `Sheds`), and the lemmas are per kind.  A break of the
connection throws frames away: it puts the end of the stream in their place, so
no close frame follows.  A write that fails throws frames away with nothing in
their place, so `Flow` is kept only of an end none of whose messages was dropped
(`Sound`; `LossType` says that what was dropped stays recorded).  What such a write
drops are pings, pongs and a close frame, and a line without messages runs from its
end to its end (`RunsFlat`, by the least element of a set of positions).

Only model-checked: liveness (`Settles` of both modules, `Serves`, `CancelReturns`,
`Delivered`, `Fires`, `Joins`, `Ends`), which is out of the prover's reach, and the
violations.  Every safety property of a passing run is stated by a theorem.

## 5. Not modelled

* Messages: `KprHandlerDispose`, which disposes of suspended messages whatever
  their count; upload streams, headers, bodies, credentials, conversion of
  results; out of memory; `onCancel` scripts that suspend the message being
  cancelled.  `NoLeak` is not checked with `content.wait`: a timer that fires
  before the invoke callback of its message leaves a record that nothing frees.
  What a freed record does to those who still use it: it stays readable in the
  model, and only `NoDangling` says that it was freed.
* HTTP client: headers, bodies, authentication, proxies, cookies, the contents
  of the cache; a `KprHTTPConnectionProcess` that fails inside Iterate and calls it
  again (`kprHTTPClient.c:526`); the timeouts of `FskHTTPClient` (a request to a
  silent server ends only if the application set one).
* Threads: other platforms; data handlers (`LinuxThreadWaitForData` leaves `inUse`
  set after a poll that timed out); creation, broadcast and event handlers of
  windows; timers of the user interface; the rounding of waits to milliseconds;
  loss of the wake datagram.
* CoAP: encoding, several peers, multicast, a request object that is sent twice,
  disposal of a client or server by the collector, timers that fire late.
* WebSocket: masks, lengths, keys and headers; several connections of a server; a
  frame of which a write takes a part before the rest is dropped;
  frames split at the end of the handshake; a request that arrives between the
  destructor of the server and `KprWebSocketServerDispose`; 256 deferred sends
  (`pendingSendCount` is a `UInt8`, as in the model).
* MQTT, HTTP server, cookies, keychain: planned or dictionaries on a file.
* XS6, graphics, text, media, layout: an interpreter, numeric code and geometry,
  with no protocol between actors that these models could check.

## 6. Plan

1. MQTT: packet identifiers and quality of service.
2. Data handlers of the run loop, and `KprHandlerDispose`.
3. The HTTP server and its connections.
