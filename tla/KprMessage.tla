----------------------------- MODULE KprMessage -----------------------------
(***************************************************************************)
(* The life of a KPR message: kprMessage.c, the message side of handlers    *)
(* (kprHandler.c) and of contents (kprContent.c), and what a service of the *)
(* services thread may do to a message.                                     *)
(*                                                                          *)
(* Two threads run: the shell thread (scripts, handlers, KprMessageComplete)*)
(* and the services thread (HTTP, file...).  They exchange callbacks        *)
(* through one FIFO event queue each.  A message is freed when its "usage"  *)
(* count drops to zero; the comments of the code name what each unit of the *)
(* count stands for: a JavaScript wrapper ("host"), a request target        *)
(* ("request"), membership of gShell->messages ("message queue"), an xkpr   *)
(* callback that was posted ("event queue"), a suspension ("response").     *)
(*                                                                          *)
(* Native code that calls a script is cut at the call: `stack' holds the    *)
(* native continuations, and the script may use the API until it returns.   *)
(***************************************************************************)
EXTENDS Integers, Sequences, FiniteSets

CONSTANTS
  Message,      \* message records
  Content,      \* contents that invoke messages
  None,         \* the NULL target
  Promise,      \* a KprPromiseTarget
  HandlerWait,  \* the response target of handler.wait
  ContentWait,  \* the response target of content.wait
  Scheme,       \* the scheme of the url each message is created with
  WaitMessage,  \* the records that content.wait allocates for itself
  Sniffing,     \* the messages whose "sniffing" flag is set
  RedirectTo,   \* the schemes handlers redirect to
  Script,       \* what the scripts of the instance do
  MaxHost,      \* bound: wrappers a message has at a time
  MaxCalls      \* bound: API calls the scripts make

Accepted == {"xkpr", "http"}        \* schemes some service accepts
Schemes  == Accepted \union {"other"}

(* What scripts may do.  The upper group respects every condition the code  *)
(* silently relies on; each member of the lower group breaks one of them.   *)
(* Message.notify is a use of its own: it keeps nothing while the handlers   *)
(* run, and they may suspend a message that is not in gShell->messages.      *)
Respectful == {"cancel", "dispose", "redirect", "wait", "contentWait", "notify",
               "promise"}
Careless   == {"cancelInner", "parallel", "failingProxy", "reinvoke"}

ASSUME ConstantsAssumption ==
  /\ None \notin Message \union Content
  /\ Promise \notin Message \union Content \union {None}
  /\ HandlerWait \notin Message \union Content \union {None}
  /\ ContentWait \notin Message \union Content \union {None, HandlerWait}
  /\ Message \intersect Content = {}
  /\ Scheme \in [Message -> Schemes]
  /\ WaitMessage \subseteq {m \in Message : Scheme[m] = "xkpr"}
  /\ Sniffing \subseteq Message
  /\ RedirectTo \subseteq Schemes
  /\ Script \subseteq Respectful \union Careless
  /\ MaxHost \in Nat
  /\ MaxCalls \in Nat

VARIABLES
  alive,     \* "none" (not allocated), "live" or "freed"
  usage,     \* message->usage
  host,      \* JavaScript wrappers whose host data is the message
  waiting,   \* message->waiting
  url,       \* the scheme of message->url
  location,  \* the scheme of the "location" response header, or "nil"
  request,   \* request.target: a content, a promise, or the former message of
             \* a KprHandlerTarget
  response,  \* response.target: the message a handler invoked, or a timer
  messages,  \* gShell->messages.  Only membership matters to the code's walks
  looped,    \* FskListAppend was given an element that was in the list
  shellQ,    \* callbacks posted to the shell thread
  serviceQ,  \* callbacks posted to the services thread
  held,      \* messages a service is working on
  stack,     \* native frames of the shell thread that wait for a script
  walk,      \* the content whose KprContentCancel walks the list, or None
  messaging, \* the kprMessaging flag of each content
  gone,      \* contents that were disposed
  calls      \* API calls made by scripts

life   == <<alive, usage, host>>
data   == <<waiting, url, location>>
target == <<request, response>>
list   == <<messages, looped>>
queues == <<shellQ, serviceQ>>
content == <<walk, messaging, gone>>
vars   == <<life, data, target, list, queues, held, stack, content, calls>>

Events   == {"invoke", "cancel", "notify", "complete", "progress"}
Counted  == {"invoke", "cancel", "notify"}   \* posted with usage++ (event queue)
Event(k, m) == [ev |-> k, m |-> m]

(* A frame waits for the script behind `at' to return.  `handles' is the    *)
(* handler.message that script sees, `script' whether the behaviour has the *)
(* function at all, `wrap' the message whose wrapper is its argument.       *)
Notifying == {"beforeShell", "inShell", "beforeApplication", "inApplication"}
Places == {"invoke", "complete", "cleanup", "resume", "cancel", "progress"} \union Notifying
Frame(at, m, handles, script, wrap) ==
  [at |-> at, m |-> m, handles |-> handles, script |-> script, wrap |-> wrap]

Push(s, f) == Append(s, f)
Pop(s)     == SubSeq(s, 1, Len(s) - 1)
Top        == stack[Len(stack)]
At(place)  == stack # <<>> /\ walk = None /\ Top.at = place

B(cond) == IF cond THEN 1 ELSE 0

Init ==
  /\ alive = [m \in Message |-> "none"]
  /\ usage = [m \in Message |-> 0]
  /\ host = [m \in Message |-> 0]
  /\ waiting = [m \in Message |-> FALSE]
  /\ url = Scheme
  /\ location = [m \in Message |-> "nil"]
  /\ request = [m \in Message |-> None]
  /\ response = [m \in Message |-> None]
  /\ messages = {}
  /\ looped = FALSE
  /\ shellQ = <<>>
  /\ serviceQ = <<>>
  /\ held = {}
  /\ stack = <<>>
  /\ walk = None
  /\ messaging = [c \in Content |-> FALSE]
  /\ gone = {}
  /\ calls = 0

-----------------------------------------------------------------------------
(* The shell thread is idle between two callbacks of its run loop; a script *)
(* runs then (user events) or inside the frame on top of the stack.         *)

Idle       == stack = <<>> /\ walk = None
ScriptRuns == walk = None /\ (stack # <<>> => Top.script)
Call       == ScriptRuns /\ calls < MaxCalls /\ calls' = calls + 1

(* Mutants: one reference too many is taken for the last; the last check is *)
(* forgotten.                                                               *)
Disposed_early(m, n)  == IF usage[m] <= n + 1 THEN {m} ELSE {}
Disposed_forgot(m, n) == {}

(* KprMessageDispose when `n' references of m go and none is left. *)
Disposed(m, n) == IF usage[m] = n THEN {m} ELSE {}

Free(S) == alive' = [m \in Message |-> IF m \in S THEN "freed" ELSE alive[m]]

(* A wrapper for m, created for the argument of a script callback. *)
Wraps(m, script) == script => host[m] < MaxHost

(* The queues after the callback of m's service is posted: the xkpr service *)
(* has no thread and uses the shell's, every other one the services thread. *)
PostShell(q, m, s, k)   == IF s = "xkpr" THEN Append(q, Event(k, m)) ELSE q
PostService(q, m, s, k) == IF s = "http" THEN Append(q, Event(k, m)) ELSE q

(* Mutant: the event queue holds no reference. *)
InvokeRefs_unposted(m, t) == B(t # None) + 1

(* References a successful KprMessageInvoke(m, ..., t) adds: request, message *)
(* queue, event queue.                                                        *)
InvokeRefs(m, t) == B(t # None) + 1 + B(url[m] = "xkpr")

(* KprMessageInvoke(m, ..., t) of a message that is not waiting and whose   *)
(* scheme is accepted.                                                      *)
KprMessageInvoke(m, t) ==
  /\ waiting' = [waiting EXCEPT ![m] = TRUE]
  /\ request' = [request EXCEPT ![m] = IF t = None THEN @ ELSE t]
  /\ usage' = [usage EXCEPT ![m] = @ + InvokeRefs(m, t)]
  /\ messages' = messages \union {m}
  /\ looped' = (looped \/ m \in messages)
  /\ shellQ' = PostShell(shellQ, m, url[m], "invoke")
  /\ serviceQ' = PostService(serviceQ, m, url[m], "invoke")

(* Mutant: the request target stays in place. *)
Detached_not(m) == request[m]

(* The request target after KprMessageCancel. *)
Detached(m) == None

(* KprMessageCancel(m), from usage counts u and shell queue q. *)
KprMessageCancel(m, u, q) ==
  IF waiting[m]
  THEN /\ waiting' = [waiting EXCEPT ![m] = FALSE]
       /\ request' = [request EXCEPT ![m] = Detached(m)]
       /\ usage' = [u EXCEPT ![m] = @ - B(request[m] # None) + B(url[m] = "xkpr")]
       /\ shellQ' = PostShell(q, m, url[m], "cancel")
       /\ serviceQ' = PostService(serviceQ, m, url[m], "cancel")
  ELSE /\ usage' = u
       /\ shellQ' = q
       /\ UNCHANGED <<waiting, request, serviceQ>>

(* The redirection of KprMessageComplete: a location header on an xkpr url. *)
Redirected(m) == /\ location[m] # "nil"
                 /\ url[m] = "xkpr"
                 /\ m \in Sniffing => location[m] = "xkpr"

(* Mutants: the suspension is not looked at; it is never seen to end. *)
Resumes_always(m) == TRUE
Resumes_never(m)  == FALSE

(* KprMessageResumed, and the end of KprXKPRServiceInvoke: a message that is *)
(* not suspended is complete.                                                *)
Resumes(m) == response[m] = None

(* KprMessageComplete(m) on the shell thread, from usage counts u, response *)
(* targets r, shell queue q, with the frames `below' waiting for it.        *)
Absent(m, u, r, q, below) ==
  /\ m \notin messages
  /\ usage' = u /\ response' = r /\ shellQ' = q /\ stack' = below
  /\ UNCHANGED <<alive, host, data, request, list, serviceQ>>

Reinvoked(m, u, r, q, below) ==
  /\ m \in messages /\ Redirected(m) /\ location[m] \in Accepted
  /\ url' = [url EXCEPT ![m] = location[m]]
  /\ location' = [location EXCEPT ![m] = "nil"]
  /\ waiting' = [waiting EXCEPT ![m] = TRUE]
  /\ usage' = [u EXCEPT ![m] = @ + B(location[m] = "xkpr")]
  /\ shellQ' = PostShell(q, m, location[m], "invoke")
  /\ serviceQ' = PostService(serviceQ, m, location[m], "invoke")
  /\ response' = r /\ stack' = below
  /\ UNCHANGED <<alive, host, request, list>>

(* A redirection that no service accepts has already given the request back *)
(* when it falls through to the delivery.                                   *)
Delivered(m, u, r, q, below) ==
  LET failed == Redirected(m)
      left == u[m] - 1 - B(failed /\ request[m] # None)
      t == request[m]
  IN
  /\ m \in messages /\ ~(failed /\ location[m] \in Accepted)
  /\ waiting' = [waiting EXCEPT ![m] = FALSE]
  /\ url' = [url EXCEPT ![m] = IF failed THEN location[m] ELSE @]
  /\ location' = [location EXCEPT ![m] = IF failed THEN "nil" ELSE @]
  /\ messages' = messages \ {m}
  /\ shellQ' = q
  /\ IF t = None
     THEN /\ usage' = [u EXCEPT ![m] = left]
          /\ Free(IF left = 0 THEN {m} ELSE {})
          /\ stack' = below
          /\ response' = r
          /\ UNCHANGED host
     ELSE \E script \in BOOLEAN :
          /\ Wraps(m, script)
          /\ host' = [host EXCEPT ![m] = @ + B(script)]
          /\ usage' = [n \in Message |->
                         (IF n = m THEN left + B(script) ELSE u[n]) - B(n = t)]
          /\ response' = [n \in Message |-> IF n = t THEN None ELSE r[n]]
          /\ stack' = Push(below,
                           Frame("complete", m, IF t \in Message THEN t ELSE None,
                                 script /\ t # Promise,
                                 IF script /\ t # Promise THEN m ELSE None))
          /\ UNCHANGED alive
  /\ UNCHANGED <<request, looped, serviceQ>>

KprMessageComplete(m, u, r, q, below) ==
  \/ Absent(m, u, r, q, below)
  \/ Reinvoked(m, u, r, q, below)
  \/ Delivered(m, u, r, q, below)

-----------------------------------------------------------------------------
(* The API, called by scripts on the shell thread.                          *)

(* No callback, list, service or native frame still deals with m. *)
Quiet(m) ==
  /\ m \notin messages \union held
  /\ \A i \in DOMAIN shellQ : shellQ[i].m # m
  /\ \A i \in DOMAIN serviceQ : serviceQ[i].m # m
  /\ \A i \in DOMAIN stack : stack[i].m # m /\ stack[i].handles # m

(* What the code relies on when a script invokes m. *)
MayInvoke(m) == "reinvoke" \in Script \/ Quiet(m)

(* new Message(url) *)
KPR_Message(m) ==
  /\ ScriptRuns /\ m \notin WaitMessage /\ alive[m] = "none"
  /\ alive' = [alive EXCEPT ![m] = "live"]
  /\ host' = [host EXCEPT ![m] = 1]
  /\ usage' = [usage EXCEPT ![m] = 1]
  /\ UNCHANGED <<data, target, list, queues, held, stack, content, calls>>

(* The garbage collector finds a wrapper that no running callback holds: in  *)
(* a script, or when the wrapper for a callback is allocated.  The latter    *)
(* makes a difference only to KprMessageNotifyCallback, which has given its  *)
(* reference back by then.                                                   *)
Collects == walk = None /\ (stack # <<>> => Top.script \/ Top.at \in Notifying)
Held(m) == Cardinality({i \in DOMAIN stack : stack[i].wrap = m})

(* Mutant: the destructor runs for a wrapper that is already collected. *)
KPR_message_destructor_twice(m) ==
  /\ Collects /\ host[m] >= Held(m) /\ alive[m] = "live"
  /\ host' = [host EXCEPT ![m] = @ - 1]
  /\ usage' = [usage EXCEPT ![m] = @ - 1]
  /\ Free(Disposed(m, 1))
  /\ messages' = messages \ Disposed(m, 1)
  /\ UNCHANGED <<data, target, looped, queues, held, stack, content, calls>>

KPR_message_destructor(m) ==
  /\ Collects /\ host[m] > Held(m)
  /\ host' = [host EXCEPT ![m] = @ - 1]
  /\ usage' = [usage EXCEPT ![m] = @ - 1]
  /\ Free(Disposed(m, 1))
  /\ messages' = messages \ Disposed(m, 1)
  /\ UNCHANGED <<data, target, looped, queues, held, stack, content, calls>>

(* content.invoke(message, type): the content gets onComplete. *)
KPR_content_invoke(c, m) ==
  /\ Call /\ c \notin gone /\ host[m] > 0 /\ ~waiting[m] /\ url[m] \in Accepted
  /\ MayInvoke(m)
  /\ KprMessageInvoke(m, c)
  /\ messaging' = [messaging EXCEPT ![c] = TRUE]
  /\ UNCHANGED <<alive, host, url, location, response, held, stack, walk, gone>>

(* content.invoke(message) and handler.invoke(message): no result wanted. *)
KPR_invoke_only(m) ==
  /\ Call /\ host[m] > 0 /\ ~waiting[m] /\ url[m] \in Accepted /\ MayInvoke(m)
  /\ KprMessageInvoke(m, None)
  /\ UNCHANGED <<alive, host, url, location, response, held, stack, content>>

(* message.invoke(type): a promise. *)
KPR_message_invoke(m) ==
  /\ "promise" \in Script
  /\ Call /\ host[m] > 0 /\ ~waiting[m] /\ url[m] \in Accepted /\ MayInvoke(m)
  /\ KprMessageInvoke(m, Promise)
  /\ UNCHANGED <<alive, host, url, location, response, held, stack, content>>

(* handler.message: one more wrapper of the message the handler has. *)
KPR_handler_get_message ==
  LET m == Top.handles IN
  /\ ScriptRuns /\ stack # <<>> /\ m # None /\ host[m] < MaxHost
  /\ host' = [host EXCEPT ![m] = @ + 1]
  /\ usage' = [usage EXCEPT ![m] = @ + 1]
  /\ UNCHANGED <<alive, data, target, list, queues, held, stack, content, calls>>

(* handler.invoke(message, type), called while the handler has a message:   *)
(* the invoking message is suspended first; KprMessageInvoke may then fail. *)
HandlerRuns == stack # <<>> /\ Top.handles # None
               /\ Top.at \in {"invoke", "complete", "resume", "progress",
                              "inShell", "inApplication"}
MaySuspend(f) == response[f] = None \/ "parallel" \in Script
Invokable(m) == ~waiting[m] /\ url[m] \in Accepted

KPR_handler_invoke(m) ==
  LET f == Top.handles IN
  /\ Call /\ HandlerRuns /\ host[m] > 0 /\ m # f /\ MaySuspend(f)
  /\ Invokable(m) \/ "failingProxy" \in Script
  /\ MayInvoke(m)
  /\ response' = [response EXCEPT ![f] = m]
  /\ IF Invokable(m)
     THEN /\ waiting' = [waiting EXCEPT ![m] = TRUE]
          /\ request' = [request EXCEPT ![m] = f]
          /\ usage' = [usage EXCEPT ![f] = @ + 1,
                                    ![m] = @ + InvokeRefs(m, f)]
          /\ messages' = messages \union {m}
          /\ looped' = (looped \/ m \in messages)
          /\ shellQ' = PostShell(shellQ, m, url[m], "invoke")
          /\ serviceQ' = PostService(serviceQ, m, url[m], "invoke")
     ELSE /\ usage' = [usage EXCEPT ![f] = @ + 1]
          /\ UNCHANGED <<waiting, request, list, queues>>
  /\ UNCHANGED <<alive, host, url, location, held, stack, content>>

(* handler.wait(duration) *)
KPR_handler_wait ==
  LET f == Top.handles IN
  /\ "wait" \in Script /\ Call /\ HandlerRuns /\ response[f] = None
  /\ response' = [response EXCEPT ![f] = HandlerWait]
  /\ usage' = [usage EXCEPT ![f] = @ + 1]
  /\ UNCHANGED <<alive, host, data, request, list, queues, held, stack, content>>

(* handler.redirect(url) *)
KPR_handler_redirect(s) ==
  /\ "redirect" \in Script /\ Call /\ HandlerRuns
  /\ location' = [location EXCEPT ![Top.handles] = s]
  /\ UNCHANGED <<life, waiting, url, target, list, queues, held, stack, content>>

(* content.wait(duration): a message of its own, suspended at once. *)
KPR_content_wait(c, m) ==
  /\ "contentWait" \in Script /\ Call /\ c \notin gone
  /\ m \in WaitMessage /\ alive[m] = "none"
  /\ alive' = [alive EXCEPT ![m] = "live"]
  /\ waiting' = [waiting EXCEPT ![m] = TRUE]
  /\ request' = [request EXCEPT ![m] = c]
  /\ response' = [response EXCEPT ![m] = ContentWait]
  /\ usage' = [usage EXCEPT ![m] = InvokeRefs(m, c) + 1]
  /\ messages' = messages \union {m}
  /\ shellQ' = Append(shellQ, Event("invoke", m))
  /\ messaging' = [messaging EXCEPT ![c] = TRUE]
  /\ UNCHANGED <<host, url, location, looped, serviceQ, held, stack, walk, gone>>

(* message.cancel(), and each message Message.cancelReferrer finds. *)
KPR_message_cancel(m) ==
  /\ "cancel" \in Script /\ ScriptRuns /\ waiting[m] /\ host[m] > 0
  /\ request[m] \in Message => "cancelInner" \in Script
  /\ KprMessageCancel(m, usage, shellQ)
  /\ UNCHANGED <<alive, host, url, location, response, list, held, stack, content, calls>>

(* content.cancel(), and the disposal of a content, which starts with it.   *)
KprContentCancel(c) ==
  /\ "cancel" \in Script /\ ScriptRuns /\ c \notin gone /\ messaging[c]
  /\ walk' = c
  /\ UNCHANGED <<life, data, target, list, queues, held, stack, messaging, gone, calls>>

KprContentDispose(c) ==
  /\ "dispose" \in Script /\ ScriptRuns /\ c \notin gone
  /\ \A i \in DOMAIN stack : ~(stack[i].at = "complete" /\ request[stack[i].m] = c)
  /\ gone' = gone \union {c}
  /\ walk' = IF messaging[c] THEN c ELSE None
  /\ UNCHANGED <<life, data, target, list, queues, held, stack, messaging, calls>>

WalkCancel(m) ==
  /\ walk # None /\ m \in messages /\ request[m] = walk
  /\ KprMessageCancel(m, usage, shellQ)
  /\ UNCHANGED <<alive, host, url, location, response, list, held, stack, content, calls>>

(* The loop of KprContentCancel also steps over a message it could not      *)
(* cancel (one that is not waiting).                                        *)
WalkEnd ==
  /\ walk # None
  /\ \A m \in messages : request[m] = walk => ~waiting[m]
  /\ walk' = None
  /\ messaging' = [messaging EXCEPT ![walk] = FALSE]
  /\ UNCHANGED <<life, data, target, list, queues, held, stack, gone, calls>>

(* Message.notify *)
KprMessageNotify(m) ==
  /\ "notify" \in Script /\ Call /\ host[m] > 0 /\ url[m] = "xkpr"
  /\ usage' = [usage EXCEPT ![m] = @ + 1]
  /\ shellQ' = Append(shellQ, Event("notify", m))
  /\ UNCHANGED <<alive, host, data, target, list, serviceQ, held, stack, content>>

ScriptStep ==
  \/ \E m \in Message :
       \/ KPR_Message(m) \/ KPR_message_destructor(m)
       \/ KPR_invoke_only(m) \/ KPR_message_invoke(m) \/ KPR_handler_invoke(m)
       \/ KPR_message_cancel(m) \/ KprMessageNotify(m)
       \/ \E c \in Content : KPR_content_invoke(c, m) \/ KPR_content_wait(c, m)
  \/ \E c \in Content : KprContentCancel(c) \/ KprContentDispose(c)
  \/ KPR_handler_get_message \/ KPR_handler_wait
  \/ \E s \in RedirectTo : KPR_handler_redirect(s)

-----------------------------------------------------------------------------
(* The shell thread's run loop and the frames it returns to.                *)

Deliver(k, m) == Idle /\ shellQ # <<>> /\ Head(shellQ) = Event(k, m)

(* KprXKPRServiceInvoke, up to the script of the handler or application.    *)
KprXKPRServiceInvoke(m) ==
  /\ Deliver("invoke", m)
  /\ \E script \in BOOLEAN :
       /\ Wraps(m, script) /\ (script => m \notin WaitMessage)
       /\ host' = [host EXCEPT ![m] = @ + B(script)]
       /\ usage' = [usage EXCEPT ![m] = @ - 1 + B(script)]
       /\ stack' = <<Frame("invoke", m, m, script, IF script THEN m ELSE None)>>
  /\ shellQ' = Tail(shellQ)
  /\ UNCHANGED <<alive, data, target, list, serviceQ, held, content, calls>>

(* ... and after it: a message that was not suspended is complete. *)
ReturnInvoke ==
  /\ At("invoke")
  /\ IF Resumes(Top.m)
     THEN KprMessageComplete(Top.m, usage, response, shellQ, Pop(stack))
     ELSE /\ stack' = Pop(stack)
          /\ UNCHANGED <<life, data, target, list, queues>>
  /\ UNCHANGED <<held, content, calls>>

(* KprXKPRServiceCancel, up to the onCancel script. *)
KprXKPRServiceCancel(m) ==
  /\ Deliver("cancel", m)
  /\ shellQ' = Tail(shellQ)
  /\ IF m \in messages
     THEN LET n == response[m] IN
          \E script \in BOOLEAN :
            /\ script => n \in Message \union {HandlerWait}
            /\ n \in Message => Wraps(n, script)
            /\ messages' = messages \ {m}
            /\ host' = [x \in Message |-> host[x] + B(script /\ x = n)]
            /\ usage' = [x \in Message |->
                           usage[x] - (IF x = m THEN 2 ELSE 0) + B(script /\ x = n)]
            /\ stack' = <<Frame("cancel", m, m, script,
                                IF script /\ n \in Message THEN n ELSE None)>>
            /\ UNCHANGED alive
     ELSE /\ usage' = [usage EXCEPT ![m] = @ - 1]
          /\ Free(Disposed(m, 1))
          /\ UNCHANGED <<host, messages, stack>>
  /\ UNCHANGED <<data, target, looped, serviceQ, held, content, calls>>

(* ... and after it: the invoked message is cancelled and the response      *)
(* reference given back, whether or not there is one.                       *)
ReturnCancel ==
  LET m == Top.m
      n == response[m]
      left == [usage EXCEPT ![m] = @ - 1]
  IN
  /\ At("cancel")
  /\ IF n \in Message
     THEN KprMessageCancel(n, left, shellQ)
     ELSE usage' = left /\ UNCHANGED <<waiting, request, queues>>
  /\ response' = [response EXCEPT ![m] = None]
  /\ Free(IF left[m] = 0 THEN {m} ELSE {})
  /\ messages' = messages \ (IF left[m] = 0 THEN {m} ELSE {})
  /\ stack' = Pop(stack)
  /\ UNCHANGED <<host, url, location, looped, held, content, calls>>

(* KprMessageComplete, as posted by the services thread. *)
DeliverComplete(m) ==
  /\ Deliver("complete", m)
  /\ KprMessageComplete(m, usage, response, Tail(shellQ), <<>>)
  /\ UNCHANGED <<held, content, calls>>

(* Mutant: the list is not searched. *)
Pending_none(c) == FALSE

(* What KprContentComplete looks for in the list. *)
Pending(c) == \E n \in messages : request[n] = c

(* After onComplete: KprContentComplete clears the flag of a content with   *)
(* nothing pending; KprHandlerTargetRequestCallback resumes the former      *)
(* message, which completes it unless it was suspended again.               *)
ReturnComplete ==
  LET f == Top.handles
      c == request[Top.m]
      below == Push(Pop(stack), Frame("cleanup", Top.m, None, FALSE, None))
  IN
  /\ At("complete")
  /\ IF f # None /\ Resumes(f)
     THEN KprMessageComplete(f, usage, response, shellQ, below)
     ELSE /\ stack' = below
          /\ UNCHANGED <<life, data, target, list, queues>>
  /\ messaging' = [x \in Content |-> messaging[x] /\ (x = c => Pending(c))]
  /\ UNCHANGED <<held, walk, gone, calls>>

(* The end of KprMessageComplete. *)
Cleanup ==
  /\ At("cleanup")
  /\ request' = [request EXCEPT ![Top.m] = None]
  /\ usage' = [usage EXCEPT ![Top.m] = @ - 1]
  /\ Free(Disposed(Top.m, 1))
  /\ messages' = messages \ Disposed(Top.m, 1)
  /\ stack' = Pop(stack)
  /\ UNCHANGED <<host, data, response, looped, queues, held, content, calls>>

(* KprMessageNotifyCallback: the shell, then the application. *)
KprMessageNotifyCallback(m) ==
  /\ Deliver("notify", m)
  /\ usage' = [usage EXCEPT ![m] = @ - 1]
  /\ stack' = <<Frame("beforeShell", m, None, FALSE, None)>>
  /\ shellQ' = Tail(shellQ)
  /\ UNCHANGED <<alive, host, data, target, list, serviceQ, held, content, calls>>

(* KprContextInvoke of one of the two: its wrapper and its script, that of a *)
(* handler, which has the message, or that of the context itself.            *)
NotifyContext ==
  /\ At("beforeShell") \/ At("beforeApplication")
  /\ \E script \in BOOLEAN : \E handles \in {None, Top.m} :
       /\ Wraps(Top.m, script)
       /\ host' = [host EXCEPT ![Top.m] = @ + B(script)]
       /\ usage' = [usage EXCEPT ![Top.m] = @ + B(script)]
       /\ stack' = <<Frame(IF Top.at = "beforeShell" THEN "inShell" ELSE "inApplication",
                           Top.m, handles, script, IF script THEN Top.m ELSE None)>>
  /\ UNCHANGED <<alive, data, target, list, queues, held, content, calls>>

ReturnShell ==
  /\ At("inShell")
  /\ stack' = <<Frame("beforeApplication", Top.m, None, FALSE, None)>>
  /\ UNCHANGED <<life, data, target, list, queues, held, content, calls>>

ReturnNotify ==
  /\ At("inApplication")
  /\ Free(Disposed(Top.m, 0))
  /\ messages' = messages \ Disposed(Top.m, 0)
  /\ stack' = Pop(stack)
  /\ UNCHANGED <<usage, host, data, target, looped, queues, held, content, calls>>

(* KprDownloadStreamOnReceive and the other progress callbacks: the script  *)
(* of the handler that waits for m, if it still does.                       *)
DeliverProgress(m) ==
  /\ Deliver("progress", m)
  /\ \E script \in BOOLEAN :
       /\ Wraps(m, script) /\ (script => request[m] \in Message)
       /\ host' = [host EXCEPT ![m] = @ + B(script)]
       /\ usage' = [usage EXCEPT ![m] = @ + B(script)]
       /\ stack' = <<Frame("progress", m, IF script THEN request[m] ELSE None,
                           script, IF script THEN m ELSE None)>>
  /\ shellQ' = Tail(shellQ)
  /\ UNCHANGED <<alive, data, target, list, serviceQ, held, content, calls>>

ReturnProgress ==
  /\ At("progress")
  /\ stack' = Pop(stack)
  /\ UNCHANGED <<life, data, target, list, queues, held, content, calls>>

(* The timers.  Disposing the response target disposes its timer, so the    *)
(* timer of m runs exactly while the target is in place.                    *)
KPR_handler_waitComplete(m) ==
  /\ Idle /\ response[m] = HandlerWait
  /\ response' = [response EXCEPT ![m] = None]
  /\ usage' = [usage EXCEPT ![m] = @ - 1]
  /\ \E script \in BOOLEAN : stack' = <<Frame("resume", m, m, script, None)>>
  /\ UNCHANGED <<alive, host, data, request, list, queues, held, content, calls>>

ReturnResume ==
  /\ At("resume")
  /\ IF Resumes(Top.m)
     THEN KprMessageComplete(Top.m, usage, response, shellQ, Pop(stack))
     ELSE /\ stack' = Pop(stack)
          /\ UNCHANGED <<life, data, target, list, queues>>
  /\ UNCHANGED <<held, content, calls>>

KPR_content_waitComplete(m) ==
  /\ Idle /\ response[m] = ContentWait
  /\ KprMessageComplete(m, [usage EXCEPT ![m] = @ - 1],
                        [response EXCEPT ![m] = None], shellQ, <<>>)
  /\ UNCHANGED <<held, content, calls>>

ShellStep ==
  \/ \E m \in Message :
       \/ KprXKPRServiceInvoke(m) \/ KprXKPRServiceCancel(m)
       \/ DeliverComplete(m) \/ KprMessageNotifyCallback(m) \/ DeliverProgress(m)
       \/ KPR_handler_waitComplete(m) \/ KPR_content_waitComplete(m)
       \/ WalkCancel(m)
  \/ ReturnInvoke \/ ReturnCancel \/ ReturnComplete \/ Cleanup
  \/ NotifyContext \/ ReturnShell \/ ReturnNotify \/ ReturnProgress \/ ReturnResume
  \/ WalkEnd

-----------------------------------------------------------------------------
(* The services thread.  A service starts on a message that is still        *)
(* waiting, reports progress, and posts KprMessageComplete once; its cancel *)
(* callback must not look at the message, which may be gone by then.        *)

ServiceInvoke(m) ==
  /\ serviceQ # <<>> /\ Head(serviceQ) = Event("invoke", m)
  /\ serviceQ' = Tail(serviceQ)
  /\ IF waiting[m]
     THEN held' = held \union {m} /\ UNCHANGED shellQ
     ELSE shellQ' = Append(shellQ, Event("complete", m)) /\ UNCHANGED held
  /\ UNCHANGED <<life, data, target, list, stack, content, calls>>

ServiceCancel ==
  /\ serviceQ # <<>> /\ Head(serviceQ).ev = "cancel"
  /\ serviceQ' = Tail(serviceQ)
  /\ UNCHANGED <<life, data, target, list, shellQ, held, stack, content, calls>>

(* Bound: one progress callback of m is in flight at a time. *)
ServiceProgress(m) ==
  /\ m \in held /\ calls < MaxCalls
  /\ \A i \in DOMAIN shellQ : shellQ[i] # Event("progress", m)
  /\ shellQ' = Append(shellQ, Event("progress", m))
  /\ calls' = calls + 1
  /\ UNCHANGED <<life, data, target, list, serviceQ, held, stack, content>>

(* Mutant: the service keeps the target it has completed. *)
ServiceFinish_kept(m) ==
  /\ m \in held
  /\ shellQ' = Append(shellQ, Event("complete", m))
  /\ UNCHANGED <<life, data, target, list, serviceQ, held, stack, content, calls>>

ServiceFinish(m) ==
  /\ m \in held
  /\ held' = held \ {m}
  /\ shellQ' = Append(shellQ, Event("complete", m))
  /\ UNCHANGED <<life, data, target, list, serviceQ, stack, content, calls>>

ServiceStep ==
  \/ ServiceCancel
  \/ \E m \in Message : ServiceInvoke(m) \/ ServiceProgress(m) \/ ServiceFinish(m)

Next == ScriptStep \/ ShellStep \/ ServiceStep

Spec == Init /\ [][Next]_vars

(* The shell thread runs its loop and scripts return; the services thread   *)
(* runs its loop; a request to the network ends, if only by its timeout.    *)
FairSpec ==
  /\ Spec
  /\ WF_vars(ShellStep)
  /\ WF_vars(ServiceCancel \/ \E m \in Message : ServiceInvoke(m))
  /\ \A m \in Message : WF_vars(ServiceFinish(m))

-----------------------------------------------------------------------------
Targets   == Message \union Content \union {None, Promise}
Responses == Message \union {None, HandlerWait, ContentWait}
EventRecords == [ev : Events, m : Message]
Frames == [at : Places, m : Message, handles : Message \union {None},
           script : BOOLEAN, wrap : Message \union {None}]

\* Every variable has its type (the record types of kprMessage.h and the
\* queues of the two threads).
TypeOK ==
  /\ alive \in [Message -> {"none", "live", "freed"}]
  /\ usage \in [Message -> Int]
  /\ host \in [Message -> Nat]
  /\ waiting \in [Message -> BOOLEAN]
  /\ url \in [Message -> Schemes]
  /\ location \in [Message -> Schemes \union {"nil"}]
  /\ request \in [Message -> Targets]
  /\ response \in [Message -> Responses]
  /\ messages \subseteq Message
  /\ looped \in BOOLEAN
  /\ shellQ \in Seq(EventRecords)
  /\ serviceQ \in Seq(EventRecords)
  /\ held \subseteq Message
  /\ stack \in Seq(Frames)
  /\ walk \in Content \union {None}
  /\ messaging \in [Content -> BOOLEAN]
  /\ gone \subseteq Content
  /\ calls \in Nat

CountedIn(q, m) == Cardinality({i \in DOMAIN q : q[i].m = m /\ q[i].ev \in Counted})
Posted(m) == CountedIn(shellQ, m)

\* usage is exactly the number of references the comments of kprMessage.c
\* name: wrappers, request target, message queue, event queue, response.
UsageCounts ==
  \A m \in Message :
    usage[m] = host[m] + B(request[m] # None) + B(m \in messages) + Posted(m)
               + B(response[m] # None)

\* No pointer the program will follow names a message that was freed: not
\* the list, a posted callback, a service's target, a handler target, a
\* wrapper or a native frame of the shell thread.
NoDangling ==
  \A m \in Message : alive[m] = "freed" =>
    /\ host[m] = 0
    /\ m \notin messages \union held
    /\ \A i \in DOMAIN shellQ : shellQ[i].m # m
    /\ \A i \in DOMAIN serviceQ : serviceQ[i] # Event("invoke", m)
    /\ \A i \in DOMAIN stack : stack[i].m # m /\ stack[i].handles # m
    /\ \A n \in Message : response[n] # m /\ (n \in messages => request[n] # m)

\* Once the shell thread is between two callbacks, a message that nothing
\* refers to has been freed: no path of complete, cancel, resume and the
\* collector forgets the last check of the count.
NoLeak == Idle => \A m \in Message : alive[m] = "live" => usage[m] > 0

\* A handler's invoking message stays suspended on the message it invoked,
\* and that message still leads back to it, until the latter completes or
\* the former is cancelled (KprHandlerTarget, both directions).
Linked ==
  \A f, m \in Message :
    /\ response[f] = m => request[m] = f /\ m \in messages /\ waiting[m]
    /\ request[m] = f /\ m \in messages => response[f] = m

\* The invoking message is never completed, or out of the list, while a
\* message it invoked is pending.
SuspendedUntilComplete ==
  \A f, m \in Message :
    request[m] = f /\ m \in messages /\ waiting[m]
      => \/ f \in messages
         \/ \E i \in DOMAIN stack : stack[i].at = "cancel" /\ stack[i].m = f

\* No disposed content is the target of a message, once its messages have
\* been cancelled: a late completion calls no freed behaviour.
NoGoneTarget == walk = None => \A m \in Message : alive[m] = "live" => request[m] \notin gone

\* A target hears of the completion of its message only while the message
\* waits: once KprMessageCancel has run, onComplete is not called, however
\* the cancel callback and a completion on its way race.
CancelSilences ==
  [][\A m \in Message :
       (\E i \in DOMAIN stack' : stack'[i] \notin {stack[j] : j \in DOMAIN stack}
                                 /\ stack'[i].at = "complete" /\ stack'[i].m = m)
       => waiting[m]]_vars

\* gShell->messages never becomes a cycle.
ListIntact == ~looped

\* The services thread has each message it was given exactly once: in its
\* queue, among its targets or as a completion on its way to the shell.
InService(m) ==
  Cardinality({i \in DOMAIN serviceQ : serviceQ[i] = Event("invoke", m)})
  + B(m \in held)
  + Cardinality({i \in DOMAIN shellQ : shellQ[i] = Event("complete", m)})
OneCompletion ==
  \A m \in Message : InService(m) = B(m \in messages /\ url[m] = "http")

\* Whoever asked to hear of a message does: every request target is called
\* back, or let go because the message was cancelled.
Settles == \A m \in Message : request[m] # None ~> request[m] = None

=============================================================================
