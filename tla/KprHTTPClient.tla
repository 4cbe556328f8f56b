--------------------------- MODULE KprHTTPClient ---------------------------
(***************************************************************************)
(* The HTTP client of the services thread: kprHTTPClient.c over the part of *)
(* FskHTTPClient.c that it uses.                                            *)
(*                                                                          *)
(* Messages wait in `targets', sorted by priority, for one of a fixed pool  *)
(* of connections.  KprHTTPClientIterate hands them out.  It runs after     *)
(* most events, on the services thread, and reads message->waiting, which   *)
(* the shell thread clears at any moment: it is cut wherever it reads it.   *)
(* A callback of the run loop starts only when no Iterate is under way.     *)
(***************************************************************************)
EXTENDS Integers, Sequences, SequencesExt

CONSTANTS
  Message,      \* messages, each invoked at most once
  Host,         \* host and port of a url, each spoken to in one protocol
  None,         \* NULL
  PoolSize,     \* the number of connections (httpPoolSize)
  UrlHost,      \* the host of the url each message is created with
  Priority,     \* message->priority
  Owner,        \* message->request.target
  RedirectTo,   \* hosts of the locations servers answer with
  MaxRedirects, \* redirections and 504 a message survives (10 in the code)
  MaxDrops,     \* bound: dropped connections
  CacheStates,  \* what the cache may know of a url: "none", "fresh", "stale"
  Fails,        \* whether requests may fail
  Closes,       \* exchanges that may close their connection: "done", "failed", "again"
  Racy,         \* whether the shell thread may free a message that was just completed
  Stops         \* whether the services may be stopped

Connections == 1 .. PoolSize

ASSUME ConstantsAssumption ==
  /\ None \notin Message \union Host
  /\ PoolSize \in Nat \ {0}
  /\ UrlHost \in [Message -> Host]
  /\ Priority \in [Message -> Int]
  /\ None \notin {Owner[m] : m \in Message}
  /\ RedirectTo \subseteq Host
  /\ MaxRedirects \in Nat /\ MaxDrops \in Nat
  /\ CacheStates \subseteq {"none", "fresh", "stale"}
  /\ Closes \subseteq {"done", "failed", "again"}
  /\ {Fails, Racy, Stops} \subseteq BOOLEAN

VARIABLES
  asked,     \* messages the shell thread has invoked
  waiting,   \* messages whose "waiting" flag is set
  inbox,     \* callbacks posted to the services thread
  posts,     \* how often KprMessageComplete was posted for a message
  url,       \* the host of message->url
  redirects, \* target->redirects
  cached,    \* messages whose target has a cache value to revalidate
  targets,   \* self->targets
  target,    \* connection->target
  client,    \* the host of connection->client, None when there is no client
  priority,  \* the priority of connection->client
  busy,      \* connections whose client has a request or a response
  due,       \* connections whose client will call its finished callback
  order,     \* connections by connection->time, the oldest first
  drops,     \* connections dropped so far
  loop       \* where KprHTTPClientIterate is

messageVars == <<url, redirects, cached>>
poolVars == <<target, client, priority, busy, due, order>>
vars == <<asked, waiting, inbox, posts, messageVars, targets, poolVars, drops, loop>>

Event(k, m) == [ev |-> k, m |-> m]
At(phase, i) == [phase |-> phase, at |-> i]
Rest == At("rest", 0)
Resting == loop = Rest
Stopped == loop.phase = "stopped"

Abs(n) == IF n < 0 THEN -n ELSE n
Rank(m) == Abs(Priority[m])

(* KprMessageCancel clears the flag and detaches the request target. *)
RequestTarget(m) == IF m \in waiting THEN Owner[m] ELSE None

Init ==
  /\ asked = {} /\ waiting = {} /\ inbox = <<>>
  /\ posts = [m \in Message |-> 0]
  /\ url = UrlHost
  /\ redirects = [m \in Message |-> 0]
  /\ cached = {}
  /\ targets = <<>>
  /\ target = [c \in Connections |-> None]
  /\ client = [c \in Connections |-> None]
  /\ priority = [c \in Connections |-> 0]
  /\ busy = {} /\ due = {}
  /\ order = [i \in Connections |-> i]
  /\ drops = 0
  /\ loop = Rest

-----------------------------------------------------------------------------
(* The shell thread. *)

KprMessageInvoke(m) ==
  /\ ~Stopped /\ m \notin asked
  /\ asked' = asked \union {m}
  /\ waiting' = waiting \union {m}
  /\ inbox' = Append(inbox, Event("invoke", m))
  /\ UNCHANGED <<posts, messageVars, targets, poolVars, drops, loop>>

KprMessageCancel(m) ==
  /\ ~Stopped /\ m \in waiting
  /\ waiting' = waiting \ {m}
  /\ inbox' = Append(inbox, Event("cancel", m))
  /\ UNCHANGED <<asked, posts, messageVars, targets, poolVars, drops, loop>>

KprMessageComplete(m) ==
  /\ m \in waiting /\ posts[m] > 0
  /\ waiting' = waiting \ {m}
  /\ UNCHANGED <<asked, inbox, posts, messageVars, targets, poolVars, drops, loop>>

-----------------------------------------------------------------------------
(* Targets and connections. *)

KprHTTPClientIterate == loop' = At("close", 1)

(* The target is disposed of, with what it knew, and the completion posted. *)
KprHTTPClientResumeTarget(m) ==
  /\ posts' = [posts EXCEPT ![m] = @ + 1]
  /\ redirects' = [redirects EXCEPT ![m] = 0]
  /\ cached' = cached \ {m}

(* The walk of KprHTTPClientAddTarget ends at position i of the list. *)
StopsAt(s, m, i) ==
  LET Passes(j) == IF Priority[m] < 0 THEN Rank(m) >= Rank(s[j]) ELSE Rank(m) > Rank(s[j])
  IN  /\ \A j \in 1 .. i - 1 : ~Passes(j)
      /\ i <= Len(s) => Passes(i)

\* Mutant: the list is not looked at.
KprHTTPClientAddTarget_quiet(m) ==
  /\ \E i \in 1 .. Len(targets) + 1 :
       StopsAt(targets, m, i) /\ targets' = InsertAt(targets, i, m)
  /\ UNCHANGED loop

KprHTTPClientAddTarget(m) ==
  /\ \E i \in 1 .. Len(targets) + 1 :
       StopsAt(targets, m, i) /\ targets' = InsertAt(targets, i, m)
  /\ KprHTTPClientIterate

Available(c) == c \notin busy

Candidate(c, m) ==
  \/ client[c] = None
  \/ /\ client[c] = url[m]
     /\ priority[c] = Rank(m)
     /\ target[c] # None => RequestTarget(target[c]) = RequestTarget(m)

(* The connection Iterate's search stops at, and the one it falls back on.  *)
FirstCandidate(c, m) ==
  /\ Candidate(c, m)
  /\ \A d \in Connections : d < c => ~Candidate(d, m)
NoCandidate(m) == \A c \in Connections : ~Candidate(c, m)
Oldest(c) ==
  /\ Available(c)
  /\ \E i \in Connections : /\ order[i] = c
                            /\ \A j \in 1 .. i - 1 : ~Available(order[j])

(* connection->time = now. *)
Touched(c) ==
  LET p == CHOOSE i \in Connections : order[i] = c
  IN  [k \in Connections |-> IF k = PoolSize THEN c ELSE IF k < p THEN order[k] ELSE order[k + 1]]

KprHTTPConnectionClose(c) ==
  /\ client' = [client EXCEPT ![c] = None]
  /\ priority' = [priority EXCEPT ![c] = 0]
  /\ target' = [target EXCEPT ![c] = None]
  /\ busy' = busy \ {c}
  /\ due' = due \ {c}

(* KprHTTPConnectionProcess on a new client (its priority is the message's, *)
(* with its sign) or on the client the connection has.                      *)
KprHTTPConnectionProcess(c, m, new) ==
  /\ client' = [client EXCEPT ![c] = url[m]]
  /\ priority' = [priority EXCEPT ![c] = IF new THEN Priority[m] ELSE @]
  /\ target' = [target EXCEPT ![c] = m]
  /\ busy' = busy \union {c}
  /\ due' = due \ {c}
  /\ order' = Touched(c)

-----------------------------------------------------------------------------
(* Callbacks the shell thread posted. *)

Receive(k, m) ==
  /\ Resting /\ inbox # <<>> /\ Head(inbox) = Event(k, m)
  /\ inbox' = Tail(inbox)

(* KprHTTPClientInvoke: of a message that was cancelled, *)
InvokeCancelled(m) ==
  /\ Receive("invoke", m) /\ m \notin waiting
  /\ KprHTTPClientResumeTarget(m)
  /\ UNCHANGED <<asked, waiting, url, targets, poolVars, drops, loop>>

(* of one whose response is in the cache and fresh, *)
InvokeFresh(m) ==
  /\ Receive("invoke", m) /\ m \in waiting /\ "fresh" \in CacheStates
  /\ KprHTTPClientResumeTarget(m)
  /\ UNCHANGED <<asked, waiting, url, targets, poolVars, drops, loop>>

(* and of one that must ask a server: with a validator if the cache is      *)
(* stale, without one if it cannot be read.                                 *)
InvokeTarget(m) ==
  /\ Receive("invoke", m) /\ m \in waiting
  /\ \E state \in CacheStates :
       cached' = IF state = "stale" THEN cached \union {m} ELSE cached
  /\ KprHTTPClientAddTarget(m)
  /\ UNCHANGED <<asked, waiting, posts, url, redirects, poolVars, drops>>

\* Mutant: nothing is looked at.
KprHTTPClientCancel_idle(m) ==
  /\ Receive("cancel", m)
  /\ UNCHANGED <<asked, waiting, posts, messageVars, targets, poolVars, drops, loop>>

KprHTTPClientCancel(m) ==
  /\ Receive("cancel", m)
  /\ KprHTTPClientIterate
  /\ UNCHANGED <<asked, waiting, posts, messageVars, targets, poolVars, drops>>

-----------------------------------------------------------------------------
(* KprHTTPClientIterate, first loop: connections whose message was cancelled. *)

Closing(c) == loop = At("close", c)
NextConnection(c) ==
  loop' = IF c < PoolSize THEN At("close", c + 1) ELSE At("sweep", 1)
Cancelled(c) == target[c] # None /\ target[c] \notin waiting

\* Mutant: the completion of a cancelled message is left to its owner.
CloseCancelled_quiet(c) ==
  /\ Closing(c) /\ Cancelled(c)
  /\ KprHTTPConnectionClose(c)
  /\ NextConnection(c)
  /\ UNCHANGED <<asked, waiting, inbox, posts, messageVars, targets, order, drops>>

CloseCancelled(c) ==
  /\ Closing(c) /\ Cancelled(c)
  /\ KprHTTPConnectionClose(c)
  /\ KprHTTPClientResumeTarget(target[c])
  /\ NextConnection(c)
  /\ UNCHANGED <<asked, waiting, inbox, url, targets, order, drops>>

KeepConnection(c) ==
  /\ Closing(c) /\ ~Cancelled(c)
  /\ NextConnection(c)
  /\ UNCHANGED <<asked, waiting, inbox, posts, messageVars, targets, poolVars, drops>>

(* Second loop: targets whose message was cancelled. *)

Sweeping(i) == loop = At("sweep", i) /\ i <= Len(targets)

SweepCancelled(i) ==
  /\ Sweeping(i) /\ targets[i] \notin waiting
  /\ targets' = RemoveAt(targets, i)
  /\ KprHTTPClientResumeTarget(targets[i])
  /\ UNCHANGED <<asked, waiting, inbox, url, poolVars, drops, loop>>

SweepNext(i) ==
  /\ Sweeping(i) /\ targets[i] \in waiting
  /\ loop' = At("sweep", i + 1)
  /\ UNCHANGED <<asked, waiting, inbox, posts, messageVars, targets, poolVars, drops>>

SweepEnd(i) ==
  /\ loop = At("sweep", i) /\ i > Len(targets)
  /\ loop' = At("assign", 1)
  /\ UNCHANGED <<asked, waiting, inbox, posts, messageVars, targets, poolVars, drops>>

(* Third loop: targets that a connection can take. *)

Assigning(i) == loop = At("assign", i) /\ i <= Len(targets)

(* The candidate works for the same owner: the message waits for it. *)
AssignLater(i) ==
  /\ Assigning(i)
  /\ \E c \in Connections : FirstCandidate(c, targets[i]) /\ ~Available(c)
  /\ loop' = At("assign", i + 1)
  /\ UNCHANGED <<asked, waiting, inbox, posts, messageVars, targets, poolVars, drops>>

Assign(c, i, new) ==
  /\ KprHTTPConnectionProcess(c, targets[i], new)
  /\ targets' = RemoveAt(targets, i)
  /\ UNCHANGED <<asked, waiting, inbox, posts, messageVars, drops, loop>>

AssignCandidate(i) ==
  /\ Assigning(i)
  /\ \E c \in Connections : /\ FirstCandidate(c, targets[i]) /\ Available(c)
                            /\ Assign(c, i, client[c] = None)

(* A later message, of no lower priority, that can use connection c. *)
Reuses(c, i, j) ==
  /\ Rank(targets[j]) >= Rank(targets[i])
  /\ Candidate(c, targets[j])

\* Mutant: any later message will do.
FirstOther_any(c, i, j) ==
  /\ j \in i + 1 .. Len(targets)
  /\ Candidate(c, targets[j])

FirstOther(c, i, j) ==
  /\ j \in i + 1 .. Len(targets)
  /\ Reuses(c, i, j)
  /\ \A k \in i + 1 .. j - 1 : /\ Rank(targets[k]) >= Rank(targets[i])
                               /\ ~Candidate(c, targets[k])

AssignOther(i) ==
  /\ Assigning(i) /\ NoCandidate(targets[i])
  /\ \E c \in Connections, j \in DOMAIN targets :
       Oldest(c) /\ FirstOther(c, i, j) /\ Assign(c, j, FALSE)

(* KprHTTPConnectionClose, then KprHTTPConnectionProcess. *)
AssignReplace(i) ==
  /\ Assigning(i) /\ NoCandidate(targets[i])
  /\ \E c \in Connections :
       /\ Oldest(c)
       /\ \A j \in DOMAIN targets : ~FirstOther(c, i, j)
       /\ Assign(c, i, TRUE)

(* All connections are busy. *)
AssignFull(i) ==
  /\ Assigning(i) /\ NoCandidate(targets[i])
  /\ \A c \in Connections : ~Available(c)
  /\ loop' = Rest
  /\ UNCHANGED <<asked, waiting, inbox, posts, messageVars, targets, poolVars, drops>>

AssignEnd(i) ==
  /\ loop = At("assign", i) /\ i > Len(targets)
  /\ loop' = Rest
  /\ UNCHANGED <<asked, waiting, inbox, posts, messageVars, targets, poolVars, drops>>

Iterating ==
  \/ \E c \in Connections : CloseCancelled(c) \/ KeepConnection(c)
  \/ \E i \in 1 .. Len(targets) + 1 :
       \/ SweepCancelled(i) \/ SweepNext(i) \/ SweepEnd(i)
       \/ AssignLater(i) \/ AssignCandidate(i) \/ AssignOther(i) \/ AssignReplace(i)
       \/ AssignFull(i) \/ AssignEnd(i)

-----------------------------------------------------------------------------
(* Callbacks of the clients.  FskHTTPClient has removed the request before  *)
(* it calls KprHTTPConnectionCompleteCallback; when the callback leaves the *)
(* client idle, its next cycles end in the finished callback.               *)

(* The connection was dropped: the same target on a new client. *)
CompleteDropped(c) ==
  /\ Resting /\ target[c] # None /\ drops < MaxDrops
  /\ drops' = drops + 1
  /\ cached' = cached \ {target[c]}
  /\ KprHTTPConnectionProcess(c, target[c], TRUE)
  /\ UNCHANGED <<asked, waiting, inbox, posts, url, redirects, targets, loop>>

(* An exchange is over.  "Connection: close" disposes of the client, and    *)
(* with it of its finished callback.                                        *)
Released(c, how) ==
  /\ Resting /\ target[c] # None
  /\ \/ /\ how \in Closes
        /\ KprHTTPConnectionClose(c)
     \/ /\ target' = [target EXCEPT ![c] = None]
        /\ busy' = busy \ {c}
        /\ due' = due \union {c}
        /\ UNCHANGED <<client, priority>>
  /\ UNCHANGED order

(* The completion is posted before message->error is read: the shell thread *)
(* may have freed the message by then, and the test may go either way.      *)
IterateUnless(error) ==
  \/ ~error /\ KprHTTPClientIterate
  \/ error /\ UNCHANGED loop
  \/ Racy /\ (KprHTTPClientIterate \/ UNCHANGED loop)

\* Mutant: a target that was answered stays in the list.
CompleteDone_kept(c) ==
  /\ Released(c, "done")
  /\ KprHTTPClientResumeTarget(target[c])
  /\ targets' = Append(targets, target[c])
  /\ IterateUnless(FALSE)
  /\ UNCHANGED <<asked, waiting, inbox, url, drops>>

CompleteDone(c) ==
  /\ Released(c, "done")
  /\ KprHTTPClientResumeTarget(target[c])
  /\ IterateUnless(FALSE)
  /\ UNCHANGED <<asked, waiting, inbox, url, targets, drops>>

(* The client failed, the location is missing, or it is the redirection too *)
(* many.                                                                    *)
CompleteFailed(c) ==
  /\ Released(c, "failed")
  /\ Fails \/ redirects[target[c]] = MaxRedirects
  /\ KprHTTPClientResumeTarget(target[c])
  /\ IterateUnless(TRUE)
  /\ UNCHANGED <<asked, waiting, inbox, url, targets, drops>>

\* Mutant: one redirection too many.
CompleteAgain_more(c) ==
  /\ Released(c, "again")
  /\ redirects[target[c]] <= MaxRedirects
  /\ redirects' = [redirects EXCEPT ![target[c]] = @ + 1]
  /\ cached' = cached \ {target[c]}
  /\ KprHTTPClientAddTarget(target[c])
  /\ UNCHANGED <<asked, waiting, inbox, posts, url, drops>>

(* A redirection, or a 504, which asks the same url again. *)
CompleteAgain(c) ==
  /\ Released(c, "again")
  /\ redirects[target[c]] < MaxRedirects
  /\ redirects' = [redirects EXCEPT ![target[c]] = @ + 1]
  /\ \E h \in RedirectTo \union {url[target[c]]} : url' = [url EXCEPT ![target[c]] = h]
  /\ cached' = cached \ {target[c]}
  /\ KprHTTPClientAddTarget(target[c])
  /\ UNCHANGED <<asked, waiting, inbox, posts, drops>>

(* 304, and the cached response cannot be read: once more without the cache. *)
CompleteUnreadable(c) ==
  /\ Released(c, "again")
  /\ target[c] \in cached
  /\ cached' = cached \ {target[c]}
  /\ KprHTTPClientAddTarget(target[c])
  /\ UNCHANGED <<asked, waiting, inbox, posts, url, redirects, drops>>

KprHTTPConnectionCompleteCallback(c) ==
  \/ CompleteDropped(c) \/ CompleteDone(c) \/ CompleteFailed(c)
  \/ CompleteAgain(c) \/ CompleteUnreadable(c)

\* Mutant: the connection is kept and nobody is told.
ClosedKeep_quiet(c) ==
  /\ Resting /\ c \in due
  /\ due' = due \ {c}
  /\ UNCHANGED <<asked, waiting, inbox, posts, messageVars, targets, target, client,
                 priority, busy, order, drops, loop>>

(* The client is idle: after its last request, *)
ClosedKeep(c) ==
  /\ Resting /\ c \in due
  /\ due' = due \ {c}
  /\ KprHTTPClientIterate
  /\ UNCHANGED <<asked, waiting, inbox, posts, messageVars, targets, target, client,
                 priority, busy, order, drops>>

(* or later, because its socket was closed, timed out or lost its interface. *)
ClosedLost(c) ==
  /\ Resting /\ client[c] # None /\ Available(c)
  /\ KprHTTPConnectionClose(c)
  /\ KprHTTPClientIterate
  /\ UNCHANGED <<asked, waiting, inbox, posts, messageVars, targets, order, drops>>

KprHTTPClientStop ==
  /\ Stops /\ Resting
  /\ loop' = At("stopped", 0)
  /\ targets' = <<>>
  /\ target' = [c \in Connections |-> None]
  /\ client' = [c \in Connections |-> None]
  /\ priority' = [c \in Connections |-> 0]
  /\ busy' = {} /\ due' = {}
  /\ UNCHANGED <<asked, waiting, inbox, posts, messageVars, order, drops>>

-----------------------------------------------------------------------------

Shell ==
  \E m \in Message : KprMessageInvoke(m) \/ KprMessageCancel(m) \/ KprMessageComplete(m)

Received ==
  \E m \in Message :
    InvokeCancelled(m) \/ InvokeFresh(m) \/ InvokeTarget(m) \/ KprHTTPClientCancel(m)

Next ==
  \/ Shell \/ Received \/ Iterating
  \/ \E c \in Connections :
       KprHTTPConnectionCompleteCallback(c) \/ ClosedKeep(c) \/ ClosedLost(c)
  \/ KprHTTPClientStop

Spec == Init /\ [][Next]_vars

(* The run loop of the services thread goes on, and the finished callback   *)
(* that is due comes.                                                       *)
FairSpec ==
  /\ Spec
  /\ WF_vars(Received)
  /\ WF_vars(Iterating)
  /\ \A c \in Connections : WF_vars(c \in due /\ (ClosedKeep(c) \/ ClosedLost(c)))

(* Servers answer, or the connection is lost. *)
NetworkFairness ==
  \A c \in Connections : WF_vars(KprHTTPConnectionCompleteCallback(c))

-----------------------------------------------------------------------------
(* Properties. *)

\* Every variable has its type (KprHTTPClientStruct, KprHTTPConnectionStruct,
\* KprHTTPTargetStruct).
TypeOK ==
  /\ asked \subseteq Message
  /\ waiting \subseteq asked
  /\ inbox \in Seq([ev : {"invoke", "cancel"}, m : Message])
  /\ posts \in [Message -> Nat]
  /\ url \in [Message -> Host]
  /\ redirects \in [Message -> 0 .. MaxRedirects]
  /\ cached \subseteq Message
  /\ targets \in Seq(Message)
  /\ target \in [Connections -> Message \union {None}]
  /\ client \in [Connections -> Host \union {None}]
  /\ priority \in [Connections -> Int]
  /\ busy \subseteq Connections
  /\ due \subseteq Connections
  /\ order \in [Connections -> Connections]
  /\ drops \in 0 .. MaxDrops
  /\ loop \in [phase : {"rest", "close", "sweep", "assign", "stopped"}, at : Nat]

Invoked(m) == \E i \in DOMAIN inbox : inbox[i] = Event("invoke", m)
Queued(m) == \E i \in DOMAIN targets : targets[i] = m
Served(m) == \E c \in Connections : target[c] = m
Held == {m \in Message : Queued(m) \/ Served(m)}

\* A message is in one place: on its way, in the list, with one connection, or
\* completed, and completed once.  However requests are retried, redirected,
\* dropped and cancelled in the middle of Iterate, none is answered twice, none
\* is lost before the service stops (KprHTTPClientAddTarget, Iterate,
\* CompleteCallback).
Custody ==
  /\ \A i, j \in DOMAIN targets : targets[i] = targets[j] => i = j
  /\ \A c, d \in Connections : target[c] # None /\ target[c] = target[d] => c = d
  /\ \A m \in Message :
       /\ posts[m] <= 1
       /\ Invoked(m) => ~Queued(m) /\ ~Served(m) /\ posts[m] = 0
       /\ Queued(m) => ~Served(m) /\ posts[m] = 0
       /\ Served(m) => posts[m] = 0
       /\ m \in asked /\ ~Stopped => Invoked(m) \/ Queued(m) \/ Served(m) \/ posts[m] = 1

\* What KprMessage relies on: the client holds each message it was asked for
\* and completes it once.
Service == INSTANCE KprService WITH held <- Held, stopped <- Stopped
ImplementsService == Service!Spec

HeldBack(m) == \E c \in Connections : FirstCandidate(c, m) /\ ~Available(c)
(* A connection for m is busy with a message of the same owner that the     *)
(* shell thread has cancelled: its cancel callback will call Iterate.       *)
Cut(m) ==
  \E c \in Connections : /\ Cancelled(c) /\ Owner[target[c]] = Owner[m]
                         /\ client[c] = url[m] /\ priority[c] = Rank(m)
Begins(m) == \E c \in Connections : target[c] # m /\ target'[c] = m
SameQueue(m, n) ==
  url[m] = url[n] /\ Rank(m) = Rank(n) /\ RequestTarget(m) = RequestTarget(n)

InTurn ==
  \A i, j \in DOMAIN targets :
    i < j /\ {targets[i], targets[j]} \subseteq waiting /\ Begins(targets[j])
    => \/ HeldBack(targets[i]) \/ Cut(targets[i])
       \/ Rank(targets[i]) = Rank(targets[j]) /\ ~SameQueue(targets[i], targets[j])

\* "do not let a lower priority request get in ahead of a higher priority one"
\* (Iterate), and requests that share their server, priority and owner are made
\* in the order of the list: a request overtakes another only when that one
\* waits for a busy connection of its own (busy with a message that may have
\* been cancelled in the middle of Iterate), or by using a connection that an
\* equal one could not use.
NoOvertaking == [][InTurn]_vars

\* When the services thread has nothing left to do, no target is left in the
\* list that a connection could take: whatever ends makes room known.
NothingForgotten ==
  Resting /\ inbox = <<>> /\ due = {}
  => \A m \in Message : Queued(m) =>
       HeldBack(m) \/ (NoCandidate(m) /\ \A c \in Connections : ~Available(c))

\* A message that was cancelled is completed by the services thread alone,
\* whatever the network does.
CancelReturns ==
  \A m \in Message : (m \in asked /\ m \notin waiting) ~> (posts[m] = 1 \/ Stopped)

\* Every message is completed if the servers answer.
Serves ==
  NetworkFairness => \A m \in Message : m \in asked ~> (posts[m] = 1 \/ Stopped)

=============================================================================
