------------------------------- MODULE KprCoAP -------------------------------
(***************************************************************************)
(* The CoAP extension of KPR: one client and one server that exchange       *)
(* messages over UDP.  A datagram may be lost, delayed up to MaxLatency,    *)
(* duplicated and reordered; confirmable messages wait in the resend queue  *)
(* of an endpoint until they are acknowledged or MaxRetransmit resends have *)
(* been made; the server remembers its sessions for the exchange lifetime   *)
(* so that it can tell a retransmission from a new request.                 *)
(*                                                                          *)
(* Time is a number of ticks left to each timer.  A timer fires when it is  *)
(* due: time does not pass while one is.                                    *)
(***************************************************************************)
EXTENDS Integers, Sequences, FiniteSets

CONSTANTS
  Requests,       \* the requests the client's script sends, numbered; a script
                  \* that sets tokens takes the number
  Confirmable,    \* the ones with request.confirmable = true
  Observe,        \* the ones with request.observe = true
  TokenMode,      \* "own": the script sets tokens, "auto": autoToken, "none"
  Replies,        \* what resource callbacks do: "now", "later", "fail"
  AutoAcks,       \* the values session.autoAck may be given, within BOOLEAN
  MaxNotify,      \* the number of responses a script sends in one session
  IdModulus,      \* 2^16, the width of a message id
  FirstId,        \* the message id FskRandom gave both ends
  AckTimeout,     \* kKprCoAP_ACK_TIMEOUT
  MaxTimeout,     \* kKprCoAP_ACK_TIMEOUT * kKprCoAP_ACK_RANDOM_FACTOR
  MaxRetransmit,  \* kKprCoAP_MAX_RETRANSMIT
  MaxLatency,     \* kKprCoAP_MAX_LATENCY
  Pow2,           \* powf(2, n)
  MaxDups,        \* the number of datagrams the network duplicates
  Resets,         \* may a foreign peer answer with a reset?
  SendFails,      \* the ends whose FskNetSocketSendUDP may return an error
  ResolveFails    \* may the name of the server fail to resolve?

ASSUME RequestsAssumption ==
  /\ Requests \subseteq Nat
  /\ Confirmable \subseteq Requests
  /\ Observe \subseteq Requests
  /\ TokenMode \in {"own", "auto", "none"}
  /\ Replies \subseteq {"now", "later", "fail"}
  /\ AutoAcks \subseteq BOOLEAN
  /\ Resets \in BOOLEAN
  /\ SendFails \subseteq {"client", "server"}
  /\ ResolveFails \in BOOLEAN

ASSUME IdAssumption ==
  /\ IdModulus \in Nat /\ IdModulus > 1
  /\ FirstId \in 0 .. IdModulus - 1

ASSUME TimeAssumption ==
  /\ AckTimeout \in Nat /\ AckTimeout > 0
  /\ MaxTimeout \in Nat /\ MaxTimeout > AckTimeout
  /\ MaxRetransmit \in Nat /\ MaxRetransmit > 0
  /\ MaxLatency \in Nat
  /\ MaxNotify \in Nat
  /\ MaxDups \in Nat

\* The powers of two the retransmission needs.
ASSUME Pow2Assumption ==
  /\ Pow2 \in [0 .. MaxRetransmit -> Nat]
  /\ Pow2[0] = 1
  /\ \A n \in 0 .. MaxRetransmit - 1 : Pow2[n + 1] = 2 * Pow2[n]
  /\ \A n \in 0 .. MaxRetransmit : Pow2[n] <= Pow2[MaxRetransmit]

VARIABLES
  resolver,   \* the client's resolver: "none", "pending", "resolved", "failed"
  waiting,    \* resolver->waiting, the requests waiting for the address
  nextId,     \* client->messageId
  nextToken,  \* client->nextTokenId
  recycle,    \* client->recycleTokens
  mid,        \* the message id of a request, NoId before it is created
  tok,        \* the token of a request
  requests,   \* client->requests
  responded,  \* the requests with responseReceived
  observing,  \* the requests with observeAccepted
  cqueue,     \* the resend queue of the client's endpoint
  acked,      \* the requests whose onAck was called
  answers,    \* what onResponse of each request was called with
  stray,      \* what onResponse of the client was called with, without request
  failed,     \* the requests whose onFailure was called
  resetTold,  \* was onFailure called for a reset?
  dropped,    \* the requests given up with a word to client.onError only
  serverId,   \* server->messageId
  sessions,   \* server->runningSessions and server->finishedSessions
  squeue,     \* the resend queue of the server's endpoint
  checkAt,    \* ticks until the periodical check, NoTimer when not scheduled
  runs,       \* how often the resource callback ran for a request; 2 is "more"
  forgotten,  \* did the server invalidate its endpoint, or drop a session whose
              \* acknowledgement could not be sent?
  net,        \* the datagrams on their way
  dups        \* duplications the network still makes

clientVars == <<resolver, waiting, nextId, nextToken, recycle, mid, tok, requests,
                responded, observing, cqueue, acked, answers, stray, failed, resetTold,
                dropped>>
serverVars == <<serverId, sessions, squeue, checkAt, runs, forgotten>>
vars == <<clientVars, serverVars, net, dups>>

NoId == -1
NoToken == -1
NoTimer == -1

-----------------------------------------------------------------------------
(* The transmission parameters of an endpoint. *)

MaxTransmitSpan == MaxTimeout * (Pow2[MaxRetransmit] - 1)
ProcessingDelay == AckTimeout
ExchangeLifetime == MaxTransmitSpan + 2 * MaxLatency + ProcessingDelay

\* The random initial timeout, below the maximum.
InitialTimeouts == AckTimeout .. MaxTimeout - 1

-----------------------------------------------------------------------------
(* Messages.  req and n tell which response to which request a message is:  *)
(* n = 0 for a request, an empty acknowledgement and a reset.               *)

Types == {"CON", "NON", "ACK", "RST"}
Ids == 0 .. IdModulus - 1
Tokens == {NoToken} \cup Nat

Message(to, type, id, r, n, token, option) ==
  [to |-> to, type |-> type, mid |-> id, req |-> r, n |-> n,
   tok |-> token, obs |-> option]

Messages ==
  [to : {"client", "server"}, type : Types, mid : Ids, req : Requests,
   n : Nat, tok : Tokens, obs : BOOLEAN]

Empty(to, type, m) == Message(to, type, m.mid, m.req, 0, NoToken, FALSE)

Datagram(m) == [msg |-> m, ttl |-> MaxLatency]

Datagrams == [msg : Messages, ttl : 0 .. MaxLatency]

\* Both ends number their messages the same way; 0 is never an id.
GenerateMessageId(id) == IF id = 0 THEN 1 ELSE id

-----------------------------------------------------------------------------
(* The resend queue of an endpoint.  age is the time since the message was  *)
(* first sent.  An entry is old once the server has given its endpoint up   *)
(* and only a session that a script holds keeps the endpoint alive.         *)

Entry(m, t) ==
  [msg |-> m, retry |-> 0, interval |-> t, due |-> t, age |-> 0, old |-> FALSE]

Entries ==
  [msg : Messages, retry : 0 .. MaxRetransmit, interval : Nat, due : Nat, age : Nat,
   old : BOOLEAN]

\* KprCoAPEndpointSendMessage queues what must be acknowledged.
Queued(queue, m, t) ==
  IF m.type = "CON" THEN queue \cup {Entry(m, t)} ELSE queue

\* The first entry with the id leaves the queue; it is the one due first.
Dequeue(queue, id) ==
  LET found == {e \in queue : ~e.old /\ e.msg.mid = id}
  IN  IF found = {} THEN queue
      ELSE queue \ {CHOOSE e \in found : \A f \in found : e.due <= f.due}

\* KprCoAPEndpointHandleMessage: an acknowledgement or a reset ends the wait.
Settled(queue, m) ==
  IF m.type \in {"ACK", "RST"} THEN Dequeue(queue, m.mid) ELSE queue

\* Mutants: one resend too many, and two.
LastResend_one(e) == e.retry >= MaxRetransmit
LastResend_two(e) == e.retry >= MaxRetransmit + 1
\* Is the resend of the due entry e the last one?
LastResend(e) == e.retry + 1 >= MaxRetransmit
\* The queue once its due entry e has been sent again.
Resent(queue, e) ==
  IF LastResend(e) THEN queue \ {e}
  ELSE (queue \ {e}) \cup
         {[e EXCEPT !.retry = @ + 1, !.interval = 2 * @, !.due = 2 * e.interval]}

-----------------------------------------------------------------------------
(* The client. *)

RequestMessage(r) ==
  Message("server", IF r \in Confirmable THEN "CON" ELSE "NON",
          mid[r], r, 0, tok[r], r \in Observe)

\* KprCoAPClientNextAutoToken for the requests of the sequence rs, in order:
\* recycled tokens first.
AutoToken(i) ==
  IF i <= Len(recycle) THEN recycle[i] ELSE nextToken + i - Len(recycle) - 1

TakeTokens(rs) ==
  /\ tok' = [r \in Requests |->
       IF TokenMode # "auto" \/ ~ \E i \in 1 .. Len(rs) : rs[i] = r THEN tok[r]
       ELSE AutoToken(CHOOSE i \in 1 .. Len(rs) : rs[i] = r)]
  /\ IF TokenMode # "auto" THEN UNCHANGED <<nextToken, recycle>>
     ELSE IF Len(rs) <= Len(recycle)
     THEN /\ recycle' = SubSeq(recycle, Len(rs) + 1, Len(recycle))
          /\ UNCHANGED nextToken
     ELSE /\ recycle' = << >>
          /\ nextToken' = nextToken + Len(rs) - Len(recycle)

\* KprCoAPClientStartRequest for each of them, up to the send.
StartRequests(rs) == TakeTokens(rs) /\ requests' = requests \o rs

\* The messages StartRequests sends, each with an initial timeout of its own.
\* A name that did not resolve leaves the address 0: nobody is there.
Transmit(rs, reachable) ==
  LET sent == {rs[i] : i \in 1 .. Len(rs)}
  IN  /\ \E t \in [sent \cap Confirmable -> InitialTimeouts] :
           cqueue' = cqueue \cup {Entry(RequestMessage(r)', t[r]) : r \in sent \cap Confirmable}
      /\ net' = IF reachable
                THEN net \cup {Datagram(RequestMessage(r)') : r \in sent}
                ELSE net

\* client.createRequest, request.confirmable, client.send
Send(r) ==
  /\ mid[r] = NoId
  /\ mid' = [mid EXCEPT ![r] = GenerateMessageId(nextId)]
  /\ nextId' = (nextId + 1) % IdModulus
  /\ IF resolver \in {"none", "pending"}
     THEN /\ resolver' = "pending"
          /\ waiting' = Append(waiting, r)
          /\ UNCHANGED <<tok, nextToken, recycle, requests, cqueue, net>>
     ELSE /\ StartRequests(<<r>>)
          /\ Transmit(<<r>>, resolver = "resolved")
          /\ UNCHANGED <<resolver, waiting>>
  /\ UNCHANGED <<responded, observing, acked, answers, stray, failed, resetTold,
                 dropped, serverVars, dups>>

\* The send of the new request fails: it leaves client->requests again, the
\* token it was given stays with it, and client.send throws.
SendThrows(r) ==
  /\ "client" \in SendFails
  /\ mid[r] = NoId
  /\ resolver \in {"resolved", "failed"}
  /\ mid' = [mid EXCEPT ![r] = GenerateMessageId(nextId)]
  /\ nextId' = (nextId + 1) % IdModulus
  /\ TakeTokens(<<r>>)
  /\ UNCHANGED <<resolver, waiting, requests, responded, observing, cqueue, acked,
                 answers, stray, failed, resetTold, dropped, serverVars, net, dups>>

\* KprCoAPClientResolverResolved, which runs once: the list it leaves behind is
\* not read again.  An error only reaches client.onError.
Resolved ==
  /\ resolver = "pending"
  /\ resolver' = "resolved"
  /\ UNCHANGED mid
  /\ StartRequests(waiting)
  /\ Transmit(waiting, TRUE)
  /\ waiting' = << >>
  /\ UNCHANGED <<nextId, responded, observing, acked, answers, stray, failed,
                 resetTold, dropped, serverVars, dups>>

\* The send of the k-th waiting request fails: the loop ends there.
ResolvedFails(k) ==
  /\ "client" \in SendFails
  /\ resolver = "pending"
  /\ resolver' = "resolved"
  /\ UNCHANGED mid
  /\ TakeTokens(SubSeq(waiting, 1, k))
  /\ requests' = requests \o SubSeq(waiting, 1, k - 1)
  /\ Transmit(SubSeq(waiting, 1, k - 1), TRUE)
  /\ dropped' = dropped \cup {waiting[i] : i \in k .. Len(waiting)}
  /\ waiting' = << >>
  /\ UNCHANGED <<nextId, responded, observing, acked, answers, stray, failed,
                 resetTold, serverVars, dups>>

ResolveError ==
  /\ ResolveFails
  /\ resolver = "pending"
  /\ resolver' = "failed"
  /\ dropped' = dropped \cup {waiting[i] : i \in 1 .. Len(waiting)}
  /\ UNCHANGED <<waiting, nextId, nextToken, recycle, mid, tok, requests, responded,
                 observing, cqueue, acked, answers, stray, failed, resetTold,
                 serverVars, net, dups>>

\* Mutant: any acknowledgement is for any request.
MatchResponse_anyAck(r, m) ==
  IF m.type \in {"ACK", "RST"} THEN TRUE ELSE m.tok # NoToken /\ m.tok = tok[r]
\* KprCoAPClientRequestMatchResponse
MatchResponse(r, m) ==
  IF m.type \in {"ACK", "RST"} THEN m.mid = mid[r]
  ELSE m.tok # NoToken /\ m.tok = tok[r]

\* The positions in client->requests of the requests a message is for.
Matching(m) == {i \in 1 .. Len(requests) : MatchResponse(requests[i], m)}

\* KPrCoAPClientRequestExpectsMoreResponse
ExpectsMoreResponse(r, answered, accepted) ==
  /\ r \in Confirmable \/ tok[r] # NoToken
  /\ r \notin answered \/ r \in accepted

\* KprCoAPClientEndRequest, the request at position i
EndRequest(i) ==
  /\ requests' = SubSeq(requests, 1, i - 1) \o SubSeq(requests, i + 1, Len(requests))
  /\ recycle' = IF tok[requests[i]] = NoToken THEN recycle
                ELSE Append(recycle, tok[requests[i]])

\* What may be in the network once the client has seen a message: a confirmable
\* response is acknowledged, unless the send fails, of which only client.onError
\* is told.
ClientAcks(m, rest) ==
  IF m.n > 0 /\ m.type = "CON"
  THEN {rest \cup {Datagram(Empty("server", "ACK", m))}}
         \cup (IF "client" \in SendFails THEN {rest} ELSE {})
  ELSE {rest}

\* KprCoAPClientDispatchResponse of a message for the request at position i;
\* rest is what stays in the network.  A reset reaches onFailure as a message of
\* its own and sets nothing.
ClientReceive(m, rest, i) ==
  LET r == requests[i]
      handled == m.type # "RST"
      content == m.n > 0
      answered == IF handled /\ (m.type # "ACK" \/ content)
                  THEN responded \cup {r} ELSE responded
      accepted == IF handled /\ r \in Observe /\ m.obs
                  THEN observing \cup {r} ELSE observing
  IN  /\ cqueue' = Settled(cqueue, m)
      /\ resetTold' = (resetTold \/ ~handled)
      /\ responded' = answered
      /\ observing' = accepted
      /\ acked' = IF m.type = "ACK" THEN acked \cup {r} ELSE acked
      /\ answers' = IF content THEN [answers EXCEPT ![r] = @ \cup {<<m.req, m.n>>}]
                    ELSE answers
      /\ net' \in ClientAcks(m, rest)
      /\ IF ExpectsMoreResponse(r, answered, accepted)
         THEN UNCHANGED <<requests, recycle>>
         ELSE EndRequest(i)
      /\ UNCHANGED <<resolver, waiting, nextId, nextToken, mid, tok, stray, failed,
                     dropped, serverVars>>

\* The same, of a message for no request: the endpoint still looks at it, and
\* the client's onResponse is called without a request.
ClientReceiveStray(m, rest) ==
  /\ cqueue' = Settled(cqueue, m)
  /\ resetTold' = (resetTold \/ m.type = "RST")
  /\ stray' = IF m.n > 0 THEN stray \cup {<<m.req, m.n>>} ELSE stray
  /\ net' \in ClientAcks(m, rest)
  /\ UNCHANGED <<resolver, waiting, nextId, nextToken, recycle, mid, tok, requests,
                 responded, observing, acked, answers, failed, dropped, serverVars>>

\* Mutant: the last resend is not followed by a report.
ClientResend_quiet(e) ==
  /\ e.due = 0
  /\ cqueue' = Resent(cqueue, e)
  /\ net' = IF resolver = "resolved" THEN net \cup {Datagram(e.msg)} ELSE net
  /\ UNCHANGED <<resolver, waiting, nextId, nextToken, recycle, mid, tok, requests,
                 responded, observing, acked, answers, stray, failed, resetTold,
                 dropped, serverVars, dups>>
\* KprCoAPEndpointMessageQueueResend of the client's endpoint: the last resend
\* is at once followed by the report of the failure.
ClientResend(e) ==
  /\ e.due = 0
  /\ cqueue' = Resent(cqueue, e)
  /\ net' = IF resolver = "resolved" THEN net \cup {Datagram(e.msg)} ELSE net
  /\ IF LastResend(e)
     THEN /\ failed' = failed \cup {e.msg.req}
          /\ IF \E i \in 1 .. Len(requests) : requests[i] = e.msg.req
             THEN EndRequest(CHOOSE i \in 1 .. Len(requests) : requests[i] = e.msg.req)
             ELSE UNCHANGED <<requests, recycle>>
     ELSE UNCHANGED <<failed, requests, recycle>>
  /\ UNCHANGED <<resolver, waiting, nextId, nextToken, mid, tok, responded, observing,
                 acked, answers, stray, resetTold, dropped, serverVars, dups>>

\* The resend fails: the entry goes and client.onError is told; the request is
\* never ended.
ClientResendFails(e) ==
  /\ "client" \in SendFails
  /\ e.due = 0
  /\ cqueue' = cqueue \ {e}
  /\ dropped' = dropped \cup {e.msg.req}
  /\ UNCHANGED <<resolver, waiting, nextId, nextToken, recycle, mid, tok, requests,
                 responded, observing, acked, answers, stray, failed, resetTold,
                 serverVars, net, dups>>

-----------------------------------------------------------------------------
(* The server.  A session is found again by the message id of its request;  *)
(* list tells which of the server's two lists holds it.                     *)

Session(m) ==
  [mid |-> m.mid, req |-> m.req, con |-> m.type = "CON", tok |-> m.tok,
   obsReq |-> m.obs, obs |-> FALSE, emptyAck |-> FALSE, responded |-> FALSE,
   last |-> {}, n |-> 0, life |-> ExchangeLifetime, list |-> "running"]

Sessions ==
  [mid : Ids, req : Requests, con : BOOLEAN, tok : Tokens,
   obsReq : BOOLEAN, obs : BOOLEAN, emptyAck : BOOLEAN, responded : BOOLEAN,
   last : SUBSET Messages, n : Nat, life : Nat, list : {"running", "finished"}]

\* KprCoAPServerResetPeriodicalCheck: the earliest expiry of the sessions
\* that are not observed.
NextCheck(S) ==
  LET lives == {s.life : s \in {x \in S : ~x.obs}}
  IN  IF lives = {} THEN {NoTimer} ELSE {t \in lives : \A u \in lives : t <= u}

\* Mutant: a session that has answered is forgotten.
Finished_forgot(s) == {}
\* KprCoAPServerFinishSession: only confirmable sessions are remembered.
Finished(s) ==
  IF s.con THEN {[s EXCEPT !.list = "finished", !.obs = FALSE,
                           !.obsReq = IF s.obs THEN FALSE ELSE @]}
  ELSE {}

\* KprCoAPServerSessionSendResponse: the response piggybacks on the
\* acknowledgement when none was sent, and has an id of its own otherwise.
Piggybacks(s) == s.con /\ ~s.emptyAck /\ ~s.responded
Response(s) ==
  Message("client",
          IF Piggybacks(s) THEN "ACK" ELSE IF s.con THEN "CON" ELSE "NON",
          IF Piggybacks(s) THEN s.mid ELSE GenerateMessageId(serverId),
          s.req, s.n + 1, s.tok, s.obs)

\* Session s, which is not among others, sends its next response.
SendResponse(s, others, rest) ==
  LET m == Response(s)
      after == [s EXCEPT !.responded = TRUE, !.last = {m}, !.n = @ + 1]
  IN  /\ net' = rest \cup {Datagram(m)}
      /\ \E t \in InitialTimeouts : squeue' = Queued(squeue, m, t)
      /\ serverId' = IF Piggybacks(s) THEN serverId ELSE (serverId + 1) % IdModulus
      /\ sessions' = others \cup IF after.obs THEN {after} ELSE Finished(after)
      /\ checkAt' \in NextCheck(sessions')

\* KprCoAPServerSessionRun of a new session: the callback of the resource
\* accepts an observation or not, and answers, fails or leaves the answer for
\* later, in which case the request is acknowledged.  An answer that cannot be
\* sent is one left for later (the message id it may have taken is skipped
\* here: only that ids differ matters); where the acknowledgement cannot be
\* sent either, the session is not remembered.
Run(s, rest) ==
  /\ runs' = [runs EXCEPT ![s.req] = IF @ = 0 THEN 1 ELSE 2]
  /\ \/ /\ "now" \in Replies
        /\ \E accept \in {FALSE, s.obsReq} :
             SendResponse([s EXCEPT !.obs = accept], sessions, rest)
        /\ UNCHANGED forgotten
     \/ /\ "fail" \in Replies
        /\ SendResponse(s, sessions, rest)
        /\ UNCHANGED forgotten
     \/ /\ "later" \in Replies \/ "server" \in SendFails
        /\ \E accept \in {FALSE, s.obsReq}, autoAck \in AutoAcks :
             LET acks == s.con /\ autoAck
                 after == [s EXCEPT !.obs = accept, !.emptyAck = acks]
             IN  /\ sessions' = sessions \cup {after}
                 /\ net' = IF acks
                           THEN rest \cup {Datagram(Message("client", "ACK", s.mid, s.req,
                                                            0, NoToken, FALSE))}
                           ELSE rest
        /\ checkAt' \in NextCheck(sessions')
        /\ UNCHANGED <<serverId, squeue, forgotten>>
     \/ /\ "server" \in SendFails
        /\ s.con /\ TRUE \in AutoAcks
        /\ net' = rest
        /\ forgotten' = TRUE
        /\ UNCHANGED <<serverId, sessions, squeue, checkAt>>

\* KprCoAPServerSessionSendAck refuses a second acknowledgement.
CanAck(s) == ~s.responded /\ ~s.emptyAck /\ s.con
EmptyAck(s) == Message("client", "ACK", s.mid, s.req, 0, NoToken, FALSE)

\* Mutant: a request that was received before is ignored.
RunAgain_silent(s, rest) ==
  /\ net' = rest
  /\ UNCHANGED <<serverId, sessions, squeue, checkAt, runs, forgotten>>
\* KprCoAPServerSessionRunAgain, for a request that was received before: where
\* the acknowledgement is refused, or cannot be sent, nothing else is sent.
RunAgain(s, rest) ==
  /\ \/ /\ s.last # {} /\ ~(s.con /\ s.emptyAck)
        /\ LET m == CHOOSE x \in s.last : TRUE
           IN  /\ net' = rest \cup {Datagram(m)}
               /\ \E t \in InitialTimeouts : squeue' = Queued(squeue, m, t)
        /\ UNCHANGED sessions
     \/ /\ s.last = {} /\ CanAck(s)
        /\ net' = rest \cup {Datagram(EmptyAck(s))}
        /\ sessions' = (sessions \ {s}) \cup {[s EXCEPT !.emptyAck = TRUE]}
        /\ UNCHANGED squeue
     \/ /\ \/ "server" \in SendFails
           \/ s.last # {} /\ s.con /\ s.emptyAck
           \/ s.last = {} /\ ~CanAck(s)
        /\ net' = rest
        /\ UNCHANGED <<sessions, squeue>>
  /\ UNCHANGED <<serverId, checkAt, runs, forgotten>>

\* What is left of the resend queue of an endpoint the server releases: nothing,
\* or all of it while a script holds a session of the endpoint.
Orphaned(queue) ==
  {{e \in queue : e.old}, {[e EXCEPT !.old = TRUE] : e \in queue}}

\* KprCoAPServerInterfaceInvalidateEndpoint: every session and the endpoint go.
Invalidate(queue) ==
  /\ sessions' = {}
  /\ squeue' \in Orphaned(queue)
  /\ forgotten' = TRUE

\* KprCoAPServer_receiveCallback
ServerReceive(m, rest) ==
  /\ \/ /\ m.type = "ACK"
        /\ squeue' = Settled(squeue, m)
        /\ net' = rest
        /\ UNCHANGED <<serverId, sessions, checkAt, runs, forgotten>>
     \/ /\ m.type = "RST"
        /\ Invalidate(Settled(squeue, m))
        /\ net' = rest
        /\ UNCHANGED <<serverId, checkAt, runs>>
     \/ /\ m.type \in {"CON", "NON"}
        /\ IF \E s \in sessions : s.mid = m.mid
           THEN RunAgain(CHOOSE s \in sessions : s.mid = m.mid, rest)
           ELSE Run(Session(m), rest)
  /\ UNCHANGED clientVars

\* The script answers later, or notifies an observer: session.send
SessionSend(s) ==
  /\ s.list = "running"
  /\ ~s.responded \/ s.obs
  /\ s.n < MaxNotify
  /\ SendResponse(s, sessions \ {s}, net)
  /\ UNCHANGED <<clientVars, runs, forgotten, dups>>

\* session.sendAck, for a script that turned autoAck off
SessionSendAck(s) ==
  /\ s.list = "running"
  /\ CanAck(s)
  /\ net' = net \cup {Datagram(EmptyAck(s))}
  /\ sessions' = (sessions \ {s}) \cup {[s EXCEPT !.emptyAck = TRUE]}
  /\ UNCHANGED <<clientVars, serverId, squeue, checkAt, runs, forgotten, dups>>

\* session.endObserve
SessionEndObserve(s) ==
  /\ s.obs
  /\ sessions' = (sessions \ {s}) \cup {[s EXCEPT !.obs = FALSE, !.obsReq = FALSE]}
  /\ UNCHANGED <<clientVars, serverId, squeue, checkAt, runs, forgotten, net, dups>>

\* KprCoAPEndpointMessageQueueResend of the server's endpoint: the failure to
\* deliver invalidates the endpoint, which one given up before has no session of.
ServerResend(e) ==
  /\ e.due = 0
  /\ net' = net \cup {Datagram(e.msg)}
  /\ IF LastResend(e) /\ ~e.old THEN Invalidate(squeue \ {e})
     ELSE /\ squeue' = Resent(squeue, e)
          /\ UNCHANGED <<sessions, forgotten>>
  /\ UNCHANGED <<clientVars, serverId, checkAt, runs, dups>>

\* The resend fails: the entry goes and server.onError is told.
ServerResendFails(e) ==
  /\ "server" \in SendFails
  /\ e.due = 0
  /\ squeue' = squeue \ {e}
  /\ UNCHANGED <<clientVars, serverId, sessions, checkAt, runs, forgotten, net, dups>>

\* KPR_CoAP_session_destructor: the last session of an endpoint given up before
\* is collected.
SessionDestructor ==
  /\ \E e \in squeue : e.old
  /\ squeue' = {e \in squeue : ~e.old}
  /\ UNCHANGED <<clientVars, serverId, sessions, checkAt, runs, forgotten, net, dups>>

\* KprCoAPServerPeriodicalCheck: an endpoint without session goes.
PeriodicalCheck ==
  /\ checkAt = 0
  /\ sessions' = {s \in sessions : s.obs \/ s.life > 0}
  /\ IF sessions' = {} THEN squeue' \in Orphaned(squeue) ELSE UNCHANGED squeue
  /\ checkAt' \in NextCheck(sessions')
  /\ UNCHANGED <<clientVars, serverId, runs, forgotten, net, dups>>

-----------------------------------------------------------------------------
(* The network and the clock. *)

\* A datagram arrives, and may arrive again.
Deliver(d) ==
  \E rest \in {net \ {d}} \cup (IF dups > 0 THEN {net} ELSE {}) :
    /\ dups' = IF d \in rest THEN dups - 1 ELSE dups
    /\ \/ /\ d.msg.to = "client"
          /\ \E i \in Matching(d.msg) : /\ \A j \in Matching(d.msg) : i <= j
                                        /\ ClientReceive(d.msg, rest, i)
       \/ /\ d.msg.to = "client"
          /\ Matching(d.msg) = {}
          /\ ClientReceiveStray(d.msg, rest)
       \/ /\ d.msg.to = "server"
          /\ ServerReceive(d.msg, rest)

\* A peer that knows nothing of the exchange, for it has restarted, resets it.
PeerReset(d) ==
  /\ Resets
  /\ d.msg.type = "CON"
  /\ net' = (net \ {d}) \cup
       {Datagram(Empty(IF d.msg.to = "client" THEN "server" ELSE "client", "RST", d.msg))}
  /\ UNCHANGED <<clientVars, serverVars, dups>>

Elapse(queue) == {[e EXCEPT !.due = @ - 1, !.age = @ + 1] : e \in queue}

Tick ==
  /\ \A e \in cqueue \cup squeue : e.due > 0
  /\ checkAt # 0
  /\ cqueue' = Elapse(cqueue)
  /\ squeue' = Elapse(squeue)
  /\ sessions' = {[s EXCEPT !.life = IF @ = 0 THEN 0 ELSE @ - 1] : s \in sessions}
  /\ checkAt' = IF checkAt = NoTimer THEN NoTimer ELSE checkAt - 1
  /\ net' = {[d EXCEPT !.ttl = @ - 1] : d \in {x \in net : x.ttl > 0}}
  /\ UNCHANGED <<resolver, waiting, nextId, nextToken, recycle, mid, tok, requests,
                 responded, observing, acked, answers, stray, failed, resetTold,
                 dropped, serverId, runs, forgotten, dups>>

-----------------------------------------------------------------------------

Init ==
  /\ resolver = "none" /\ waiting = << >>
  /\ nextId = FirstId /\ nextToken = 0 /\ recycle = << >>
  /\ mid = [r \in Requests |-> NoId]
  /\ tok = [r \in Requests |-> IF TokenMode = "own" THEN r ELSE NoToken]
  /\ requests = << >> /\ responded = {} /\ observing = {} /\ cqueue = {}
  /\ acked = {} /\ answers = [r \in Requests |-> {}] /\ stray = {}
  /\ failed = {} /\ resetTold = FALSE /\ dropped = {}
  /\ serverId = FirstId /\ sessions = {} /\ squeue = {} /\ checkAt = NoTimer
  /\ runs = [r \in Requests |-> 0] /\ forgotten = FALSE
  /\ net = {} /\ dups = MaxDups

Next ==
  \/ \E r \in Requests : Send(r) \/ SendThrows(r)
  \/ Resolved
  \/ \E k \in 1 .. Len(waiting) : ResolvedFails(k)
  \/ ResolveError
  \/ \E d \in net : Deliver(d) \/ PeerReset(d)
  \/ \E e \in cqueue : ClientResend(e) \/ ClientResendFails(e)
  \/ \E e \in squeue : ServerResend(e) \/ ServerResendFails(e)
  \/ SessionDestructor
  \/ \E s \in sessions : SessionSend(s) \/ SessionSendAck(s) \/ SessionEndObserve(s)
  \/ PeriodicalCheck
  \/ Tick

Spec == Init /\ [][Next]_vars

\* Timers fire, time passes and the resolver answers; the network and the
\* scripts owe nothing.
Fairness ==
  /\ WF_vars(\E e \in cqueue : ClientResend(e) \/ ClientResendFails(e))
  /\ WF_vars(\E e \in squeue : ServerResend(e) \/ ServerResendFails(e))
  /\ WF_vars(PeriodicalCheck)
  /\ WF_vars(Tick)
  /\ WF_vars(Resolved \/ ResolveError)

FairSpec == Spec /\ Fairness

-----------------------------------------------------------------------------
(* Properties. *)

\* Every variable has its type (KprCoAPClientRecord, KprCoAPServerRecord).
TypeOK ==
  /\ resolver \in {"none", "pending", "resolved", "failed"}
  /\ waiting \in Seq(Requests)
  /\ nextId \in Ids /\ nextToken \in Nat
  /\ recycle \in Seq(Nat)
  /\ mid \in [Requests -> NoId .. IdModulus - 1]
  /\ tok \in [Requests -> Tokens]
  /\ requests \in Seq(Requests)
  /\ responded \subseteq Requests /\ observing \subseteq Requests
  /\ cqueue \subseteq Entries
  /\ acked \subseteq Requests /\ failed \subseteq Requests /\ dropped \subseteq Requests
  /\ answers \in [Requests -> SUBSET (Requests \X Nat)]
  /\ stray \subseteq Requests \X Nat
  /\ resetTold \in BOOLEAN
  /\ serverId \in Ids
  /\ sessions \subseteq Sessions
  /\ squeue \subseteq Entries
  /\ checkAt \in Nat \cup {NoTimer}
  /\ runs \in [Requests -> 0 .. 2]
  /\ forgotten \in BOOLEAN
  /\ net \subseteq Datagrams
  /\ dups \in 0 .. MaxDups

\* However often a confirmable request is retransmitted, duplicated or delayed,
\* the server runs its resource callback once: the session is remembered for as
\* long as a copy of the request may arrive (KprCoAPServerFindSession, the
\* exchange lifetime).  The server that invalidated its endpoint is excepted, and
\* so is the one that could send neither the answer nor the acknowledgement.
RunOnce ==
  ~forgotten => \A r \in Confirmable : runs[r] <= 1

\* A confirmable message is sent for the last time within the transmit span the
\* exchange lifetime is computed from (KprCoAPEndpointMessageQueueResend and
\* KprCoAPEndpointGetMaxTransmitSpan agree).
WithinSpan ==
  \A e \in cqueue \cup squeue : e.age <= MaxTransmitSpan

\* The answer a request's onResponse is given was made for that request.
OwnAnswer ==
  \A r \in Requests : \A a \in answers[r] : a[1] = r

\* onAck is called for a request the server has run.
AckMeansRun ==
  \A r \in acked : runs[r] > 0

\* Whenever a confirmable message reaches the server an acknowledgement leaves.
\* A request is received by a step that consumes or duplicates a copy of it.
AckOf(d) == {x \in net' : x.msg.to = "client" /\ x.msg.type = "ACK"
                           /\ x.msg.mid = d.msg.mid /\ x.ttl = MaxLatency}
Acknowledges ==
  [][\A d \in net : d.msg.to = "server" /\ d.msg.type = "CON" /\ Deliver(d)
       => AckOf(d) # {}]_vars

\* Every confirmable request that waits for the address or for its resend is
\* acknowledged, answered, reset or reported as failed, whatever the network
\* loses; where a send failed, client.onError has at least been told
\* (KprCoAPEndpointMessageQueueResend, KprCoAPClientResolverResolved).
Pending(r) ==
  \/ \E i \in 1 .. Len(waiting) : waiting[i] = r
  \/ \E e \in cqueue : e.msg.req = r
Settles ==
  \A r \in Confirmable :
    Pending(r) ~> \/ r \in acked \/ answers[r] # {} \/ r \in failed \/ resetTold
                  \/ r \in dropped

=============================================================================
