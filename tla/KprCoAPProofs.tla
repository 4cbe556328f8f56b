---------------------------- MODULE KprCoAPProofs ----------------------------
(* Theorems about the CoAP extension: the resend queue keeps within the       *)
(* transmit span, the server runs a confirmable request once and acknowledges *)
(* every copy of it, and acknowledgements and answers are told to the request *)
(* they are for.                                                              *)
EXTENDS KprCoAP, FiniteSetTheorems, TLAPS

-----------------------------------------------------------------------------
(* The inductive invariant. *)

\* An entry was queued with some timeout t, which has doubled with every resend.
Paced(e, t) ==
  /\ e.retry < MaxRetransmit
  /\ e.interval = t * Pow2[e.retry]
  /\ e.age + e.due = 2 * e.interval - t

PacedQueue(queue) ==
  \A e \in queue : \E t \in InitialTimeouts : Paced(e, t)

\* The client only queues the requests it made confirmable, under their ids.
OwnQueue ==
  \A e \in cqueue : /\ e.msg.req \in Confirmable
                    /\ e.msg.to = "server"
                    /\ e.msg.type = "CON"
                    /\ e.msg.mid = mid[e.msg.req]

\* A datagram with a request for the server.
Copy(d) == d.msg.to = "server" /\ d.msg.type \in {"CON", "NON"}

OwnNet ==
  \A d \in net : Copy(d) => /\ d.msg.mid = mid[d.msg.req]
                             /\ (d.msg.type = "CON" <=> d.msg.req \in Confirmable)

OwnSessions ==
  \A s \in sessions : /\ s.mid = mid[s.req]
                      /\ (s.con <=> s.req \in Confirmable)

\* A session of a confirmable request outlives the copies of the request that
\* are on their way, and the ones the client may still send.
Outlives ==
  \A s \in sessions : s.con =>
    /\ \A d \in net : Copy(d) /\ d.msg.req = s.req => d.ttl < s.life
    /\ \A e \in cqueue : e.msg.req = s.req => s.life + e.age >= ExchangeLifetime

\* A request that has no address yet is unknown to the server.
Unstarted(r) == mid[r] = NoId \/ \E i \in 1 .. Len(waiting) : waiting[i] = r

FreshUnstarted ==
  \A r \in Requests : Unstarted(r) =>
    /\ runs[r] = 0
    /\ \A d \in net : Copy(d) => d.msg.req # r
    /\ \A s \in sessions : s.req # r
    /\ \A e \in cqueue : e.msg.req # r

\* The server that ran a request remembers it, or no copy can come any more.
Remembered ==
  ~forgotten => \A r \in Confirmable : runs[r] > 0 =>
    \/ \E s \in sessions : s.req = r
    \/ /\ \A d \in net : Copy(d) => d.msg.req # r
       /\ \A e \in cqueue : e.msg.req # r

\* A request that waits for the address has its id.
WaitingNumbered ==
  \A i \in 1 .. Len(waiting) : mid[waiting[i]] # NoId

Known ==
  /\ OwnQueue /\ OwnNet /\ OwnSessions
  /\ Outlives /\ FreshUnstarted /\ Remembered /\ RunOnce

-----------------------------------------------------------------------------
(* The transmission parameters. *)

\* The product of naturals is monotone.
LEMMA Product ==
  ASSUME NEW a \in Nat, NEW b \in Nat, NEW c \in Nat, NEW d \in Nat, a <= b, c <= d
  PROVE  a * c <= b * d
<1>1. a * c <= b * c
  <2>1. PICK k \in Nat : b = a + k
    <3>. WITNESS b - a \in Nat
    <3>. QED OBVIOUS
  <2>2. b * c = a * c + k * c
    BY <2>1
  <2>3. k * c \in Nat
    OBVIOUS
  <2>. QED BY <2>2, <2>3
<1>2. b * c <= b * d
  <2>1. PICK k \in Nat : d = c + k
    <3>. WITNESS d - c \in Nat
    <3>. QED OBVIOUS
  <2>2. b * d = b * c + b * k
    BY <2>1
  <2>3. b * k \in Nat
    OBVIOUS
  <2>. QED BY <2>2, <2>3
<1>. QED BY <1>1, <1>2

LEMMA SpanType ==
  /\ MaxTransmitSpan \in Nat
  /\ ExchangeLifetime \in Nat
  /\ ExchangeLifetime > MaxTransmitSpan + MaxLatency
<1>1. Pow2[MaxRetransmit] \in Nat /\ Pow2[MaxRetransmit] >= 1
  <2>1. Pow2[0] <= Pow2[MaxRetransmit]
    BY TimeAssumption, Pow2Assumption
  <2>. QED BY <2>1, TimeAssumption, Pow2Assumption
<1>2. Pow2[MaxRetransmit] - 1 \in Nat
  BY <1>1
<1>3. MaxTransmitSpan \in Nat
  BY <1>2, TimeAssumption DEF MaxTransmitSpan
<1>. QED BY <1>3, TimeAssumption DEF ExchangeLifetime, ProcessingDelay

\* An entry leaves the queue before its age exceeds the transmit span.
LEMMA PacedSpan ==
  ASSUME NEW e \in Entries, NEW t \in InitialTimeouts, Paced(e, t)
  PROVE  e.age <= MaxTransmitSpan
<1>. DEFINE P == Pow2[e.retry]
            Q == Pow2[MaxRetransmit]
<1>1. e.retry \in Nat /\ e.retry + 1 \in 0 .. MaxRetransmit /\ e.retry \in 0 .. MaxRetransmit - 1
  BY TimeAssumption DEF Entries, Paced
<1>2. P \in Nat /\ Q \in Nat /\ 2 * P <= Q /\ P >= 0
  <2>1. Pow2[e.retry + 1] = 2 * P /\ Pow2[e.retry + 1] <= Q
    BY <1>1, Pow2Assumption
  <2>. QED BY <2>1, <1>1, TimeAssumption, Pow2Assumption
<1>3. t \in Nat /\ t <= MaxTimeout /\ MaxTimeout \in Nat
  BY TimeAssumption DEF InitialTimeouts
<1>4. e.age \in Nat /\ e.due \in Nat /\ e.age <= 2 * (t * P) - t
  BY <1>2, <1>3 DEF Entries, Paced
<1>5. CASE P = 0
  BY <1>5, <1>4, <1>3, SpanType
<1>6. CASE P > 0
  <2>1. 2 * P - 1 \in Nat /\ Q - 1 \in Nat /\ 2 * P - 1 <= Q - 1
    BY <1>2, <1>6
  <2>2. t * (2 * P - 1) <= MaxTimeout * (Q - 1)
    BY <2>1, <1>3, Product
  <2>3. t * (2 * P - 1) = 2 * (t * P) - t
    BY <1>2, <1>3
  <2>. HIDE DEF P, Q
  <2>4. t * P \in Nat /\ MaxTimeout * (Q - 1) \in Int
    BY <1>2, <1>3, <2>1
  <2>. QED BY <2>2, <2>3, <2>4, <1>4, <1>3 DEF MaxTransmitSpan, Q
<1>. QED BY <1>2, <1>5, <1>6

-----------------------------------------------------------------------------
(* The resend queue. *)

LEMMA EntryPaced ==
  ASSUME NEW m \in Messages, NEW t \in InitialTimeouts
  PROVE  Entry(m, t) \in Entries /\ Paced(Entry(m, t), t)
<1>1. t \in Nat
  BY TimeAssumption DEF InitialTimeouts
<1>2. t * Pow2[0] = t
  BY <1>1, Pow2Assumption
<1>. QED BY <1>1, <1>2, TimeAssumption DEF Entry, Entries, Paced

LEMMA QueuedPaced ==
  ASSUME NEW queue \in SUBSET Entries, PacedQueue(queue),
         NEW m \in Messages, NEW t \in InitialTimeouts
  PROVE  Queued(queue, m, t) \in SUBSET Entries /\ PacedQueue(Queued(queue, m, t))
BY EntryPaced DEF Queued, PacedQueue

LEMMA SettledSubset ==
  ASSUME NEW queue, NEW m
  PROVE  Settled(queue, m) \subseteq queue
BY DEF Settled, Dequeue

LEMMA SettledPaced ==
  ASSUME NEW queue \in SUBSET Entries, PacedQueue(queue), NEW m
  PROVE  Settled(queue, m) \in SUBSET Entries /\ PacedQueue(Settled(queue, m))
BY SettledSubset DEF PacedQueue

\* A resend keeps the message and the age of every entry, and the pace.
LEMMA ResentPaced ==
  ASSUME NEW queue \in SUBSET Entries, PacedQueue(queue), NEW e \in queue, e.due = 0
  PROVE  /\ Resent(queue, e) \in SUBSET Entries
         /\ PacedQueue(Resent(queue, e))
         /\ \A x \in Resent(queue, e) : \E y \in queue : x.msg = y.msg /\ x.age = y.age
<1>1. CASE LastResend(e)
  BY <1>1 DEF Resent, PacedQueue
<1>2. CASE ~LastResend(e)
  <2>0. PICK x : x = [e EXCEPT !.retry = @ + 1, !.interval = 2 * @, !.due = 2 * e.interval]
    OBVIOUS
  <2>1. e \in Entries
    OBVIOUS
  <2>2. e.retry + 1 < MaxRetransmit /\ e.retry \in Nat
    BY <1>2, <2>1, TimeAssumption DEF LastResend, Entries
  <2>3. /\ x \in Entries /\ x.msg = e.msg /\ x.age = e.age
        /\ x.retry = e.retry + 1 /\ x.interval = 2 * e.interval /\ x.due = 2 * e.interval
    <3>1. /\ e.msg \in Messages /\ e.retry + 1 \in 0 .. MaxRetransmit
          /\ 2 * e.interval \in Nat /\ e.age \in Nat /\ e.old \in BOOLEAN
      <4>1. e.retry + 1 \in 0 .. MaxRetransmit
        BY <2>2, TimeAssumption
      <4>2. e.msg \in Messages /\ e.interval \in Nat /\ e.age \in Nat /\ e.old \in BOOLEAN
        BY <2>1 DEF Entries
      <4>. QED BY <4>1, <4>2
    <3>2. x = [msg |-> e.msg, retry |-> e.retry + 1, interval |-> 2 * e.interval,
               due |-> 2 * e.interval, age |-> e.age, old |-> e.old]
      BY <2>0, <2>1 DEF Entries
    <3>. QED BY <3>1, <3>2 DEF Entries
  <2>4. PICK t \in InitialTimeouts : Paced(e, t)
    BY DEF PacedQueue
  <2>5. Paced(x, t)
    <3>1. t \in Nat
      BY TimeAssumption DEF InitialTimeouts
    <3>2. Pow2[e.retry] \in Nat /\ Pow2[e.retry + 1] = 2 * Pow2[e.retry]
      <4>1. e.retry \in 0 .. MaxRetransmit - 1 /\ e.retry \in 0 .. MaxRetransmit
        BY <2>2, TimeAssumption
      <4>. QED BY <4>1, Pow2Assumption
    <3>3. x.interval = t * Pow2[x.retry]
      <4>1. e.interval = t * Pow2[e.retry]
        BY <2>4 DEF Paced
      <4>2. 2 * (t * Pow2[e.retry]) = t * (2 * Pow2[e.retry])
        BY <3>1, <3>2
      <4>. QED BY <4>1, <4>2, <3>2, <2>3
    <3>4. x.age + x.due = 2 * x.interval - t
      <4>1. e.age + 0 = 2 * e.interval - t /\ e.interval \in Nat /\ e.age \in Nat
        BY <2>4, <2>1 DEF Paced, Entries
      <4>. QED BY <4>1, <3>1, <2>3
    <3>. QED BY <2>2, <2>3, <3>3, <3>4 DEF Paced
  <2>6. Resent(queue, e) = (queue \ {e}) \cup {x}
    BY <1>2, <2>0 DEF Resent
  <2>. QED BY <2>3, <2>5, <2>6 DEF PacedQueue
<1>. QED BY <1>1, <1>2

LEMMA ElapsePaced ==
  ASSUME NEW queue \in SUBSET Entries, PacedQueue(queue), \A e \in queue : e.due > 0
  PROVE  /\ Elapse(queue) \in SUBSET Entries
         /\ PacedQueue(Elapse(queue))
         /\ \A x \in Elapse(queue) : \E y \in queue : x.msg = y.msg /\ x.age = y.age + 1
<1>1. SUFFICES ASSUME NEW x \in Elapse(queue)
               PROVE  /\ x \in Entries
                      /\ \E t \in InitialTimeouts : Paced(x, t)
                      /\ \E y \in queue : x.msg = y.msg /\ x.age = y.age + 1
  BY DEF PacedQueue
<1>2. PICK y \in queue : x = [y EXCEPT !.due = @ - 1, !.age = @ + 1]
  BY DEF Elapse
<1>3. y \in Entries /\ y.due > 0
  OBVIOUS
<1>4. /\ x \in Entries /\ x.msg = y.msg /\ x.age = y.age + 1 /\ x.due = y.due - 1
      /\ x.retry = y.retry /\ x.interval = y.interval
  <2>1. /\ y.msg \in Messages /\ y.retry \in 0 .. MaxRetransmit /\ y.interval \in Nat
        /\ y.due - 1 \in Nat /\ y.age + 1 \in Nat /\ y.old \in BOOLEAN
    BY <1>3 DEF Entries
  <2>2. x = [msg |-> y.msg, retry |-> y.retry, interval |-> y.interval,
             due |-> y.due - 1, age |-> y.age + 1, old |-> y.old]
    BY <1>2, <1>3 DEF Entries
  <2>. QED BY <2>1, <2>2 DEF Entries
<1>5. PICK t \in InitialTimeouts : Paced(y, t)
  BY DEF PacedQueue
<1>6. Paced(x, t)
  BY <1>3, <1>4, <1>5 DEF Paced, Entries
<1>. QED BY <1>4, <1>6

\* The queue of an endpoint that was given up keeps messages and pace.
LEMMA OrphanedPaced ==
  ASSUME NEW queue \in SUBSET Entries, PacedQueue(queue), NEW left \in Orphaned(queue)
  PROVE  /\ left \in SUBSET Entries /\ PacedQueue(left)
         /\ \A x \in left : \E y \in queue : x.msg = y.msg
<1>1. SUFFICES ASSUME NEW x \in left
               PROVE  /\ x \in Entries
                      /\ \E t \in InitialTimeouts : Paced(x, t)
                      /\ \E y \in queue : x.msg = y.msg
  BY DEF PacedQueue
<1>2. PICK y \in queue : x = y \/ x = [y EXCEPT !.old = TRUE]
  BY DEF Orphaned
<1>3. y \in Entries
  OBVIOUS
<1>4. /\ x \in Entries /\ x.msg = y.msg /\ x.retry = y.retry /\ x.interval = y.interval
      /\ x.due = y.due /\ x.age = y.age
  BY <1>2, <1>3 DEF Entries
<1>5. PICK t \in InitialTimeouts : Paced(y, t)
  BY DEF PacedQueue
<1>6. Paced(x, t)
  BY <1>4, <1>5 DEF Paced
<1>. QED BY <1>4, <1>6

-----------------------------------------------------------------------------
(* The type invariant, one action at a time. *)

LEMMA GeneratedId ==
  ASSUME NEW id \in Ids
  PROVE  GenerateMessageId(id) \in Ids /\ (id + 1) % IdModulus \in Ids
BY IdAssumption DEF GenerateMessageId, Ids

LEMMA DatagramType ==
  ASSUME NEW m \in Messages
  PROVE  Datagram(m) \in Datagrams
BY TimeAssumption DEF Datagram, Datagrams

LEMMA EmptyType ==
  ASSUME NEW m \in Messages, NEW to \in {"client", "server"}, NEW type \in Types
  PROVE  Empty(to, type, m) \in Messages
BY DEF Empty, Message, Messages, Tokens

\* The requests rs of the sequence are given tokens: what it means for the types.
LEMMA TokensType ==
  ASSUME TypeOK, NEW rs \in Seq(Requests), TakeTokens(rs)
  PROVE  /\ tok' \in [Requests -> Tokens]
         /\ nextToken' \in Nat
         /\ recycle' \in Seq(Nat)
<1>2. Len(rs) \in Nat /\ Len(recycle) \in Nat /\ recycle \in Seq(Nat) /\ nextToken \in Nat
  BY DEF TypeOK
<1>3. ASSUME NEW i \in 1 .. Len(rs) PROVE AutoToken(i) \in Nat
  BY <1>2 DEF AutoToken
<1>4. tok' \in [Requests -> Tokens]
  <2>1. ASSUME NEW r \in Requests, \E i \in 1 .. Len(rs) : rs[i] = r
        PROVE  AutoToken(CHOOSE i \in 1 .. Len(rs) : rs[i] = r) \in Nat
    <3>1. (CHOOSE i \in 1 .. Len(rs) : rs[i] = r) \in 1 .. Len(rs)
      BY <2>1
    <3>. QED BY <3>1, <1>3
  <2>2. tok \in [Requests -> Tokens]
    BY DEF TypeOK
  <2>. QED BY <2>1, <2>2 DEF TakeTokens, Tokens
<1>5. nextToken' \in Nat /\ recycle' \in Seq(Nat)
  <2>1. ASSUME Len(rs) <= Len(recycle)
        PROVE  SubSeq(recycle, Len(rs) + 1, Len(recycle)) \in Seq(Nat)
    BY <2>1, <1>2
  <2>2. << >> \in Seq(Nat)
    OBVIOUS
  <2>3. CASE TokenMode # "auto"
    BY <2>3, <1>2 DEF TakeTokens
  <2>4. CASE TokenMode = "auto" /\ Len(rs) <= Len(recycle)
    BY <2>4, <2>1, <1>2 DEF TakeTokens
  <2>5. CASE TokenMode = "auto" /\ ~(Len(rs) <= Len(recycle))
    <3>1. recycle' = << >> /\ nextToken' = nextToken + Len(rs) - Len(recycle)
      BY <2>5 DEF TakeTokens
    <3>. QED BY <3>1, <2>2, <2>5, <1>2
  <2>. QED BY <2>3, <2>4, <2>5
<1>. QED BY <1>4, <1>5

LEMMA StartType ==
  ASSUME TypeOK, NEW rs \in Seq(Requests), StartRequests(rs)
  PROVE  /\ tok' \in [Requests -> Tokens]
         /\ nextToken' \in Nat
         /\ recycle' \in Seq(Nat)
         /\ requests' \in Seq(Requests)
<1>1. requests' \in Seq(Requests)
  BY DEF StartRequests, TypeOK
<1>. QED BY <1>1, TokensType DEF StartRequests

\* What the network and the resend queue are given.
LEMMA TransmitType ==
  ASSUME TypeOK, PacedQueue(cqueue),
         NEW rs \in Seq(Requests), NEW reachable \in BOOLEAN,
         tok' \in [Requests -> Tokens], mid' \in [Requests -> NoId .. IdModulus - 1],
         \A i \in 1 .. Len(rs) : mid'[rs[i]] # NoId,
         Transmit(rs, reachable)
  PROVE  /\ cqueue' \in SUBSET Entries /\ PacedQueue(cqueue')
         /\ net' \in SUBSET Datagrams
<1>. DEFINE sent == {rs[i] : i \in 1 .. Len(rs)}
<1>1. ASSUME NEW r \in sent
      PROVE  RequestMessage(r)' \in Messages
  <2>1. r \in Requests /\ mid'[r] \in Ids /\ tok'[r] \in Tokens
    BY DEF Ids, NoId
  <2>. QED BY <2>1 DEF RequestMessage, Message, Messages, Types
<1>2. PICK t \in [sent \cap Confirmable -> InitialTimeouts] :
        cqueue' = cqueue \cup {Entry(RequestMessage(r)', t[r]) : r \in sent \cap Confirmable}
  BY DEF Transmit
<1>3. ASSUME NEW r \in sent \cap Confirmable
      PROVE  /\ Entry(RequestMessage(r)', t[r]) \in Entries
             /\ Paced(Entry(RequestMessage(r)', t[r]), t[r])
             /\ t[r] \in InitialTimeouts
  <2>1. t[r] \in InitialTimeouts
    OBVIOUS
  <2>. QED BY <2>1, <1>1, EntryPaced
<1>4. cqueue' \in SUBSET Entries
  BY <1>2, <1>3 DEF TypeOK
<1>5. PacedQueue(cqueue')
  BY <1>2, <1>3 DEF PacedQueue
<1>6. net' \in SUBSET Datagrams
  <2>1. \A r \in sent : Datagram(RequestMessage(r)') \in Datagrams
    BY <1>1, DatagramType
  <2>2. net' \subseteq net \cup {Datagram(RequestMessage(r)') : r \in sent}
    BY DEF Transmit
  <2>3. net \subseteq Datagrams
    BY DEF TypeOK
  <2>4. ASSUME NEW d \in net' PROVE d \in Datagrams
    <3>1. CASE d \in net
      BY <3>1, <2>3
    <3>2. CASE d \in {Datagram(RequestMessage(r)') : r \in sent}
      BY <3>2, <2>1
    <3>. QED BY <3>1, <3>2, <2>2
  <2>. QED BY <2>4
<1>. QED BY <1>4, <1>5, <1>6

\* What an action must leave well typed besides the names it changes.
Base == TypeOK /\ WaitingNumbered /\ PacedQueue(cqueue) /\ PacedQueue(squeue)

LEMMA TypeSend ==
  ASSUME Base, NEW r \in Requests, Send(r)
  PROVE  Base'
<1>1. mid' \in [Requests -> NoId .. IdModulus - 1] /\ mid'[r] # NoId /\ nextId' \in Ids
      /\ \A q \in Requests : mid[q] # NoId => mid'[q] # NoId
  <2>1. GenerateMessageId(nextId) \in Ids /\ (nextId + 1) % IdModulus \in Ids
    BY GeneratedId DEF Base, TypeOK
  <2>2. /\ GenerateMessageId(nextId) \in NoId .. IdModulus - 1
        /\ GenerateMessageId(nextId) # NoId
    BY <2>1, IdAssumption DEF NoId, Ids
  <2>3. /\ mid \in [Requests -> NoId .. IdModulus - 1]
        /\ mid' = [mid EXCEPT ![r] = GenerateMessageId(nextId)]
        /\ nextId' = (nextId + 1) % IdModulus
    BY DEF Base, TypeOK, Send
  <2>. QED BY <2>1, <2>2, <2>3
<1>2. CASE resolver \in {"none", "pending"}
  <2>1. waiting \in Seq(Requests) /\ waiting' = Append(waiting, r) /\ resolver' = "pending"
    BY <1>2 DEF Send, Base, TypeOK
  <2>2. UNCHANGED <<tok, nextToken, recycle, requests, cqueue, net, responded, observing,
                    acked, answers, stray, failed, resetTold, dropped, serverVars, dups>>
    BY <1>2 DEF Send
  <2>3. WaitingNumbered'
    <3>1. \A i \in 1 .. Len(waiting') :
             waiting'[i] = r \/ (i \in 1 .. Len(waiting) /\ waiting'[i] = waiting[i])
      BY <2>1
    <3>. QED BY <3>1, <1>1, <2>1 DEF WaitingNumbered, Base
  <2>. QED BY <1>1, <2>1, <2>2, <2>3 DEF Base, TypeOK, serverVars, PacedQueue
<1>3. CASE resolver \notin {"none", "pending"}
  <2>1. StartRequests(<<r>>) /\ Transmit(<<r>>, resolver = "resolved")
    BY <1>3 DEF Send
  <2>2. UNCHANGED <<resolver, waiting, responded, observing, acked, answers, stray, failed,
                    resetTold, dropped, serverVars, dups>>
    BY <1>3 DEF Send
  <2>3. <<r>> \in Seq(Requests) /\ \A i \in 1 .. Len(<<r>>) : mid'[<<r>>[i]] # NoId
    BY <1>1
  <2>4. /\ tok' \in [Requests -> Tokens] /\ nextToken' \in Nat
        /\ recycle' \in Seq(Nat) /\ requests' \in Seq(Requests)
    BY <2>1, <2>3, StartType DEF Base
  <2>5. cqueue' \in SUBSET Entries /\ PacedQueue(cqueue') /\ net' \in SUBSET Datagrams
    BY <2>1, <2>3, <2>4, <1>1, TransmitType DEF Base
  <2>6. WaitingNumbered'
    BY <2>2, <1>1 DEF WaitingNumbered, Base, TypeOK
  <2>. QED BY <1>1, <2>2, <2>4, <2>5, <2>6 DEF Base, TypeOK, serverVars, PacedQueue
<1>. QED BY <1>2, <1>3

LEMMA TypeResolved ==
  ASSUME Base, Resolved
  PROVE  Base'
<1>1. StartRequests(waiting) /\ Transmit(waiting, TRUE) /\ waiting' = << >> /\ mid' = mid
      /\ waiting \in Seq(Requests)
  BY DEF Resolved, Base, TypeOK
<1>2. UNCHANGED <<nextId, mid, responded, observing, acked, answers, stray, failed,
                  resetTold, dropped, serverVars, dups>> /\ resolver' = "resolved"
  BY DEF Resolved
<1>3. /\ tok' \in [Requests -> Tokens] /\ nextToken' \in Nat
      /\ recycle' \in Seq(Nat) /\ requests' \in Seq(Requests)
  BY <1>1, StartType DEF Base
<1>4. mid' \in [Requests -> NoId .. IdModulus - 1]
      /\ \A i \in 1 .. Len(waiting) : mid'[waiting[i]] # NoId
  BY <1>1 DEF Base, TypeOK, WaitingNumbered
<1>5. cqueue' \in SUBSET Entries /\ PacedQueue(cqueue') /\ net' \in SUBSET Datagrams
  BY <1>1, <1>3, <1>4, TransmitType DEF Base
<1>6. WaitingNumbered' /\ waiting' \in Seq(Requests)
  BY <1>1 DEF WaitingNumbered
<1>. QED BY <1>2, <1>3, <1>4, <1>5, <1>6 DEF Base, TypeOK, serverVars, PacedQueue

LEMMA TypeSendThrows ==
  ASSUME Base, NEW r \in Requests, SendThrows(r)
  PROVE  Base'
<1>1. GenerateMessageId(nextId) \in Ids /\ (nextId + 1) % IdModulus \in Ids
  BY GeneratedId DEF Base, TypeOK
<1>2. /\ GenerateMessageId(nextId) \in NoId .. IdModulus - 1
      /\ GenerateMessageId(nextId) # NoId
  BY <1>1, IdAssumption DEF NoId, Ids
<1>3. /\ mid \in [Requests -> NoId .. IdModulus - 1]
      /\ mid' = [mid EXCEPT ![r] = GenerateMessageId(nextId)]
      /\ nextId' = (nextId + 1) % IdModulus
  BY DEF Base, TypeOK, SendThrows
<1>4. mid' \in [Requests -> NoId .. IdModulus - 1] /\ nextId' \in Ids
      /\ \A q \in Requests : mid[q] # NoId => mid'[q] # NoId
  BY <1>1, <1>2, <1>3
<1>5. <<r>> \in Seq(Requests) /\ TakeTokens(<<r>>)
  BY DEF SendThrows
<1>6. tok' \in [Requests -> Tokens] /\ nextToken' \in Nat /\ recycle' \in Seq(Nat)
  BY <1>5, TokensType DEF Base
<1>7. UNCHANGED <<resolver, waiting, requests, responded, observing, cqueue, acked, answers,
                  stray, failed, resetTold, dropped, serverVars, net, dups>>
  BY DEF SendThrows
<1>8. WaitingNumbered'
  BY <1>4, <1>7 DEF WaitingNumbered, Base, TypeOK
<1>. QED BY <1>4, <1>6, <1>7, <1>8 DEF Base, TypeOK, serverVars, PacedQueue

\* The requests before the k-th one.
LEMMA Before ==
  ASSUME NEW k \in 1 .. Len(waiting), waiting \in Seq(Requests)
  PROVE  /\ SubSeq(waiting, 1, k) \in Seq(Requests)
         /\ SubSeq(waiting, 1, k - 1) \in Seq(Requests)
         /\ Len(SubSeq(waiting, 1, k - 1)) = k - 1
         /\ \A i \in 1 .. k - 1 : /\ i \in 1 .. Len(waiting)
                                   /\ SubSeq(waiting, 1, k - 1)[i] = waiting[i]
OBVIOUS

LEMMA TypeResolvedFails ==
  ASSUME Base, NEW k \in 1 .. Len(waiting), ResolvedFails(k)
  PROVE  Base'
<1>. DEFINE rs == SubSeq(waiting, 1, k - 1)
<1>1. waiting \in Seq(Requests) /\ mid' = mid /\ Transmit(rs, TRUE) /\ waiting' = << >>
      /\ TakeTokens(SubSeq(waiting, 1, k)) /\ requests' = requests \o rs
  BY DEF ResolvedFails, Base, TypeOK
<1>2. /\ SubSeq(waiting, 1, k) \in Seq(Requests) /\ rs \in Seq(Requests)
      /\ \A i \in 1 .. Len(rs) : i \in 1 .. Len(waiting) /\ rs[i] = waiting[i]
  BY <1>1, Before
<1>3. tok' \in [Requests -> Tokens] /\ nextToken' \in Nat /\ recycle' \in Seq(Nat)
  BY <1>1, <1>2, TokensType DEF Base
<1>4. mid' \in [Requests -> NoId .. IdModulus - 1]
      /\ \A i \in 1 .. Len(rs) : mid'[rs[i]] # NoId
  BY <1>1, <1>2 DEF Base, TypeOK, WaitingNumbered
<1>. HIDE DEF rs
<1>5. cqueue' \in SUBSET Entries /\ PacedQueue(cqueue') /\ net' \in SUBSET Datagrams
  BY <1>1, <1>2, <1>3, <1>4, TransmitType DEF Base
<1>6. WaitingNumbered' /\ waiting' \in Seq(Requests) /\ requests' \in Seq(Requests)
  BY <1>1, <1>2 DEF WaitingNumbered, Base, TypeOK
<1>7. dropped' \subseteq Requests
  BY <1>1 DEF ResolvedFails, Base, TypeOK
<1>8. UNCHANGED <<nextId, mid, responded, observing, acked, answers, stray, failed,
                  resetTold, serverVars, dups>> /\ resolver' = "resolved"
  BY DEF ResolvedFails
<1>. QED BY <1>3, <1>4, <1>5, <1>6, <1>7, <1>8 DEF Base, TypeOK, serverVars, PacedQueue

LEMMA TypeResolveError ==
  ASSUME Base, ResolveError
  PROVE  Base'
<1>1. dropped' \subseteq Requests
  BY DEF Base, TypeOK, ResolveError
<1>. QED BY <1>1 DEF Base, TypeOK, WaitingNumbered, ResolveError, serverVars, PacedQueue

LEMMA EndRequestType ==
  ASSUME TypeOK, NEW i \in 1 .. Len(requests), EndRequest(i)
  PROVE  requests' \in Seq(Requests) /\ recycle' \in Seq(Nat)
<1>1. /\ requests \in Seq(Requests) /\ recycle \in Seq(Nat) /\ Len(requests) \in Nat
      /\ requests[i] \in Requests /\ tok[requests[i]] \in Tokens
  BY DEF TypeOK
<1>2. /\ SubSeq(requests, 1, i - 1) \in Seq(Requests)
      /\ SubSeq(requests, i + 1, Len(requests)) \in Seq(Requests)
  BY <1>1
<1>3. requests' \in Seq(Requests)
  BY <1>2 DEF EndRequest
<1>4. recycle' \in Seq(Nat)
  BY <1>1 DEF EndRequest, Tokens
<1>. QED BY <1>3, <1>4

LEMMA AcksType ==
  ASSUME NEW m \in Messages, NEW rest \in SUBSET Datagrams
  PROVE  ClientAcks(m, rest) \subseteq SUBSET Datagrams
<1>1. Datagram(Empty("server", "ACK", m)) \in Datagrams
  BY EmptyType, DatagramType DEF Types
<1>. QED BY <1>1 DEF ClientAcks

LEMMA TypeClientReceive ==
  ASSUME Base, NEW m \in Messages, NEW rest \in SUBSET Datagrams,
         NEW i \in Matching(m), ClientReceive(m, rest, i), dups' \in 0 .. MaxDups
  PROVE  Base'
<1>1. i \in 1 .. Len(requests) /\ requests[i] \in Requests
  BY DEF Matching, Base, TypeOK
<1>2. m.req \in Requests /\ m.n \in Nat
  BY DEF Messages
<1>3. cqueue' \in SUBSET Entries /\ PacedQueue(cqueue')
  BY SettledPaced DEF ClientReceive, Base, TypeOK
<1>4. net' \in SUBSET Datagrams
  BY AcksType DEF ClientReceive
<1>5. requests' \in Seq(Requests) /\ recycle' \in Seq(Nat)
  BY <1>1, EndRequestType DEF ClientReceive, Base, TypeOK
<1>6. responded' \subseteq Requests /\ observing' \subseteq Requests /\ acked' \subseteq Requests
  BY <1>1 DEF ClientReceive, Base, TypeOK
<1>7. answers' \in [Requests -> SUBSET (Requests \X Nat)]
  <2>1. answers \in [Requests -> SUBSET (Requests \X Nat)] /\ <<m.req, m.n>> \in Requests \X Nat
    BY <1>2 DEF Base, TypeOK
  <2>2. \/ answers' = answers
        \/ answers' = [answers EXCEPT ![requests[i]] = @ \cup {<<m.req, m.n>>}]
    BY DEF ClientReceive
  <2>. QED BY <1>1, <2>1, <2>2
<1>8. resetTold' \in BOOLEAN
  BY DEF ClientReceive
<1>9. UNCHANGED <<resolver, waiting, nextId, nextToken, mid, tok, stray, failed, dropped,
                  serverVars>>
  BY DEF ClientReceive
<1>. QED BY <1>3, <1>4, <1>5, <1>6, <1>7, <1>8, <1>9
     DEF Base, TypeOK, WaitingNumbered, serverVars, PacedQueue

LEMMA TypeClientReceiveStray ==
  ASSUME Base, NEW m \in Messages, NEW rest \in SUBSET Datagrams,
         ClientReceiveStray(m, rest), dups' \in 0 .. MaxDups
  PROVE  Base'
<1>1. m.req \in Requests /\ m.n \in Nat
  BY DEF Messages
<1>2. cqueue' \in SUBSET Entries /\ PacedQueue(cqueue')
  BY SettledPaced DEF ClientReceiveStray, Base, TypeOK
<1>3. net' \in SUBSET Datagrams
  BY AcksType DEF ClientReceiveStray
<1>4. stray' \subseteq Requests \X Nat /\ resetTold' \in BOOLEAN
  BY <1>1 DEF ClientReceiveStray, Base, TypeOK
<1>5. UNCHANGED <<resolver, waiting, nextId, nextToken, recycle, mid, tok, requests,
                  responded, observing, acked, answers, failed, dropped, serverVars>>
  BY DEF ClientReceiveStray
<1>. QED BY <1>2, <1>3, <1>4, <1>5 DEF Base, TypeOK, WaitingNumbered, serverVars, PacedQueue

LEMMA TypeClientResend ==
  ASSUME Base, NEW e \in cqueue, ClientResend(e)
  PROVE  Base'
<1>1. e \in Entries /\ e.due = 0 /\ e.msg \in Messages /\ e.msg.req \in Requests
  BY DEF Base, TypeOK, ClientResend, Entries, Messages
<1>2. cqueue' \in SUBSET Entries /\ PacedQueue(cqueue')
  BY <1>1, ResentPaced DEF ClientResend, Base, TypeOK
<1>3. net' \in SUBSET Datagrams
  BY <1>1, DatagramType DEF ClientResend, Base, TypeOK
<1>4. failed' \subseteq Requests
  BY <1>1 DEF ClientResend, Base, TypeOK
<1>5. requests' \in Seq(Requests) /\ recycle' \in Seq(Nat)
  <2>. DEFINE c == CHOOSE i \in 1 .. Len(requests) : requests[i] = e.msg.req
  <2>1. CASE UNCHANGED <<requests, recycle>>
    BY <2>1 DEF Base, TypeOK
  <2>2. CASE (\E i \in 1 .. Len(requests) : requests[i] = e.msg.req) /\ EndRequest(c)
    <3>1. c \in 1 .. Len(requests)
      BY <2>2
    <3>. QED BY <2>2, <3>1, EndRequestType DEF Base
  <2>. QED BY <2>1, <2>2 DEF ClientResend
<1>6. UNCHANGED <<resolver, waiting, nextId, nextToken, mid, tok, responded, observing,
                  acked, answers, stray, resetTold, dropped, serverVars, dups>>
  BY DEF ClientResend
<1>. QED BY <1>2, <1>3, <1>4, <1>5, <1>6
     DEF Base, TypeOK, WaitingNumbered, serverVars, PacedQueue

LEMMA TypeClientResendFails ==
  ASSUME Base, NEW e \in cqueue, ClientResendFails(e)
  PROVE  Base'
<1>1. e.msg.req \in Requests
  BY DEF Base, TypeOK, Entries, Messages
<1>2. cqueue' \in SUBSET Entries /\ PacedQueue(cqueue') /\ dropped' \subseteq Requests
  BY <1>1 DEF ClientResendFails, Base, TypeOK, PacedQueue
<1>3. UNCHANGED <<resolver, waiting, nextId, nextToken, recycle, mid, tok, requests,
                  responded, observing, acked, answers, stray, failed, resetTold,
                  serverVars, net, dups>>
  BY DEF ClientResendFails
<1>. QED BY <1>2, <1>3 DEF Base, TypeOK, WaitingNumbered, serverVars, PacedQueue

LEMMA CheckType ==
  ASSUME NEW S \in SUBSET Sessions
  PROVE  NextCheck(S) \subseteq Nat \cup {NoTimer}
BY DEF NextCheck, Sessions

LEMMA SessionType ==
  ASSUME NEW m \in Messages
  PROVE  Session(m) \in Sessions
<1>1. ExchangeLifetime \in Nat
  BY SpanType
<1>. QED BY <1>1 DEF Session, Sessions, Messages

LEMMA SendResponseType ==
  ASSUME Base, NEW s \in Sessions, NEW others \in SUBSET Sessions,
         NEW rest \in SUBSET Datagrams, SendResponse(s, others, rest)
  PROVE  /\ net' \in SUBSET Datagrams /\ serverId' \in Ids
         /\ squeue' \in SUBSET Entries /\ PacedQueue(squeue')
         /\ sessions' \in SUBSET Sessions /\ checkAt' \in Nat \cup {NoTimer}
<1>. DEFINE m == Response(s)
<1>1. serverId \in Ids
  BY DEF Base, TypeOK
<1>2. m \in Messages
  <2>1. /\ s.mid \in Ids /\ s.req \in Requests /\ s.tok \in Tokens /\ s.obs \in BOOLEAN
        /\ s.n + 1 \in Nat
    BY DEF Sessions
  <2>2. GenerateMessageId(serverId) \in Ids
    BY <1>1, GeneratedId
  <2>. QED BY <2>1, <2>2 DEF Response, Message, Messages, Types
<1>3. net' \in SUBSET Datagrams
  BY <1>2, DatagramType DEF SendResponse
<1>4. squeue' \in SUBSET Entries /\ PacedQueue(squeue')
  <2>1. PICK t \in InitialTimeouts : squeue' = Queued(squeue, m, t)
    BY DEF SendResponse
  <2>. QED BY <1>2, <2>1, QueuedPaced DEF Base, TypeOK
<1>5. serverId' \in Ids
  BY <1>1, GeneratedId DEF SendResponse
<1>6. PICK after : after = [s EXCEPT !.responded = TRUE, !.last = {m}, !.n = @ + 1]
  OBVIOUS
<1>7. after \in Sessions
  <2>1. /\ s.mid \in Ids /\ s.req \in Requests /\ s.con \in BOOLEAN /\ s.tok \in Tokens
        /\ s.obsReq \in BOOLEAN /\ s.obs \in BOOLEAN /\ s.emptyAck \in BOOLEAN
        /\ s.n + 1 \in Nat /\ s.life \in Nat /\ s.list \in {"running", "finished"}
    BY DEF Sessions
  <2>2. after = [mid |-> s.mid, req |-> s.req, con |-> s.con, tok |-> s.tok,
                 obsReq |-> s.obsReq, obs |-> s.obs, emptyAck |-> s.emptyAck,
                 responded |-> TRUE, last |-> {m}, n |-> s.n + 1, life |-> s.life,
                 list |-> s.list]
    BY <1>6 DEF Sessions
  <2>3. {m} \in SUBSET Messages
    BY <1>2
  <2>. HIDE DEF m
  <2>. QED BY <2>1, <2>2, <2>3 DEF Sessions
<1>8. Finished(after) \in SUBSET Sessions
  <2>1. PICK f : f = [after EXCEPT !.list = "finished", !.obs = FALSE,
                                   !.obsReq = IF after.obs THEN FALSE ELSE @]
    OBVIOUS
  <2>2. f \in Sessions
    BY <1>7, <2>1 DEF Sessions
  <2>. QED BY <2>1, <2>2 DEF Finished
<1>9. sessions' \in SUBSET Sessions
  BY <1>6, <1>7, <1>8 DEF SendResponse
<1>10. checkAt' \in Nat \cup {NoTimer}
  BY <1>9, CheckType DEF SendResponse
<1>. QED BY <1>3, <1>4, <1>5, <1>9, <1>10

LEMMA AckType ==
  ASSUME NEW s \in Sessions
  PROVE  EmptyAck(s) \in Messages
BY DEF EmptyAck, Message, Messages, Sessions, Types, Tokens

LEMMA RunType ==
  ASSUME Base, NEW s \in Sessions, NEW rest \in SUBSET Datagrams, Run(s, rest)
  PROVE  /\ net' \in SUBSET Datagrams /\ serverId' \in Ids
         /\ squeue' \in SUBSET Entries /\ PacedQueue(squeue')
         /\ sessions' \in SUBSET Sessions /\ checkAt' \in Nat \cup {NoTimer}
         /\ runs' \in [Requests -> 0 .. 2] /\ forgotten' \in BOOLEAN
<1>0. forgotten' \in BOOLEAN
  BY DEF Run, Base, TypeOK
<1>1. runs' \in [Requests -> 0 .. 2]
  <2>1. runs \in [Requests -> 0 .. 2] /\ s.req \in Requests
        /\ runs' = [runs EXCEPT ![s.req] = IF @ = 0 THEN 1 ELSE 2]
    BY DEF Base, TypeOK, Sessions, Run
  <2>. QED BY <2>1
<1>2. sessions \in SUBSET Sessions /\ s.obsReq \in BOOLEAN
  BY DEF Base, TypeOK, Sessions
<1>3. ASSUME NEW accept \in {FALSE, s.obsReq},
             SendResponse([s EXCEPT !.obs = accept], sessions, rest)
      PROVE  /\ net' \in SUBSET Datagrams /\ serverId' \in Ids
             /\ squeue' \in SUBSET Entries /\ PacedQueue(squeue')
             /\ sessions' \in SUBSET Sessions /\ checkAt' \in Nat \cup {NoTimer}
  <2>1. [s EXCEPT !.obs = accept] \in Sessions
    BY <1>2 DEF Sessions
  <2>. QED BY <1>2, <1>3, <2>1, SendResponseType
<1>4. ASSUME SendResponse(s, sessions, rest)
      PROVE  /\ net' \in SUBSET Datagrams /\ serverId' \in Ids
             /\ squeue' \in SUBSET Entries /\ PacedQueue(squeue')
             /\ sessions' \in SUBSET Sessions /\ checkAt' \in Nat \cup {NoTimer}
  BY <1>2, <1>4, SendResponseType
<1>5. ASSUME NEW accept \in {FALSE, s.obsReq}, NEW autoAck \in AutoAcks,
             sessions' = sessions \cup {[s EXCEPT !.obs = accept, !.emptyAck = s.con /\ autoAck]},
             net' \subseteq rest \cup {Datagram(EmptyAck(s))},
             checkAt' \in NextCheck(sessions'), UNCHANGED <<serverId, squeue>>
      PROVE  /\ net' \in SUBSET Datagrams /\ serverId' \in Ids
             /\ squeue' \in SUBSET Entries /\ PacedQueue(squeue')
             /\ sessions' \in SUBSET Sessions /\ checkAt' \in Nat \cup {NoTimer}
  <2>1. [s EXCEPT !.obs = accept, !.emptyAck = s.con /\ autoAck] \in Sessions
    BY <1>2, RequestsAssumption DEF Sessions
  <2>2. sessions' \in SUBSET Sessions
    BY <1>2, <1>5, <2>1
  <2>3. net' \in SUBSET Datagrams
    BY <1>5, AckType, DatagramType
  <2>. QED BY <1>5, <2>2, <2>3, CheckType DEF Base, TypeOK, PacedQueue
<1>6. CASE \E accept \in {FALSE, s.obsReq}, autoAck \in AutoAcks :
             /\ sessions' = sessions \cup
                  {[s EXCEPT !.obs = accept, !.emptyAck = s.con /\ autoAck]}
             /\ net' \subseteq rest \cup {Datagram(EmptyAck(s))}
             /\ checkAt' \in NextCheck(sessions') /\ UNCHANGED <<serverId, squeue>>
  BY <1>5, <1>6, <1>1, <1>0
<1>7. CASE net' = rest /\ UNCHANGED <<serverId, sessions, squeue, checkAt>>
  BY <1>7, <1>0, <1>1 DEF Base, TypeOK, PacedQueue
<1>. QED BY <1>0, <1>1, <1>3, <1>4, <1>6, <1>7 DEF Run, EmptyAck

\* The three things that a request received before may lead to.
RunsAgain(s, rest) ==
  \/ /\ s.last # {}
     /\ \E m \in s.last : /\ net' = rest \cup {Datagram(m)}
                          /\ \E t \in InitialTimeouts : squeue' = Queued(squeue, m, t)
     /\ UNCHANGED sessions
  \/ /\ net' = rest \cup {Datagram(EmptyAck(s))}
     /\ sessions' = (sessions \ {s}) \cup {[s EXCEPT !.emptyAck = TRUE]}
     /\ UNCHANGED squeue
  \/ net' = rest /\ UNCHANGED <<sessions, squeue>>

LEMMA RunAgainCases ==
  ASSUME NEW s, NEW rest, RunAgain(s, rest)
  PROVE  RunsAgain(s, rest) /\ UNCHANGED <<serverId, checkAt, runs, forgotten>>
<1>1. s.last # {} => (CHOOSE x \in s.last : TRUE) \in s.last
  OBVIOUS
<1>. QED BY <1>1 DEF RunAgain, RunsAgain

LEMMA RunAgainType ==
  ASSUME Base, NEW s \in sessions, NEW rest \in SUBSET Datagrams, RunAgain(s, rest)
  PROVE  /\ net' \in SUBSET Datagrams /\ squeue' \in SUBSET Entries /\ PacedQueue(squeue')
         /\ sessions' \in SUBSET Sessions
<1>1. s \in Sessions /\ sessions \in SUBSET Sessions /\ squeue \in SUBSET Entries
      /\ PacedQueue(squeue)
  BY DEF Base, TypeOK
<1>2. ASSUME NEW m \in s.last, NEW t \in InitialTimeouts, squeue' = Queued(squeue, m, t),
             net' = rest \cup {Datagram(m)}, UNCHANGED sessions
      PROVE  /\ net' \in SUBSET Datagrams /\ squeue' \in SUBSET Entries /\ PacedQueue(squeue')
             /\ sessions' \in SUBSET Sessions
  <2>1. m \in Messages
    BY <1>1 DEF Sessions
  <2>. QED BY <1>1, <1>2, <2>1, QueuedPaced, DatagramType
<1>3. CASE /\ net' = rest \cup {Datagram(EmptyAck(s))} /\ squeue' = squeue
           /\ sessions' = (sessions \ {s}) \cup {[s EXCEPT !.emptyAck = TRUE]}
  <2>1. [s EXCEPT !.emptyAck = TRUE] \in Sessions
    BY <1>1 DEF Sessions
  <2>. QED BY <1>1, <1>3, <2>1, AckType, DatagramType DEF PacedQueue
<1>4. CASE net' = rest /\ UNCHANGED <<sessions, squeue>>
  BY <1>4, <1>1 DEF PacedQueue
<1>. QED BY <1>2, <1>3, <1>4, RunAgainCases DEF RunsAgain

LEMMA TypeServerReceive ==
  ASSUME Base, NEW m \in Messages, NEW rest \in SUBSET Datagrams,
         ServerReceive(m, rest), dups' \in 0 .. MaxDups
  PROVE  Base'
<1>. DEFINE Goal == /\ net' \in SUBSET Datagrams /\ serverId' \in Ids
                    /\ squeue' \in SUBSET Entries /\ PacedQueue(squeue')
                    /\ sessions' \in SUBSET Sessions /\ checkAt' \in Nat \cup {NoTimer}
                    /\ runs' \in [Requests -> 0 .. 2] /\ forgotten' \in BOOLEAN
<1>1. ASSUME squeue' = Settled(squeue, m), net' = rest,
             UNCHANGED <<serverId, sessions, checkAt, runs, forgotten>>
      PROVE  Goal
  <2>1. squeue' \in SUBSET Entries /\ PacedQueue(squeue')
    BY <1>1, SettledPaced DEF Base, TypeOK
  <2>. QED BY <1>1, <2>1 DEF Base, TypeOK
<1>2. ASSUME Invalidate(Settled(squeue, m)), net' = rest, UNCHANGED <<serverId, checkAt, runs>>
      PROVE  Goal
  <2>1. Settled(squeue, m) \in SUBSET Entries /\ PacedQueue(Settled(squeue, m))
    BY SettledPaced DEF Base, TypeOK
  <2>2. squeue' \in SUBSET Entries /\ PacedQueue(squeue')
    BY <1>2, <2>1, OrphanedPaced DEF Invalidate
  <2>. QED BY <1>2, <2>2 DEF Invalidate, Base, TypeOK
<1>3. ASSUME \E s \in sessions : s.mid = m.mid,
             RunAgain(CHOOSE s \in sessions : s.mid = m.mid, rest)
      PROVE  Goal
  <2>. DEFINE c == CHOOSE s \in sessions : s.mid = m.mid
  <2>1. c \in sessions
    BY <1>3
  <2>2. /\ net' \in SUBSET Datagrams /\ squeue' \in SUBSET Entries /\ PacedQueue(squeue')
        /\ sessions' \in SUBSET Sessions
    BY <1>3, <2>1, RunAgainType
  <2>3. UNCHANGED <<serverId, checkAt, runs, forgotten>>
    BY <1>3 DEF RunAgain
  <2>. QED BY <1>3, <2>2, <2>3 DEF Base, TypeOK
<1>4. ASSUME Run(Session(m), rest)
      PROVE  Goal
  <2>1. Session(m) \in Sessions
    BY SessionType
  <2>. QED BY <1>4, <2>1, RunType DEF Base, TypeOK
<1>5. Goal
  BY <1>1, <1>2, <1>3, <1>4 DEF ServerReceive
<1>6. UNCHANGED clientVars
  BY DEF ServerReceive
<1>. QED BY <1>5, <1>6 DEF Base, TypeOK, WaitingNumbered, clientVars, PacedQueue

LEMMA TypeSession ==
  ASSUME Base, NEW s \in sessions,
         SessionSend(s) \/ SessionSendAck(s) \/ SessionEndObserve(s)
  PROVE  Base'
<1>1. s \in Sessions /\ sessions \in SUBSET Sessions /\ sessions \ {s} \in SUBSET Sessions
      /\ net \in SUBSET Datagrams
  BY DEF Base, TypeOK
<1>2. CASE SessionSend(s)
  <2>1. /\ net' \in SUBSET Datagrams /\ serverId' \in Ids
        /\ squeue' \in SUBSET Entries /\ PacedQueue(squeue')
        /\ sessions' \in SUBSET Sessions /\ checkAt' \in Nat \cup {NoTimer}
    BY <1>1, <1>2, SendResponseType DEF SessionSend
  <2>2. UNCHANGED <<clientVars, runs, forgotten, dups>>
    BY <1>2 DEF SessionSend
  <2>. QED BY <2>1, <2>2 DEF Base, TypeOK, WaitingNumbered, clientVars, PacedQueue
<1>3. CASE SessionSendAck(s)
  <2>1. [s EXCEPT !.emptyAck = TRUE] \in Sessions /\ Datagram(EmptyAck(s)) \in Datagrams
    BY <1>1, AckType, DatagramType DEF Sessions
  <2>2. sessions' \in SUBSET Sessions /\ net' \in SUBSET Datagrams
    BY <1>1, <1>3, <2>1 DEF SessionSendAck
  <2>3. UNCHANGED <<clientVars, serverId, squeue, checkAt, runs, forgotten, dups>>
    BY <1>3 DEF SessionSendAck
  <2>. QED BY <2>2, <2>3 DEF Base, TypeOK, WaitingNumbered, clientVars, PacedQueue
<1>4. CASE SessionEndObserve(s)
  <2>1. [s EXCEPT !.obs = FALSE, !.obsReq = FALSE] \in Sessions
    BY <1>1 DEF Sessions
  <2>2. sessions' \in SUBSET Sessions
    BY <1>1, <1>4, <2>1 DEF SessionEndObserve
  <2>3. UNCHANGED <<clientVars, serverId, squeue, checkAt, runs, forgotten, net, dups>>
    BY <1>4 DEF SessionEndObserve
  <2>. QED BY <2>2, <2>3 DEF Base, TypeOK, WaitingNumbered, clientVars, PacedQueue
<1>. QED BY <1>2, <1>3, <1>4

LEMMA TypeServerResend ==
  ASSUME Base, NEW e \in squeue, ServerResend(e)
  PROVE  Base'
<1>1. e \in Entries /\ e.due = 0 /\ e.msg \in Messages /\ squeue \in SUBSET Entries
      /\ PacedQueue(squeue)
  BY DEF Base, TypeOK, ServerResend, Entries
<1>2. net' \in SUBSET Datagrams
  BY <1>1, DatagramType DEF ServerResend, Base, TypeOK
<1>3. Resent(squeue, e) \in SUBSET Entries /\ PacedQueue(Resent(squeue, e))
  BY <1>1, ResentPaced
<1>4. /\ squeue' \in SUBSET Entries /\ PacedQueue(squeue')
      /\ sessions' \in SUBSET Sessions /\ forgotten' \in BOOLEAN
  <2>1. squeue \ {e} \in SUBSET Entries /\ PacedQueue(squeue \ {e})
    BY <1>1 DEF PacedQueue
  <2>2. CASE Invalidate(squeue \ {e})
    BY <2>1, <2>2, OrphanedPaced DEF Invalidate
  <2>3. CASE squeue' = Resent(squeue, e) /\ UNCHANGED <<sessions, forgotten>>
    BY <1>3, <2>3 DEF Base, TypeOK
  <2>. QED BY <2>2, <2>3 DEF ServerResend
<1>5. UNCHANGED <<clientVars, serverId, checkAt, runs, dups>>
  BY DEF ServerResend
<1>. QED BY <1>2, <1>4, <1>5 DEF Base, TypeOK, WaitingNumbered, clientVars, PacedQueue

LEMMA TypeServerDrops ==
  ASSUME Base, (\E e \in squeue : ServerResendFails(e)) \/ SessionDestructor
  PROVE  Base'
<1>1. squeue' \subseteq squeue
      /\ UNCHANGED <<clientVars, serverId, sessions, checkAt, runs, forgotten, net, dups>>
  BY DEF ServerResendFails, SessionDestructor
<1>. QED BY <1>1 DEF Base, TypeOK, WaitingNumbered, clientVars, PacedQueue

LEMMA TypePeriodicalCheck ==
  ASSUME Base, PeriodicalCheck
  PROVE  Base'
<1>1. sessions' \in SUBSET Sessions
  BY DEF PeriodicalCheck, Base, TypeOK
<1>2. squeue' \in SUBSET Entries /\ PacedQueue(squeue')
  <2>1. squeue' = squeue \/ squeue' \in Orphaned(squeue)
    BY DEF PeriodicalCheck
  <2>. QED BY <2>1, OrphanedPaced DEF Base, TypeOK
<1>3. checkAt' \in Nat \cup {NoTimer}
  BY <1>1, CheckType DEF PeriodicalCheck
<1>4. UNCHANGED <<clientVars, serverId, runs, forgotten, net, dups>>
  BY DEF PeriodicalCheck
<1>. QED BY <1>1, <1>2, <1>3, <1>4 DEF Base, TypeOK, WaitingNumbered, clientVars, PacedQueue

LEMMA TypeDeliver ==
  ASSUME Base, NEW d \in net, Deliver(d)
  PROVE  Base'
<1>1. d \in Datagrams /\ d.msg \in Messages /\ net \in SUBSET Datagrams
  BY DEF Base, TypeOK, Datagrams
<1>2. PICK rest \in {net \ {d}} \cup (IF dups > 0 THEN {net} ELSE {}) :
        /\ dups' = IF d \in rest THEN dups - 1 ELSE dups
        /\ \/ \E i \in Matching(d.msg) : ClientReceive(d.msg, rest, i)
           \/ ClientReceiveStray(d.msg, rest)
           \/ ServerReceive(d.msg, rest)
  BY DEF Deliver
<1>3. rest \in SUBSET Datagrams
  BY <1>1, <1>2
<1>4. dups' \in 0 .. MaxDups
  BY <1>2, TimeAssumption DEF Base, TypeOK
<1>. QED BY <1>1, <1>2, <1>3, <1>4, TypeClientReceive, TypeClientReceiveStray, TypeServerReceive

LEMMA TypePeerReset ==
  ASSUME Base, NEW d \in net, PeerReset(d)
  PROVE  Base'
<1>1. d.msg \in Messages /\ net \in SUBSET Datagrams
  BY DEF Base, TypeOK, Datagrams
<1>2. Datagram(Empty(IF d.msg.to = "client" THEN "server" ELSE "client", "RST", d.msg))
        \in Datagrams
  BY <1>1, EmptyType, DatagramType DEF Types
<1>3. net' \in SUBSET Datagrams
  BY <1>1, <1>2 DEF PeerReset
<1>4. UNCHANGED <<clientVars, serverVars, dups>>
  BY DEF PeerReset
<1>. QED BY <1>3, <1>4 DEF Base, TypeOK, WaitingNumbered, clientVars, serverVars, PacedQueue

LEMMA TypeTick ==
  ASSUME Base, Tick
  PROVE  Base'
<1>1. cqueue' \in SUBSET Entries /\ PacedQueue(cqueue')
  BY ElapsePaced DEF Tick, Base, TypeOK
<1>2. squeue' \in SUBSET Entries /\ PacedQueue(squeue')
  BY ElapsePaced DEF Tick, Base, TypeOK
<1>3. sessions' \in SUBSET Sessions
  <2>1. ASSUME NEW s \in sessions
        PROVE  [s EXCEPT !.life = IF @ = 0 THEN 0 ELSE @ - 1] \in Sessions
    <3>1. s \in Sessions /\ s.life \in Nat
      BY DEF Base, TypeOK, Sessions
    <3>2. (IF s.life = 0 THEN 0 ELSE s.life - 1) \in Nat
      BY <3>1
    <3>. QED BY <3>1, <3>2 DEF Sessions
  <2>. QED BY <2>1 DEF Tick
<1>4. checkAt' \in Nat \cup {NoTimer}
  BY DEF Tick, Base, TypeOK
<1>5. net' \in SUBSET Datagrams
  <2>1. ASSUME NEW d \in net, d.ttl > 0
        PROVE  [d EXCEPT !.ttl = @ - 1] \in Datagrams
    <3>1. d \in Datagrams /\ d.ttl \in 0 .. MaxLatency /\ d.ttl - 1 \in 0 .. MaxLatency
      BY <2>1, TimeAssumption DEF Base, TypeOK, Datagrams
    <3>. QED BY <3>1 DEF Datagrams
  <2>. QED BY <2>1 DEF Tick
<1>6. UNCHANGED <<resolver, waiting, nextId, nextToken, recycle, mid, tok, requests,
                  responded, observing, acked, answers, stray, failed, resetTold,
                  dropped, serverId, runs, forgotten, dups>>
  BY DEF Tick
<1>. QED BY <1>1, <1>2, <1>3, <1>4, <1>5, <1>6 DEF Base, TypeOK, WaitingNumbered, PacedQueue

LEMMA BaseInit ==
  ASSUME Init
  PROVE  Base
<1>1. mid \in [Requests -> NoId .. IdModulus - 1]
  BY IdAssumption DEF Init, NoId
<1>2. tok \in [Requests -> Tokens]
  BY RequestsAssumption DEF Init, Tokens, NoToken
<1>3. nextId \in Ids /\ serverId \in Ids /\ dups \in 0 .. MaxDups
  BY IdAssumption, TimeAssumption DEF Init, Ids
<1>4. waiting \in Seq(Requests) /\ recycle \in Seq(Nat) /\ requests \in Seq(Requests)
  BY DEF Init
<1>5. answers \in [Requests -> SUBSET (Requests \X Nat)] /\ runs \in [Requests -> 0 .. 2]
  BY DEF Init
<1>6. TypeOK
  BY <1>1, <1>2, <1>3, <1>4, <1>5 DEF Init, TypeOK
<1>. QED BY <1>6 DEF Init, Base, WaitingNumbered, PacedQueue

LEMMA BaseNext ==
  ASSUME Base, [Next]_vars
  PROVE  Base'
<1>1. CASE UNCHANGED vars
  BY <1>1 DEF vars, clientVars, serverVars, Base, TypeOK, WaitingNumbered, PacedQueue
<1>2. CASE Next
  BY <1>2, TypeSend, TypeSendThrows, TypeResolved, TypeResolvedFails, TypeResolveError,
     TypeDeliver, TypePeerReset, TypeClientResend, TypeClientResendFails, TypeServerResend,
     TypeServerDrops, TypeSession, TypePeriodicalCheck, TypeTick
  DEF Next
<1>. QED BY <1>1, <1>2

\* The variables keep their types: ids stay within the width of a message id,
\* resends within MaxRetransmit, tokens and sessions are well formed.
THEOREM TypeCorrect == Spec => []TypeOK
<1>1. Init => Base
  BY BaseInit
<1>2. Base /\ [Next]_vars => Base'
  BY BaseNext
<1>3. Base => TypeOK
  BY DEF Base
<1>. QED BY <1>1, <1>2, <1>3, PTL DEF Spec

\* The last resend of a message comes within the transmit span: the schedule
\* of KprCoAPEndpointMessageQueueResend and the formula of
\* KprCoAPEndpointGetMaxTransmitSpan agree, for all transmission parameters.
THEOREM ResendsWithinSpan == Spec => []WithinSpan
<1>1. Init => Base
  BY BaseInit
<1>2. Base /\ [Next]_vars => Base'
  BY BaseNext
<1>3. Base => WithinSpan
  BY PacedSpan DEF Base, TypeOK, PacedQueue, WithinSpan
<1>. QED BY <1>1, <1>2, <1>3, PTL DEF Spec

-----------------------------------------------------------------------------
(* The server runs a confirmable request once. *)

SameExchange(x, y) == x.mid = y.mid /\ x.req = y.req /\ x.con = y.con /\ x.life = y.life

\* Most steps send no request, start no session and end no confirmable one,
\* unless they invalidate the endpoint.
Quiet ==
  /\ \A x \in cqueue' : \E y \in cqueue : x.msg = y.msg /\ x.age = y.age
  /\ \A d \in net' : Copy(d) => d \in net
  /\ \A x \in sessions' : \E y \in sessions : SameExchange(x, y)
  /\ ~forgotten' => \A y \in sessions : y.con => \E x \in sessions' : x.req = y.req
  /\ ~forgotten' => ~forgotten
  /\ UNCHANGED <<mid, waiting, runs>>

LEMMA QuietKnown ==
  ASSUME Known, Quiet
  PROVE  Known'
<1>1. OwnQueue'
  BY DEF Known, OwnQueue, Quiet
<1>2. OwnNet'
  BY DEF Known, OwnNet, Quiet, Copy
<1>3. OwnSessions'
  BY DEF Known, OwnSessions, Quiet, SameExchange
<1>4. Outlives'
  <2>1. SUFFICES ASSUME NEW x \in sessions', x.con
                 PROVE  /\ \A d \in net' : Copy(d) /\ d.msg.req = x.req => d.ttl < x.life
                        /\ \A e \in cqueue' : e.msg.req = x.req => x.life + e.age >= ExchangeLifetime
    BY DEF Outlives, Copy
  <2>2. PICK y \in sessions : SameExchange(x, y)
    BY DEF Quiet
  <2>3. /\ \A d \in net : Copy(d) /\ d.msg.req = y.req => d.ttl < y.life
        /\ \A e \in cqueue : e.msg.req = y.req => y.life + e.age >= ExchangeLifetime
    BY <2>1, <2>2 DEF Known, Outlives, SameExchange
  <2>4. ASSUME NEW d \in net', Copy(d), d.msg.req = x.req PROVE d.ttl < x.life
    BY <2>2, <2>3, <2>4 DEF Quiet, SameExchange
  <2>5. ASSUME NEW e \in cqueue', e.msg.req = x.req PROVE x.life + e.age >= ExchangeLifetime
    <3>1. PICK z \in cqueue : e.msg = z.msg /\ e.age = z.age
      BY DEF Quiet
    <3>. QED BY <2>2, <2>3, <2>5, <3>1 DEF SameExchange
  <2>. QED BY <2>4, <2>5
<1>5. FreshUnstarted'
  BY DEF Known, FreshUnstarted, Unstarted, Quiet, SameExchange, Copy
<1>6. Remembered'
  <2>1. SUFFICES ASSUME ~forgotten', NEW r \in Confirmable, runs'[r] > 0
                 PROVE  \/ \E s \in sessions' : s.req = r
                        \/ /\ \A d \in net' : Copy(d) => d.msg.req # r
                           /\ \A e \in cqueue' : e.msg.req # r
    BY DEF Remembered, Copy
  <2>2. CASE \E s \in sessions : s.req = r
    <3>1. PICK s \in sessions : s.req = r
      BY <2>2
    <3>2. s.con
      BY <3>1 DEF Known, OwnSessions
    <3>. QED BY <2>1, <3>1, <3>2 DEF Quiet
  <2>3. CASE /\ \A d \in net : Copy(d) => d.msg.req # r
             /\ \A e \in cqueue : e.msg.req # r
    BY <2>3 DEF Quiet
  <2>. QED BY <2>1, <2>2, <2>3 DEF Known, Remembered, Quiet
<1>7. RunOnce'
  BY DEF Known, RunOnce, Quiet
<1>. QED BY <1>1, <1>2, <1>3, <1>4, <1>5, <1>6, <1>7 DEF Known

\* Messages to the client, acknowledgements and resets are no copies.
LEMMA NoCopy ==
  /\ \A s : ~Copy(Datagram(EmptyAck(s)))
  /\ \A s : ~Copy(Datagram(Response(s)))
  /\ \A m, to : ~Copy(Datagram(Empty(to, "ACK", m))) /\ ~Copy(Datagram(Empty(to, "RST", m)))
BY DEF Copy, Datagram, EmptyAck, Response, Message, Empty

\* The session that sends a response stays, unless it is not confirmable.
LEMMA SendResponseKeeps ==
  ASSUME NEW s \in Sessions, NEW others, NEW rest, SendResponse(s, others, rest)
  PROVE  /\ \A x \in sessions' : x \in others \/ SameExchange(x, s)
         /\ others \subseteq sessions'
         /\ s.con => \E x \in sessions' : SameExchange(x, s)
         /\ \A d \in net' : Copy(d) => d \in rest
<1>1. PICK after : after = [s EXCEPT !.responded = TRUE, !.last = {Response(s)}, !.n = @ + 1]
  OBVIOUS
<1>2. sessions' = others \cup IF after.obs THEN {after} ELSE Finished(after)
  BY <1>1 DEF SendResponse
<1>3. SameExchange(after, s) /\ after.con = s.con
  BY <1>1 DEF SameExchange, Sessions
<1>4. PICK f : f = [after EXCEPT !.list = "finished", !.obs = FALSE,
                                 !.obsReq = IF after.obs THEN FALSE ELSE @]
  OBVIOUS
<1>5. SameExchange(f, s)
  BY <1>1, <1>3, <1>4 DEF SameExchange, Sessions
<1>6. Finished(after) = IF s.con THEN {f} ELSE {}
  BY <1>3, <1>4 DEF Finished
<1>7. \A d \in net' : Copy(d) => d \in rest
  BY NoCopy DEF SendResponse
<1>. QED BY <1>2, <1>3, <1>5, <1>6, <1>7

LEMMA KnownSession ==
  ASSUME Base, Known, NEW s \in sessions,
         SessionSend(s) \/ SessionSendAck(s) \/ SessionEndObserve(s)
  PROVE  Known'
<1>1. s \in Sessions
  BY DEF Base, TypeOK
<1>2. CASE SessionSend(s)
  <2>1. UNCHANGED <<clientVars, runs, forgotten>> /\ SendResponse(s, sessions \ {s}, net)
    BY <1>2 DEF SessionSend
  <2>2. /\ \A x \in sessions' : \E y \in sessions : SameExchange(x, y)
        /\ \A y \in sessions : y.con => \E x \in sessions' : x.req = y.req
        /\ \A d \in net' : Copy(d) => d \in net
    BY <1>1, <2>1, SendResponseKeeps DEF SameExchange
  <2>3. Quiet
    BY <2>1, <2>2 DEF Quiet, clientVars
  <2>. QED BY <2>3, QuietKnown
<1>3. CASE SessionSendAck(s)
  <2>1. PICK x : x = [s EXCEPT !.emptyAck = TRUE]
    OBVIOUS
  <2>2. SameExchange(x, s)
    BY <1>1, <2>1 DEF SameExchange, Sessions
  <2>3. /\ sessions' = (sessions \ {s}) \cup {x} /\ net' = net \cup {Datagram(EmptyAck(s))}
        /\ UNCHANGED <<clientVars, runs, forgotten>>
    BY <1>3, <2>1 DEF SessionSendAck
  <2>4. Quiet
    BY <2>2, <2>3, NoCopy DEF Quiet, clientVars, SameExchange
  <2>. QED BY <2>4, QuietKnown
<1>4. CASE SessionEndObserve(s)
  <2>1. PICK x : x = [s EXCEPT !.obs = FALSE, !.obsReq = FALSE]
    OBVIOUS
  <2>2. SameExchange(x, s)
    BY <1>1, <2>1 DEF SameExchange, Sessions
  <2>3. /\ sessions' = (sessions \ {s}) \cup {x} /\ net' = net
        /\ UNCHANGED <<clientVars, runs, forgotten>>
    BY <1>4, <2>1 DEF SessionEndObserve
  <2>4. Quiet
    BY <2>2, <2>3 DEF Quiet, clientVars, SameExchange
  <2>. QED BY <2>4, QuietKnown
<1>. QED BY <1>2, <1>3, <1>4

LEMMA KnownServerResend ==
  ASSUME Base, Known, NEW e \in squeue, ServerResend(e),
         \A x \in squeue : x.msg.to = "client"
  PROVE  Known'
<1>1. ~Copy(Datagram(e.msg))
  BY DEF Copy, Datagram
<1>2. Quiet
  BY <1>1 DEF Quiet, ServerResend, Invalidate, clientVars, SameExchange
<1>. QED BY <1>2, QuietKnown

\* A queue, or what is left of one, loses entries.
LEMMA KnownDrops ==
  ASSUME Known, \/ \E e \in cqueue : ClientResendFails(e)
                \/ \E e \in squeue : ServerResendFails(e)
                \/ SessionDestructor
  PROVE  Known'
<1>1. Quiet
  BY DEF Quiet, ClientResendFails, ServerResendFails, SessionDestructor, clientVars,
         serverVars, SameExchange
<1>. QED BY <1>1, QuietKnown

LEMMA KnownClientReceive ==
  ASSUME Base, Known, NEW m, NEW rest \in SUBSET net,
         (\E i \in Matching(m) : ClientReceive(m, rest, i)) \/ ClientReceiveStray(m, rest)
  PROVE  Known'
<1>1. cqueue' = Settled(cqueue, m) /\ net' \in ClientAcks(m, rest)
      /\ UNCHANGED <<mid, waiting, serverVars>>
  BY DEF ClientReceive, ClientReceiveStray
<1>2. cqueue' \subseteq cqueue
  BY <1>1, SettledSubset
<1>3. \A d \in net' : Copy(d) => d \in net
  BY <1>1, NoCopy DEF ClientAcks
<1>4. Quiet
  BY <1>1, <1>2, <1>3 DEF Quiet, serverVars, SameExchange
<1>. QED BY <1>4, QuietKnown

LEMMA KnownPeerReset ==
  ASSUME Base, Known, NEW d \in net, PeerReset(d)
  PROVE  Known'
<1>1. \A x \in net' : Copy(x) => x \in net
  BY NoCopy DEF PeerReset
<1>2. Quiet
  BY <1>1 DEF Quiet, PeerReset, clientVars, serverVars, SameExchange
<1>. QED BY <1>2, QuietKnown

LEMMA KnownResolveError ==
  ASSUME Base, Known, ResolveError
  PROVE  Known'
<1>1. Quiet
  BY DEF Quiet, ResolveError, serverVars, SameExchange
<1>. QED BY <1>1, QuietKnown

\* The server only sends to the client.
ToClient ==
  /\ \A e \in squeue : e.msg.to = "client"
  /\ \A s \in sessions : \A m \in s.last : m.to = "client"

LEMMA QueuedTo ==
  ASSUME NEW queue, NEW m, NEW t, m.to = "client", \A e \in queue : e.msg.to = "client"
  PROVE  \A e \in Queued(queue, m, t) : e.msg.to = "client"
BY DEF Queued, Entry

LEMMA SendResponseTo ==
  ASSUME NEW s \in Sessions, NEW others, NEW rest, SendResponse(s, others, rest),
         ToClient, \A x \in others : \A m \in x.last : m.to = "client"
  PROVE  ToClient'
<1>1. Response(s).to = "client"
  BY DEF Response, Message
<1>2. \A e \in squeue' : e.msg.to = "client"
  BY <1>1, QueuedTo DEF SendResponse, ToClient
<1>3. PICK after : after = [s EXCEPT !.responded = TRUE, !.last = {Response(s)}, !.n = @ + 1]
  OBVIOUS
<1>4. sessions' = others \cup IF after.obs THEN {after} ELSE Finished(after)
  BY <1>3 DEF SendResponse
<1>5. after.last = {Response(s)}
  BY <1>3 DEF Sessions
<1>6. PICK f : f = [after EXCEPT !.list = "finished", !.obs = FALSE,
                                 !.obsReq = IF after.obs THEN FALSE ELSE @]
  OBVIOUS
<1>7. f.last = {Response(s)}
  BY <1>3, <1>5, <1>6 DEF Sessions
<1>8. Finished(after) \subseteq {f}
  BY <1>6 DEF Finished
<1>9. \A x \in sessions' : \A m \in x.last : m.to = "client"
  BY <1>1, <1>4, <1>5, <1>7, <1>8
<1>. QED BY <1>2, <1>9 DEF ToClient

LEMMA SessionsTo ==
  ASSUME ToClient, \A e \in squeue' : \E f \in squeue : e.msg = f.msg,
         \A x \in sessions' : x.last = {} \/ \E y \in sessions : x.last = y.last
  PROVE  ToClient'
BY DEF ToClient

LEMMA ToClientRun ==
  ASSUME Base, ToClient, NEW s \in Sessions, s.last = {}, NEW rest, Run(s, rest)
  PROVE  ToClient'
<1>1. CASE \E accept \in {FALSE, s.obsReq} : SendResponse([s EXCEPT !.obs = accept], sessions, rest)
  <2>1. PICK accept \in {FALSE, s.obsReq} : SendResponse([s EXCEPT !.obs = accept], sessions, rest)
    BY <1>1
  <2>2. [s EXCEPT !.obs = accept] \in Sessions
    BY DEF Sessions
  <2>. QED BY <2>1, <2>2, SendResponseTo DEF ToClient
<1>2. CASE SendResponse(s, sessions, rest)
  BY <1>2, SendResponseTo DEF ToClient
<1>3. CASE /\ UNCHANGED squeue
           /\ \E accept \in {FALSE, s.obsReq}, acks \in BOOLEAN :
                sessions' = sessions \cup {[s EXCEPT !.obs = accept, !.emptyAck = acks]}
  <2>1. PICK accept \in {FALSE, s.obsReq}, acks \in BOOLEAN :
               sessions' = sessions \cup {[s EXCEPT !.obs = accept, !.emptyAck = acks]}
    BY <1>3
  <2>2. [s EXCEPT !.obs = accept, !.emptyAck = acks].last = {}
    BY DEF Sessions
  <2>. QED BY <1>3, <2>1, <2>2, SessionsTo
<1>6. CASE UNCHANGED <<sessions, squeue>>
  BY <1>6 DEF ToClient
<1>4. s.con \in BOOLEAN
  BY DEF Sessions
<1>5. \A autoAck \in AutoAcks : (s.con /\ autoAck) \in BOOLEAN
  BY <1>4, RequestsAssumption
<1>. QED BY <1>1, <1>2, <1>3, <1>5, <1>6 DEF Run

LEMMA ToClientRunAgain ==
  ASSUME Base, ToClient, NEW s \in sessions, NEW rest, RunAgain(s, rest)
  PROVE  ToClient'
<1>1. ASSUME NEW m \in s.last, NEW t \in InitialTimeouts,
             squeue' = Queued(squeue, m, t), UNCHANGED sessions
      PROVE  ToClient'
  BY <1>1, QueuedTo DEF ToClient
<1>2. CASE UNCHANGED squeue /\ sessions' = (sessions \ {s}) \cup {[s EXCEPT !.emptyAck = TRUE]}
  <2>1. s \in Sessions
    BY DEF Base, TypeOK
  <2>2. [s EXCEPT !.emptyAck = TRUE].last = s.last
    BY <2>1 DEF Sessions
  <2>. QED BY <1>2, <2>2, SessionsTo
<1>3. CASE UNCHANGED <<sessions, squeue>>
  BY <1>3 DEF ToClient
<1>. QED BY <1>1, <1>2, <1>3, RunAgainCases DEF RunsAgain

\* An endpoint that is given up leaves messages to the client behind, if any.
LEMMA ToClientOrphaned ==
  ASSUME Base, ToClient, NEW queue, queue \subseteq squeue, squeue' \in Orphaned(queue),
         sessions' \subseteq sessions
  PROVE  ToClient'
<1>1. queue \in SUBSET Entries /\ PacedQueue(queue)
  BY DEF Base, TypeOK, PacedQueue
<1>2. \A x \in squeue' : \E y \in squeue : x.msg = y.msg
  BY <1>1, OrphanedPaced
<1>. QED BY <1>2, SessionsTo

LEMMA ToClientServerReceive ==
  ASSUME Base, ToClient, NEW m \in Messages, NEW rest, ServerReceive(m, rest)
  PROVE  ToClient'
<1>1. CASE m.type = "ACK" /\ squeue' = Settled(squeue, m) /\ UNCHANGED sessions
  BY <1>1, SettledSubset, SessionsTo
<1>2. CASE Invalidate(Settled(squeue, m))
  BY <1>2, SettledSubset, ToClientOrphaned DEF Invalidate
<1>3. CASE (\E s \in sessions : s.mid = m.mid)
           /\ RunAgain(CHOOSE s \in sessions : s.mid = m.mid, rest)
  <2>1. (CHOOSE s \in sessions : s.mid = m.mid) \in sessions
    BY <1>3
  <2>. QED BY <1>3, <2>1, ToClientRunAgain
<1>4. CASE Run(Session(m), rest)
  <2>1. Session(m) \in Sessions /\ Session(m).last = {}
    BY SessionType DEF Session
  <2>. QED BY <1>4, <2>1, ToClientRun
<1>. QED BY <1>1, <1>2, <1>3, <1>4 DEF ServerReceive

LEMMA ToClientNext ==
  ASSUME Base, ToClient, [Next]_vars
  PROVE  ToClient'
<1>1. CASE UNCHANGED <<squeue, sessions>>
  BY <1>1 DEF ToClient
<1>2. ASSUME NEW d \in net, NEW rest, ServerReceive(d.msg, rest) PROVE ToClient'
  <2>1. d.msg \in Messages
    BY DEF Base, TypeOK, Datagrams
  <2>. QED BY <1>2, <2>1, ToClientServerReceive
<1>3. ASSUME NEW d \in net, Deliver(d) PROVE ToClient'
  BY <1>1, <1>2, <1>3 DEF Deliver, ClientReceive, ClientReceiveStray, serverVars
<1>4. ASSUME NEW e \in squeue, ServerResend(e) PROVE ToClient'
  <2>1. CASE Invalidate(squeue \ {e})
    BY <2>1, ToClientOrphaned DEF Invalidate
  <2>2. CASE squeue' = Resent(squeue, e) /\ UNCHANGED sessions
    <3>1. e \in Entries
      BY DEF Base, TypeOK
    <3>2. [e EXCEPT !.retry = @ + 1, !.interval = 2 * @, !.due = 2 * e.interval].msg = e.msg
      BY <3>1 DEF Entries
    <3>3. \A x \in squeue' : \E y \in squeue : x.msg = y.msg
      BY <2>2, <3>2 DEF Resent
    <3>. QED BY <2>2, <3>3, SessionsTo
  <2>. QED BY <1>4, <2>1, <2>2 DEF ServerResend
<1>5. ASSUME NEW s \in sessions, SessionSend(s) \/ SessionSendAck(s) \/ SessionEndObserve(s)
      PROVE  ToClient'
  <2>1. s \in Sessions
    BY DEF Base, TypeOK
  <2>2. CASE SessionSend(s)
    BY <2>1, <2>2, SendResponseTo DEF SessionSend, ToClient
  <2>3. [s EXCEPT !.emptyAck = TRUE].last = s.last
        /\ [s EXCEPT !.obs = FALSE, !.obsReq = FALSE].last = s.last
    BY <2>1 DEF Sessions
  <2>4. CASE SessionSendAck(s)
    BY <2>3, <2>4, SessionsTo DEF SessionSendAck
  <2>5. CASE SessionEndObserve(s)
    BY <2>3, <2>5, SessionsTo DEF SessionEndObserve
  <2>. QED BY <1>5, <2>2, <2>4, <2>5
<1>6. CASE PeriodicalCheck
  <2>1. sessions' \subseteq sessions /\ (squeue' = squeue \/ squeue' \in Orphaned(squeue))
    BY <1>6 DEF PeriodicalCheck
  <2>. QED BY <2>1, SessionsTo, ToClientOrphaned
<1>7. CASE Tick
  <2>1. \A e \in squeue : [e EXCEPT !.due = @ - 1, !.age = @ + 1].msg = e.msg
    BY DEF Base, TypeOK, Entries
  <2>2. \A s \in sessions : [s EXCEPT !.life = IF @ = 0 THEN 0 ELSE @ - 1].last = s.last
    BY DEF Base, TypeOK, Sessions
  <2>. QED BY <1>7, <2>1, <2>2, SessionsTo DEF Tick, Elapse
<1>8. ASSUME NEW r \in Requests, Send(r) \/ SendThrows(r) PROVE ToClient'
  BY <1>1, <1>8 DEF Send, SendThrows, serverVars
<1>9. ASSUME NEW e \in cqueue, ClientResend(e) \/ ClientResendFails(e) PROVE ToClient'
  BY <1>1, <1>9 DEF ClientResend, ClientResendFails, serverVars
<1>10. ASSUME NEW d \in net, PeerReset(d) PROVE ToClient'
  BY <1>1, <1>10 DEF PeerReset, serverVars
<1>11. CASE Resolved \/ ResolveError \/ \E k \in 1 .. Len(waiting) : ResolvedFails(k)
  BY <1>1, <1>11 DEF Resolved, ResolvedFails, ResolveError, serverVars
<1>12. CASE SessionDestructor \/ \E e \in squeue : ServerResendFails(e)
  BY <1>12, SessionsTo DEF SessionDestructor, ServerResendFails
<1>. QED BY <1>1, <1>3, <1>4, <1>5, <1>6, <1>7, <1>8, <1>9, <1>10, <1>11, <1>12
        DEF Next, vars, serverVars

\* A new session starts: the others stay, and it is kept when it is confirmable,
\* unless nothing could be sent.
LEMMA RunKeeps ==
  ASSUME NEW s \in Sessions, NEW rest, Run(s, rest)
  PROVE  /\ \A x \in sessions' : x \in sessions \/ SameExchange(x, s)
         /\ sessions \subseteq sessions'
         /\ s.con => forgotten' \/ \E x \in sessions' : SameExchange(x, s)
         /\ ~forgotten' => ~forgotten
         /\ \A d \in net' : Copy(d) => d \in rest
<1>. DEFINE Goal == /\ \A x \in sessions' : x \in sessions \/ SameExchange(x, s)
                    /\ sessions \subseteq sessions'
                    /\ s.con => forgotten' \/ \E x \in sessions' : SameExchange(x, s)
                    /\ ~forgotten' => ~forgotten
                    /\ \A d \in net' : Copy(d) => d \in rest
<1>1. ASSUME NEW accept \in {FALSE, s.obsReq},
             SendResponse([s EXCEPT !.obs = accept], sessions, rest), UNCHANGED forgotten
      PROVE  Goal
  <2>1. PICK y : y = [s EXCEPT !.obs = accept]
    OBVIOUS
  <2>2. y \in Sessions /\ SameExchange(y, s)
    BY <2>1 DEF Sessions, SameExchange
  <2>3. SendResponse(y, sessions, rest)
    BY <1>1, <2>1
  <2>4. /\ \A x \in sessions' : x \in sessions \/ SameExchange(x, y)
        /\ sessions \subseteq sessions'
        /\ y.con => \E x \in sessions' : SameExchange(x, y)
        /\ \A d \in net' : Copy(d) => d \in rest
    BY <2>2, <2>3, SendResponseKeeps
  <2>. QED BY <1>1, <2>2, <2>4 DEF SameExchange
<1>2. CASE SendResponse(s, sessions, rest) /\ UNCHANGED forgotten
  BY <1>2, SendResponseKeeps
<1>3. ASSUME NEW accept \in {FALSE, s.obsReq}, NEW autoAck \in AutoAcks,
             sessions' = sessions \cup {[s EXCEPT !.obs = accept, !.emptyAck = s.con /\ autoAck]},
             net' = IF s.con /\ autoAck
                    THEN rest \cup {Datagram(Message("client", "ACK", s.mid, s.req,
                                                     0, NoToken, FALSE))}
                    ELSE rest,
             UNCHANGED forgotten
      PROVE  Goal
  <2>1. PICK y : y = [s EXCEPT !.obs = accept, !.emptyAck = s.con /\ autoAck]
    OBVIOUS
  <2>2. SameExchange(y, s)
    BY <2>1 DEF Sessions, SameExchange
  <2>3. ~Copy(Datagram(Message("client", "ACK", s.mid, s.req, 0, NoToken, FALSE)))
    BY DEF Copy, Datagram, Message
  <2>4. sessions' = sessions \cup {y}
    BY <1>3, <2>1
  <2>5. \A d \in net' : Copy(d) => d \in rest
    BY <1>3, <2>3
  <2>. QED BY <1>3, <2>2, <2>4, <2>5
<1>4. CASE net' = rest /\ forgotten' = TRUE /\ UNCHANGED sessions
  BY <1>4
<1>. QED BY <1>1, <1>2, <1>3, <1>4 DEF Run

LEMMA KnownRun ==
  ASSUME Base, Known, NEW d \in net, Copy(d), NEW rest \in SUBSET net,
         Run(Session(d.msg), rest), ~ \E s \in sessions : s.mid = d.msg.mid,
         UNCHANGED clientVars
  PROVE  Known'
<1>. DEFINE m == d.msg
<1>1. m \in Messages /\ d.ttl \in 0 .. MaxLatency
  BY DEF Base, TypeOK, Datagrams
<1>2. PICK s : s = Session(m)
  OBVIOUS
<1>3. s \in Sessions /\ s.mid = m.mid /\ s.req = m.req /\ s.con = (m.type = "CON")
      /\ s.life = ExchangeLifetime
  BY <1>1, <1>2, SessionType DEF Session
<1>4. /\ \A x \in sessions' : x \in sessions \/ SameExchange(x, s)
      /\ sessions \subseteq sessions'
      /\ s.con => forgotten' \/ \E x \in sessions' : SameExchange(x, s)
      /\ ~forgotten' => ~forgotten
      /\ \A y \in net' : Copy(y) => y \in net
  BY <1>2, <1>3, RunKeeps
<1>5. UNCHANGED <<mid, waiting, cqueue>>
  BY DEF clientVars
<1>6. s.mid = mid[s.req] /\ (s.con <=> s.req \in Confirmable) /\ s.req \in Requests
  <2>1. m.mid = mid[m.req] /\ (m.type = "CON" <=> m.req \in Confirmable)
    BY DEF Known, OwnNet
  <2>2. m.req \in Requests
    BY <1>1 DEF Messages
  <2>3. s.mid = mid[s.req] /\ s.req \in Requests
    BY <1>3, <2>1, <2>2
  <2>4. s.con <=> s.req \in Confirmable
    BY <1>3, <2>1
  <2>. QED BY <2>3, <2>4
<1>7. runs' = [runs EXCEPT ![s.req] = IF @ = 0 THEN 1 ELSE 2]
  BY <1>2 DEF Run
<1>8. \A x \in sessions : x.req # s.req
  BY <1>3, <1>6 DEF Known, OwnSessions
<1>9. s.con /\ ~forgotten => runs[s.req] = 0
  <2>1. runs[s.req] \in 0 .. 2
    BY <1>6 DEF Base, TypeOK
  <2>. QED BY <1>3, <1>6, <1>8, <2>1 DEF Known, Remembered
<1>10. OwnQueue'
  BY <1>5 DEF Known, OwnQueue
<1>11. OwnNet'
  BY <1>4, <1>5 DEF Known, OwnNet, Copy
<1>12. OwnSessions'
  BY <1>4, <1>5, <1>6 DEF Known, OwnSessions, SameExchange
<1>13. Outlives'
  <2>1. SUFFICES ASSUME NEW x \in sessions', x.con
                 PROVE  /\ \A y \in net : Copy(y) /\ y.msg.req = x.req => y.ttl < x.life
                        /\ \A e \in cqueue : e.msg.req = x.req => x.life + e.age >= ExchangeLifetime
    BY <1>4, <1>5 DEF Outlives, Copy
  <2>2. CASE x \in sessions
    BY <2>1, <2>2 DEF Known, Outlives
  <2>3. CASE SameExchange(x, s)
    <3>1. x.life = ExchangeLifetime
      BY <1>3, <2>3 DEF SameExchange
    <3>2. \A y \in net : y.ttl \in 0 .. MaxLatency
      BY DEF Base, TypeOK, Datagrams
    <3>3. \A e \in cqueue : e.age \in Nat
      BY DEF Base, TypeOK, Entries
    <3>4. ExchangeLifetime \in Nat /\ ExchangeLifetime > MaxLatency
      BY SpanType, TimeAssumption DEF ExchangeLifetime, ProcessingDelay
    <3>. QED BY <3>1, <3>2, <3>3, <3>4, TimeAssumption
  <2>. QED BY <1>4, <2>2, <2>3
<1>14. FreshUnstarted'
  <2>1. SUFFICES ASSUME NEW r \in Requests, Unstarted(r)
                 PROVE  /\ runs'[r] = 0
                        /\ \A y \in net' : Copy(y) => y.msg.req # r
                        /\ \A x \in sessions' : x.req # r
                        /\ \A e \in cqueue : e.msg.req # r
    BY <1>5 DEF FreshUnstarted, Unstarted, Copy
  <2>2. r # s.req
    BY <1>3, <2>1 DEF Known, FreshUnstarted
  <2>3. runs'[r] = runs[r]
    BY <1>7, <2>2 DEF Base, TypeOK
  <2>. QED BY <1>4, <2>1, <2>2, <2>3 DEF Known, FreshUnstarted, SameExchange
<1>15. Remembered'
  <2>1. SUFFICES ASSUME ~forgotten', NEW r \in Confirmable, runs'[r] > 0
                 PROVE  \/ \E x \in sessions' : x.req = r
                        \/ /\ \A y \in net' : Copy(y) => y.msg.req # r
                           /\ \A e \in cqueue : e.msg.req # r
    BY <1>5 DEF Remembered, Copy
  <2>2. CASE r = s.req
    BY <1>4, <1>6, <2>1, <2>2 DEF SameExchange
  <2>3. CASE r # s.req
    <3>1. runs'[r] = runs[r]
      BY <1>7, <2>3, RequestsAssumption DEF Base, TypeOK
    <3>. QED BY <1>4, <2>1, <3>1 DEF Known, Remembered
  <2>. QED BY <2>2, <2>3
<1>16. RunOnce'
  <2>1. SUFFICES ASSUME ~forgotten', NEW r \in Confirmable PROVE runs'[r] <= 1
    BY DEF RunOnce
  <2>2. r \in Requests
    BY RequestsAssumption
  <2>3. CASE r = s.req
    <3>1. runs'[r] = 1
      BY <1>4, <1>6, <1>7, <1>9, <2>1, <2>2, <2>3 DEF Base, TypeOK
    <3>. QED BY <3>1
  <2>4. CASE r # s.req
    <3>1. runs'[r] = runs[r]
      BY <1>7, <2>2, <2>4 DEF Base, TypeOK
    <3>. QED BY <1>4, <2>1, <3>1 DEF Known, RunOnce
  <2>. QED BY <2>3, <2>4
<1>. QED BY <1>10, <1>11, <1>12, <1>13, <1>14, <1>15, <1>16 DEF Known

LEMMA KnownRunAgain ==
  ASSUME Base, Known, ToClient, NEW s \in sessions, NEW rest \in SUBSET net,
         RunAgain(s, rest), UNCHANGED clientVars
  PROVE  Known'
<1>1. s \in Sessions /\ UNCHANGED <<runs, forgotten>>
  BY RunAgainCases DEF Base, TypeOK
<1>2. ASSUME NEW m \in s.last, net' = rest \cup {Datagram(m)}, UNCHANGED sessions
      PROVE  Known'
  <2>1. ~Copy(Datagram(m))
    BY DEF ToClient, Copy, Datagram
  <2>2. Quiet
    BY <1>1, <1>2, <2>1 DEF Quiet, clientVars, SameExchange
  <2>. QED BY <2>2, QuietKnown
<1>3. CASE /\ sessions' = (sessions \ {s}) \cup {[s EXCEPT !.emptyAck = TRUE]}
           /\ net' = rest \cup {Datagram(EmptyAck(s))}
  <2>1. PICK x : x = [s EXCEPT !.emptyAck = TRUE]
    OBVIOUS
  <2>2. SameExchange(x, s)
    BY <1>1, <2>1 DEF SameExchange, Sessions
  <2>3. sessions' = (sessions \ {s}) \cup {x}
    BY <1>3, <2>1
  <2>4. Quiet
    BY <1>1, <1>3, <2>2, <2>3, NoCopy DEF Quiet, clientVars, SameExchange
  <2>. QED BY <2>4, QuietKnown
<1>4. CASE net' = rest /\ UNCHANGED sessions
  <2>1. Quiet
    BY <1>1, <1>4 DEF Quiet, clientVars, SameExchange
  <2>. QED BY <2>1, QuietKnown
<1>. QED BY <1>2, <1>3, <1>4, RunAgainCases DEF RunsAgain

LEMMA KnownDeliver ==
  ASSUME Base, Known, ToClient, NEW d \in net, Deliver(d)
  PROVE  Known'
<1>1. PICK rest \in SUBSET net :
        \/ (\E i \in Matching(d.msg) : ClientReceive(d.msg, rest, i))
           \/ ClientReceiveStray(d.msg, rest)
        \/ d.msg.to = "server" /\ ServerReceive(d.msg, rest)
  BY DEF Deliver
<1>2. CASE d.msg.to = "server" /\ ServerReceive(d.msg, rest)
  <2>1. UNCHANGED clientVars
    BY <1>2 DEF ServerReceive
  <2>2. CASE net' = rest /\ sessions' = sessions /\ UNCHANGED <<runs, forgotten>>
    <3>1. Quiet
      BY <2>1, <2>2 DEF Quiet, clientVars, SameExchange
    <3>. QED BY <3>1, QuietKnown
  <2>3. CASE net' = rest /\ Invalidate(Settled(squeue, d.msg)) /\ UNCHANGED runs
    <3>1. Quiet
      BY <2>1, <2>3 DEF Quiet, Invalidate, clientVars, SameExchange
    <3>. QED BY <3>1, QuietKnown
  <2>4. CASE /\ d.msg.type \in {"CON", "NON"}
             /\ \E s \in sessions : s.mid = d.msg.mid
             /\ RunAgain(CHOOSE s \in sessions : s.mid = d.msg.mid, rest)
    <3>1. (CHOOSE s \in sessions : s.mid = d.msg.mid) \in sessions
      BY <2>4
    <3>. QED BY <2>1, <2>4, <3>1, KnownRunAgain
  <2>5. CASE /\ d.msg.type \in {"CON", "NON"}
             /\ ~ \E s \in sessions : s.mid = d.msg.mid
             /\ Run(Session(d.msg), rest)
    <3>1. Copy(d)
      BY <1>2, <2>5 DEF Copy
    <3>. QED BY <2>1, <2>5, <3>1, KnownRun
  <2>. QED BY <1>2, <2>2, <2>3, <2>4, <2>5 DEF ServerReceive
<1>. QED BY <1>1, <1>2, KnownClientReceive

\* The requests in S, unknown to the server so far, are sent.
LEMMA KnownStart ==
  ASSUME Base, Known, NEW S \in SUBSET Requests, \A r \in S : Unstarted(r),
         \A r \in Requests : mid[r] = NoId \/ mid'[r] = mid[r],
         \A r \in Requests : Unstarted(r)' => Unstarted(r) /\ r \notin S,
         \A x \in cqueue' : x \in cqueue \/
           /\ x.msg.req \in S \cap Confirmable /\ x.msg.to = "server"
           /\ x.msg.type = "CON" /\ x.msg.mid = mid'[x.msg.req],
         \A d \in net' : Copy(d) => d \in net \/
           /\ d.msg.req \in S /\ d.msg.mid = mid'[d.msg.req]
           /\ (d.msg.type = "CON" <=> d.msg.req \in Confirmable),
         UNCHANGED serverVars
  PROVE  Known'
<1>1. UNCHANGED <<sessions, runs, forgotten>>
  BY DEF serverVars
<1>2. \A e \in cqueue : e.msg.req \in Requests /\ ~Unstarted(e.msg.req)
  BY DEF Base, TypeOK, Entries, Messages, Known, FreshUnstarted
<1>3. \A d \in net : Copy(d) => d.msg.req \in Requests /\ ~Unstarted(d.msg.req)
  BY DEF Base, TypeOK, Datagrams, Messages, Known, FreshUnstarted
<1>4. \A s \in sessions : s.req \in Requests /\ ~Unstarted(s.req)
  BY DEF Base, TypeOK, Sessions, Known, FreshUnstarted
<1>5. \A r \in Requests : ~Unstarted(r) => mid'[r] = mid[r]
  BY DEF Unstarted
<1>6. OwnQueue'
  BY <1>2, <1>5 DEF Known, OwnQueue
<1>7. OwnNet'
  BY <1>3, <1>5 DEF Known, OwnNet, Copy
<1>8. OwnSessions'
  BY <1>1, <1>4, <1>5 DEF Known, OwnSessions
<1>9. Outlives'
  <2>1. SUFFICES ASSUME NEW s \in sessions, s.con
                 PROVE  /\ \A d \in net' : Copy(d) /\ d.msg.req = s.req => d.ttl < s.life
                        /\ \A e \in cqueue' : e.msg.req = s.req => s.life + e.age >= ExchangeLifetime
    BY <1>1 DEF Outlives, Copy
  <2>2. s.req \notin S
    BY <1>4
  <2>. QED BY <2>1, <2>2 DEF Known, Outlives
<1>10. FreshUnstarted'
  <2>1. SUFFICES ASSUME NEW r \in Requests, Unstarted(r), r \notin S
                 PROVE  /\ runs[r] = 0
                        /\ \A d \in net' : Copy(d) => d.msg.req # r
                        /\ \A s \in sessions : s.req # r
                        /\ \A e \in cqueue' : e.msg.req # r
    BY <1>1 DEF FreshUnstarted, Copy
  <2>. QED BY <2>1 DEF Known, FreshUnstarted
<1>11. Remembered'
  <2>1. SUFFICES ASSUME ~forgotten, NEW r \in Confirmable, runs[r] > 0
                 PROVE  \/ \E s \in sessions : s.req = r
                        \/ /\ \A d \in net' : Copy(d) => d.msg.req # r
                           /\ \A e \in cqueue' : e.msg.req # r
    BY <1>1 DEF Remembered, Copy
  <2>2. r \notin S
    BY <2>1 DEF Known, FreshUnstarted
  <2>. QED BY <2>1, <2>2 DEF Known, Remembered
<1>12. RunOnce'
  BY <1>1 DEF Known, RunOnce
<1>. QED BY <1>6, <1>7, <1>8, <1>9, <1>10, <1>11, <1>12 DEF Known

\* What Transmit adds to the queue and to the network.
LEMMA TransmitAdds ==
  ASSUME NEW rs \in Seq(Requests), NEW reachable, Transmit(rs, reachable)
  PROVE  LET S == {rs[i] : i \in 1 .. Len(rs)} IN
         /\ \A x \in cqueue' : x \in cqueue \/
              /\ x.msg.req \in S \cap Confirmable /\ x.msg.to = "server"
              /\ x.msg.type = "CON" /\ x.msg.mid = mid'[x.msg.req]
         /\ \A d \in net' : Copy(d) => d \in net \/
              /\ d.msg.req \in S /\ d.msg.mid = mid'[d.msg.req]
              /\ (d.msg.type = "CON" <=> d.msg.req \in Confirmable)
<1>. DEFINE S == {rs[i] : i \in 1 .. Len(rs)}
<1>1. \A r : LET m == RequestMessage(r)' IN
        /\ m.req = r /\ m.to = "server" /\ m.mid = mid'[r]
        /\ m.type = IF r \in Confirmable THEN "CON" ELSE "NON"
  BY DEF RequestMessage, Message
<1>2. PICK t \in [S \cap Confirmable -> InitialTimeouts] :
        cqueue' = cqueue \cup {Entry(RequestMessage(r)', t[r]) : r \in S \cap Confirmable}
  BY DEF Transmit
<1>3. \A r : Entry(RequestMessage(r)', t[r]).msg = RequestMessage(r)'
  BY DEF Entry
<1>4. \A x \in cqueue' : x \in cqueue \/
        /\ x.msg.req \in S \cap Confirmable /\ x.msg.to = "server"
        /\ x.msg.type = "CON" /\ x.msg.mid = mid'[x.msg.req]
  BY <1>1, <1>2, <1>3
<1>5. net' \subseteq net \cup {Datagram(RequestMessage(r)') : r \in S}
  BY DEF Transmit
<1>6. \A r : Datagram(RequestMessage(r)').msg = RequestMessage(r)'
  BY DEF Datagram
<1>7. \A d \in net' : Copy(d) => d \in net \/
        /\ d.msg.req \in S /\ d.msg.mid = mid'[d.msg.req]
        /\ (d.msg.type = "CON" <=> d.msg.req \in Confirmable)
  BY <1>1, <1>5, <1>6
<1>. QED BY <1>4, <1>7

LEMMA KnownSend ==
  ASSUME Base, Known, NEW r \in Requests, Send(r)
  PROVE  Known'
<1>1. /\ mid[r] = NoId /\ mid' = [mid EXCEPT ![r] = GenerateMessageId(nextId)]
      /\ UNCHANGED serverVars
  BY DEF Send
<1>2. mid \in [Requests -> NoId .. IdModulus - 1]
  BY DEF Base, TypeOK
<1>3. GenerateMessageId(nextId) # NoId
  BY GeneratedId DEF Base, TypeOK, Ids, NoId
<1>4. \A x \in Requests : mid[x] = NoId \/ mid'[x] = mid[x]
  BY <1>1, <1>2
<1>5. Unstarted(r)
  BY <1>1 DEF Unstarted
<1>6. waiting \in Seq(Requests)
  BY DEF Base, TypeOK
<1>7. CASE resolver \in {"none", "pending"}
  <2>1. waiting' = Append(waiting, r) /\ UNCHANGED <<cqueue, net>>
    BY <1>7 DEF Send
  <2>2. \A i \in 1 .. Len(waiting') : waiting'[i] = r \/ \E j \in 1 .. Len(waiting) : waiting'[i] = waiting[j]
    BY <1>6, <2>1
  <2>3. \A x \in Requests : Unstarted(x)' => Unstarted(x)
    BY <1>1, <1>2, <1>5, <2>2 DEF Unstarted
  <2>. QED BY <1>1, <1>4, <2>1, <2>3, KnownStart, {} \in SUBSET Requests
<1>8. CASE resolver \notin {"none", "pending"}
  <2>1. Transmit(<<r>>, resolver = "resolved") /\ UNCHANGED waiting
    BY <1>8 DEF Send
  <2>2. {<<r>>[i] : i \in 1 .. Len(<<r>>)} = {r} /\ <<r>> \in Seq(Requests)
    OBVIOUS
  <2>3. \A x \in Requests : Unstarted(x)' => Unstarted(x) /\ x # r
    BY <1>1, <1>2, <1>3, <2>1 DEF Unstarted, Base, WaitingNumbered
  <2>4. /\ \A x \in cqueue' : x \in cqueue \/
             /\ x.msg.req \in {r} \cap Confirmable /\ x.msg.to = "server"
             /\ x.msg.type = "CON" /\ x.msg.mid = mid'[x.msg.req]
        /\ \A d \in net' : Copy(d) => d \in net \/
             /\ d.msg.req \in {r} /\ d.msg.mid = mid'[d.msg.req]
             /\ (d.msg.type = "CON" <=> d.msg.req \in Confirmable)
    BY <2>1, <2>2, TransmitAdds
  <2>. QED BY <1>1, <1>4, <1>5, <2>3, <2>4, KnownStart, {r} \in SUBSET Requests
<1>. QED BY <1>7, <1>8

LEMMA KnownResolved ==
  ASSUME Base, Known, Resolved
  PROVE  Known'
<1>. DEFINE S == {waiting[i] : i \in 1 .. Len(waiting)}
<1>1. UNCHANGED <<mid, serverVars>> /\ waiting' = << >> /\ Transmit(waiting, TRUE)
  BY DEF Resolved
<1>2. waiting \in Seq(Requests) /\ S \in SUBSET Requests
  BY DEF Base, TypeOK
<1>3. \A r \in S : Unstarted(r)
  BY DEF Unstarted
<1>4. \A r \in Requests : Unstarted(r)' => Unstarted(r) /\ r \notin S
  BY <1>1 DEF Unstarted, Base, WaitingNumbered
<1>5. /\ \A x \in cqueue' : x \in cqueue \/
           /\ x.msg.req \in S \cap Confirmable /\ x.msg.to = "server"
           /\ x.msg.type = "CON" /\ x.msg.mid = mid'[x.msg.req]
      /\ \A d \in net' : Copy(d) => d \in net \/
           /\ d.msg.req \in S /\ d.msg.mid = mid'[d.msg.req]
           /\ (d.msg.type = "CON" <=> d.msg.req \in Confirmable)
  BY <1>1, <1>2, TransmitAdds
<1>. HIDE DEF S
<1>. QED BY <1>1, <1>2, <1>3, <1>4, <1>5, KnownStart

LEMMA KnownSendThrows ==
  ASSUME Base, Known, NEW r \in Requests, SendThrows(r)
  PROVE  Known'
<1>1. /\ mid[r] = NoId /\ mid' = [mid EXCEPT ![r] = GenerateMessageId(nextId)]
      /\ UNCHANGED <<waiting, cqueue, net, serverVars>>
  BY DEF SendThrows
<1>2. mid \in [Requests -> NoId .. IdModulus - 1]
  BY DEF Base, TypeOK
<1>3. \A x \in Requests : mid[x] = NoId \/ mid'[x] = mid[x]
  BY <1>1, <1>2
<1>4. \A x \in Requests : Unstarted(x)' => Unstarted(x)
  BY <1>1, <1>2 DEF Unstarted
<1>. QED BY <1>1, <1>3, <1>4, KnownStart, {} \in SUBSET Requests

LEMMA KnownResolvedFails ==
  ASSUME Base, Known, NEW k \in 1 .. Len(waiting), ResolvedFails(k)
  PROVE  Known'
<1>. DEFINE rs == SubSeq(waiting, 1, k - 1)
            S == {rs[i] : i \in 1 .. Len(rs)}
<1>1. UNCHANGED <<mid, serverVars>> /\ waiting' = << >> /\ Transmit(rs, TRUE)
  BY DEF ResolvedFails
<1>2. /\ waiting \in Seq(Requests) /\ rs \in Seq(Requests)
      /\ \A i \in 1 .. Len(rs) : i \in 1 .. Len(waiting) /\ rs[i] = waiting[i]
  BY Before DEF Base, TypeOK
<1>. HIDE DEF rs
<1>3. S \in SUBSET Requests /\ \A r \in S : Unstarted(r)
  BY <1>2 DEF Unstarted
<1>4. \A r \in Requests : Unstarted(r)' => Unstarted(r) /\ r \notin S
  BY <1>1, <1>2 DEF Unstarted, Base, WaitingNumbered
<1>5. /\ \A x \in cqueue' : x \in cqueue \/
           /\ x.msg.req \in S \cap Confirmable /\ x.msg.to = "server"
           /\ x.msg.type = "CON" /\ x.msg.mid = mid'[x.msg.req]
      /\ \A d \in net' : Copy(d) => d \in net \/
           /\ d.msg.req \in S /\ d.msg.mid = mid'[d.msg.req]
           /\ (d.msg.type = "CON" <=> d.msg.req \in Confirmable)
  BY <1>1, <1>2, TransmitAdds
<1>. HIDE DEF S
<1>. QED BY <1>1, <1>3, <1>4, <1>5, KnownStart

LEMMA KnownClientResend ==
  ASSUME Base, Known, NEW e \in cqueue, ClientResend(e)
  PROVE  Known'
<1>1. /\ cqueue' = Resent(cqueue, e) /\ net' \subseteq net \cup {Datagram(e.msg)}
      /\ UNCHANGED <<mid, waiting, sessions, runs, forgotten>>
  BY DEF ClientResend, serverVars
<1>2. e \in Entries
  BY DEF Base, TypeOK
<1>3. [e EXCEPT !.retry = @ + 1, !.interval = 2 * @, !.due = 2 * e.interval].msg = e.msg
      /\ [e EXCEPT !.retry = @ + 1, !.interval = 2 * @, !.due = 2 * e.interval].age = e.age
  BY <1>2 DEF Entries
<1>4. \A x \in cqueue' : \E y \in cqueue : x.msg = y.msg /\ x.age = y.age
  BY <1>1, <1>3 DEF Resent
<1>5. \A d \in net' : d \in net \/ (d.msg = e.msg /\ d.ttl = MaxLatency)
  BY <1>1 DEF Datagram
<1>6. OwnQueue'
  BY <1>1, <1>4 DEF Known, OwnQueue
<1>7. OwnNet'
  BY <1>1, <1>5 DEF Known, OwnNet, OwnQueue, Copy
<1>8. OwnSessions'
  BY <1>1 DEF Known, OwnSessions
<1>9. Outlives'
  <2>1. SUFFICES ASSUME NEW s \in sessions, s.con
                 PROVE  /\ \A d \in net' : Copy(d) /\ d.msg.req = s.req => d.ttl < s.life
                        /\ \A x \in cqueue' : x.msg.req = s.req => s.life + x.age >= ExchangeLifetime
    BY <1>1 DEF Outlives, Copy
  <2>2. ASSUME e.msg.req = s.req PROVE MaxLatency < s.life
    <3>1. s.life + e.age >= ExchangeLifetime
      BY <2>1, <2>2 DEF Known, Outlives
    <3>2. e.age <= MaxTransmitSpan
      BY <1>2, PacedSpan DEF Base, PacedQueue
    <3>3. s.life \in Nat /\ e.age \in Nat
      BY <1>2 DEF Base, TypeOK, Sessions, Entries
    <3>. QED BY <3>1, <3>2, <3>3, SpanType, TimeAssumption DEF ExchangeLifetime, ProcessingDelay
  <2>3. \A d \in net' : Copy(d) /\ d.msg.req = s.req => d.ttl < s.life
    BY <1>5, <2>1, <2>2 DEF Known, Outlives
  <2>4. \A x \in cqueue' : x.msg.req = s.req => s.life + x.age >= ExchangeLifetime
    BY <1>4, <2>1 DEF Known, Outlives
  <2>. QED BY <2>3, <2>4
<1>10. FreshUnstarted'
  BY <1>1, <1>4, <1>5 DEF Known, FreshUnstarted, Unstarted, Copy
<1>11. Remembered'
  BY <1>1, <1>4, <1>5 DEF Known, Remembered, Copy
<1>12. RunOnce'
  BY <1>1 DEF Known, RunOnce
<1>. QED BY <1>6, <1>7, <1>8, <1>9, <1>10, <1>11, <1>12 DEF Known

LEMMA KnownPeriodicalCheck ==
  ASSUME Base, Known, PeriodicalCheck
  PROVE  Known'
<1>1. sessions' = {s \in sessions : s.obs \/ s.life > 0}
      /\ UNCHANGED <<mid, waiting, cqueue, net, runs, forgotten>>
  BY DEF PeriodicalCheck, clientVars
<1>2. OwnQueue' /\ OwnNet' /\ OwnSessions' /\ Outlives' /\ FreshUnstarted' /\ RunOnce'
  BY <1>1 DEF Known, OwnQueue, OwnNet, OwnSessions, Outlives, FreshUnstarted, Unstarted,
              RunOnce, Copy
<1>3. Remembered'
  <2>1. SUFFICES ASSUME ~forgotten, NEW r \in Confirmable, runs[r] > 0,
                        NEW s \in sessions, s.req = r, s \notin sessions'
                 PROVE  /\ \A d \in net : Copy(d) => d.msg.req # r
                        /\ \A e \in cqueue : e.msg.req # r
    BY <1>1 DEF Known, Remembered, Copy
  <2>2. s.con /\ s.life = 0
    BY <1>1, <2>1 DEF Known, OwnSessions, Base, TypeOK, Sessions
  <2>4. \A e \in cqueue : e.age <= MaxTransmitSpan /\ e.age \in Nat
    BY PacedSpan DEF Base, TypeOK, PacedQueue, Entries
  <2>5. MaxTransmitSpan < ExchangeLifetime
    BY SpanType, TimeAssumption DEF ExchangeLifetime, ProcessingDelay
  <2>6. \A d \in net : Copy(d) => d.msg.req # r
    <3>1. ASSUME NEW d \in net, Copy(d), d.msg.req = r PROVE FALSE
      <4>1. d.ttl < 0
        BY <2>1, <2>2, <3>1 DEF Known, Outlives
      <4>2. d.ttl \in Nat
        BY TimeAssumption DEF Base, TypeOK, Datagrams
      <4>. QED BY <4>1, <4>2
    <3>. QED BY <3>1
  <2>7. ASSUME NEW e \in cqueue, e.msg.req = r PROVE FALSE
    <3>1. 0 + e.age >= ExchangeLifetime
      BY <2>1, <2>2, <2>7 DEF Known, Outlives
    <3>. QED BY <2>4, <2>5, <3>1, SpanType, TimeAssumption DEF ExchangeLifetime, ProcessingDelay
  <2>. QED BY <2>6, <2>7
<1>. QED BY <1>2, <1>3 DEF Known

LEMMA KnownTick ==
  ASSUME Base, Known, Tick
  PROVE  Known'
<1>1. UNCHANGED <<mid, waiting, runs, forgotten>>
  BY DEF Tick
<1>2. \A x \in cqueue' : \E y \in cqueue : x.msg = y.msg /\ x.age = y.age + 1
  <2>1. \A e \in cqueue : [e EXCEPT !.due = @ - 1, !.age = @ + 1].msg = e.msg
                          /\ [e EXCEPT !.due = @ - 1, !.age = @ + 1].age = e.age + 1
    BY DEF Base, TypeOK, Entries
  <2>. QED BY <2>1 DEF Tick, Elapse
<1>3. \A x \in net' : \E y \in net : x.msg = y.msg /\ x.ttl = y.ttl - 1
  <2>1. \A d \in net : [d EXCEPT !.ttl = @ - 1].msg = d.msg
                       /\ [d EXCEPT !.ttl = @ - 1].ttl = d.ttl - 1
    BY DEF Base, TypeOK, Datagrams
  <2>. QED BY <2>1 DEF Tick
<1>. DEFINE Older(x, y) == /\ x.mid = y.mid /\ x.req = y.req /\ x.con = y.con
                           /\ x.life = IF y.life = 0 THEN 0 ELSE y.life - 1
<1>4. (\A x \in sessions' : \E y \in sessions : Older(x, y))
      /\ (\A y \in sessions : \E x \in sessions' : Older(x, y))
  <2>1. \A s \in sessions : Older([s EXCEPT !.life = IF @ = 0 THEN 0 ELSE @ - 1], s)
    BY DEF Base, TypeOK, Sessions
  <2>. QED BY <2>1 DEF Tick
<1>6. OwnQueue'
  BY <1>1, <1>2 DEF Known, OwnQueue
<1>7. OwnNet'
  BY <1>1, <1>3 DEF Known, OwnNet, Copy
<1>8. OwnSessions'
  BY <1>1, <1>4 DEF Known, OwnSessions
<1>9. Outlives'
  <2>1. SUFFICES ASSUME NEW x \in sessions', x.con
                 PROVE  /\ \A d \in net' : Copy(d) /\ d.msg.req = x.req => d.ttl < x.life
                        /\ \A e \in cqueue' : e.msg.req = x.req => x.life + e.age >= ExchangeLifetime
    BY DEF Outlives, Copy
  <2>2. PICK s \in sessions : Older(x, s)
    BY <1>4
  <2>3. s.life \in Nat /\ s.con /\ s.req = x.req
    BY <2>1, <2>2 DEF Base, TypeOK, Sessions
  <2>4. ASSUME NEW d \in net', Copy(d), d.msg.req = x.req PROVE d.ttl < x.life
    <3>1. PICK y \in net : d.msg = y.msg /\ d.ttl = y.ttl - 1
      BY <1>3
    <3>2. y.ttl < s.life /\ y.ttl \in Nat
      BY <2>3, <2>4, <3>1, TimeAssumption DEF Known, Outlives, Copy, Base, TypeOK, Datagrams
    <3>. QED BY <2>2, <2>3, <3>1, <3>2
  <2>5. ASSUME NEW e \in cqueue', e.msg.req = x.req PROVE x.life + e.age >= ExchangeLifetime
    <3>1. PICK y \in cqueue : e.msg = y.msg /\ e.age = y.age + 1
      BY <1>2
    <3>2. s.life + y.age >= ExchangeLifetime /\ y.age \in Nat
      BY <2>3, <2>5, <3>1 DEF Known, Outlives, Base, TypeOK, Entries
    <3>3. ExchangeLifetime \in Nat
      BY SpanType, TimeAssumption DEF ExchangeLifetime, ProcessingDelay
    <3>. QED BY <2>2, <2>3, <3>1, <3>2, <3>3
  <2>. QED BY <2>4, <2>5
<1>10. FreshUnstarted'
  BY <1>1, <1>2, <1>3, <1>4 DEF Known, FreshUnstarted, Unstarted, Copy
<1>11. Remembered'
  BY <1>1, <1>2, <1>3, <1>4 DEF Known, Remembered, Copy
<1>12. RunOnce'
  BY <1>1 DEF Known, RunOnce
<1>. QED BY <1>6, <1>7, <1>8, <1>9, <1>10, <1>11, <1>12 DEF Known

LEMMA KnownInit ==
  ASSUME Init
  PROVE  Known /\ ToClient
<1>1. \A r \in Confirmable : runs[r] = 0
  BY RequestsAssumption DEF Init
<1>2. OwnQueue /\ OwnNet /\ OwnSessions /\ Outlives /\ FreshUnstarted /\ ToClient
  BY DEF Init, OwnQueue, OwnNet, OwnSessions, Outlives, FreshUnstarted, ToClient
<1>3. Remembered /\ RunOnce
  BY <1>1 DEF Remembered, RunOnce
<1>. QED BY <1>2, <1>3 DEF Known

LEMMA KnownNext ==
  ASSUME Base, Known, ToClient, [Next]_vars
  PROVE  Known'
<1>1. CASE UNCHANGED vars
  <2>1. Quiet
    BY <1>1 DEF vars, clientVars, serverVars, Quiet, SameExchange
  <2>. QED BY <2>1, QuietKnown
<1>2. ASSUME NEW e \in squeue, ServerResend(e) PROVE Known'
  BY <1>2, KnownServerResend DEF ToClient
<1>. QED BY <1>1, <1>2, KnownSend, KnownSendThrows, KnownResolved, KnownResolvedFails,
            KnownResolveError, KnownDeliver, KnownPeerReset, KnownClientResend, KnownDrops,
            KnownSession, KnownPeriodicalCheck, KnownTick
         DEF Next

\* However often a confirmable request is retransmitted, duplicated or delayed,
\* KprCoAPServerHandleRequest runs its resource callback once, unless the server
\* invalidated the endpoint in between, or could send neither the answer nor the
\* acknowledgement: for every timeout, latency, number of retransmissions and of
\* duplicates, whatever other sends fail.  The session the callback ran in
\* outlives every copy of the request that is under way or may still be sent.
THEOREM RunsOnce == Spec => []RunOnce
<1>1. Init => Base /\ Known /\ ToClient
  BY BaseInit, KnownInit
<1>2. Base /\ Known /\ ToClient /\ [Next]_vars => (Base /\ Known /\ ToClient)'
  BY BaseNext, KnownNext, ToClientNext
<1>3. Known => RunOnce
  BY DEF Known
<1>. QED BY <1>1, <1>2, <1>3, PTL DEF Spec

-----------------------------------------------------------------------------
(* Answers reach the request they were made for.  The ids of a client are     *)
(* different as long as it sends fewer requests than there are ids from the   *)
(* random one up; tokens tell requests apart when the script sets them, and   *)
(* are not needed when every answer is an acknowledgement.                    *)

IdsSuffice ==
  /\ IsFiniteSet(Requests)
  /\ FirstId > 0
  /\ FirstId + Cardinality(Requests) < IdModulus

\* Callbacks answer at once, the server's sends succeed, and there is one answer
\* to a request.
Prompt == Observe = {} /\ "later" \notin Replies /\ "server" \notin SendFails

Immediate == Confirmable = Requests /\ Prompt

\* The ids in use are the ones the client has counted, one for each request.
Taken == {r \in Requests : mid[r] # NoId}

Numbered ==
  /\ nextId = FirstId + Cardinality(Taken)
  /\ \A r \in Taken : FirstId <= mid[r] /\ mid[r] < nextId
  /\ \A q, r \in Taken : mid[q] = mid[r] => q = r

Labelled ==
  /\ TokenMode = "own" => \A r \in Requests : tok[r] = r
  /\ TokenMode = "none" => \A r \in Requests : tok[r] = NoToken

\* A message says what is so: an acknowledgement has the id of a request that
\* was run, a request and a response have the token of the request.
Right(m) ==
  /\ m.to = "client" /\ m.type = "ACK" => m.mid = mid[m.req] /\ runs[m.req] > 0
  /\ m.to = "client" /\ m.type = "RST" => m.n = 0
  /\ TokenMode = "own" /\ m.type \in {"CON", "NON"} => m.tok = m.req
  /\ m.to = "server" /\ m.type \in {"CON", "NON"} /\ m.obs => m.req \in Observe
  /\ Immediate /\ m.to = "client" => m.type \in {"ACK", "RST"}

RightSession(s) ==
  /\ runs[s.req] > 0
  /\ TokenMode = "own" => s.tok = s.req
  /\ Immediate => s.list = "finished" /\ ~s.obs
  /\ \A m \in s.last : Right(m)

Honest ==
  /\ \A d \in net : Right(d.msg)
  /\ \A e \in cqueue \cup squeue : Right(e.msg)
  /\ \A s \in sessions : RightSession(s)

\* A step numbers new requests only, and the server runs more.
Growing ==
  \A r \in Requests : /\ mid[r] # NoId => mid'[r] = mid[r]
                      /\ runs[r] > 0 => runs'[r] > 0

LEMMA RightStays ==
  ASSUME Growing, NEW m \in Messages, Right(m)
  PROVE  Right(m)'
<1>1. m.req \in Requests /\ m.mid # NoId
  BY IdAssumption DEF Messages, Ids, NoId
<1>. QED BY <1>1 DEF Growing, Right

\* What was said before.
Said(m) ==
  \/ \E d \in net : d.msg = m
  \/ \E e \in cqueue \cup squeue : e.msg = m
  \/ \E s \in sessions : m \in s.last

LEMMA SaidRight ==
  ASSUME Base, Honest, Growing, NEW m, Said(m)
  PROVE  Right(m)'
<1>1. m \in Messages
  BY DEF Said, Base, TypeOK, Datagrams, Entries, Sessions
<1>2. Right(m)
  BY DEF Said, Honest, RightSession
<1>. QED BY <1>1, <1>2, RightStays

\* Session x is session y, later.
Kept(x, y) ==
  /\ x.req = y.req /\ x.tok = y.tok /\ x.last = y.last
  /\ y.list = "finished" => x.list = "finished"
  /\ x.obs => y.obs

LEMMA KeptRight ==
  ASSUME Base, Honest, Growing, NEW x, NEW y \in sessions, Kept(x, y)
  PROVE  RightSession(x)'
<1>1. \A m \in x.last : Right(m)'
  BY SaidRight DEF Said, Kept
<1>2. RightSession(y) /\ y.req \in Requests
  BY DEF Honest, Base, TypeOK, Sessions
<1>3. runs'[x.req] > 0
  BY <1>2 DEF RightSession, Growing, Kept
<1>. QED BY <1>1, <1>2, <1>3 DEF RightSession, Kept

LEMMA HonestStays ==
  ASSUME Base, Honest, Growing,
         \A d \in net' : Said(d.msg) \/ Right(d.msg)',
         \A e \in cqueue' : Said(e.msg) \/ Right(e.msg)',
         \A e \in squeue' : Said(e.msg) \/ Right(e.msg)',
         \A x \in sessions' : (\E y \in sessions : Kept(x, y)) \/ RightSession(x)'
  PROVE  Honest'
<1>1. ASSUME NEW d \in net' PROVE Right(d.msg)'
  <2>. DEFINE m == d.msg
  <2>1. Said(m) \/ Right(m)'
    OBVIOUS
  <2>. HIDE DEF m
  <2>2. Right(m)'
    BY <2>1, SaidRight
  <2>. QED BY <2>2 DEF m
<1>2. ASSUME NEW e \in cqueue' \cup squeue' PROVE Right(e.msg)'
  <2>. DEFINE m == e.msg
  <2>1. Said(m) \/ Right(m)'
    OBVIOUS
  <2>. HIDE DEF m
  <2>2. Right(m)'
    BY <2>1, SaidRight
  <2>. QED BY <2>2 DEF m
<1>3. ASSUME NEW x \in sessions' PROVE RightSession(x)'
  BY KeptRight
<1>. QED BY <1>1, <1>2, <1>3 DEF Honest

\* A response says what is so when its session does.
LEMMA SendResponseHonest ==
  ASSUME NEW s \in Sessions, NEW others, NEW rest, SendResponse(s, others, rest),
         s.mid = mid'[s.req], runs'[s.req] > 0,
         TokenMode = "own" => s.tok = s.req,
         Immediate => Piggybacks(s) /\ ~s.obs
  PROVE  /\ \A d \in net' : d \in rest \/ Right(d.msg)'
         /\ \A e \in squeue' : e \in squeue \/ Right(e.msg)'
         /\ \A x \in sessions' : x \in others \/ RightSession(x)'
<1>1. PICK m : m = Response(s)
  OBVIOUS
<1>2. /\ m.to = "client" /\ m.req = s.req /\ m.tok = s.tok
      /\ m.type = IF Piggybacks(s) THEN "ACK" ELSE IF s.con THEN "CON" ELSE "NON"
      /\ Piggybacks(s) => m.mid = s.mid
  BY <1>1 DEF Response, Message
<1>3. Right(m)'
  BY <1>2 DEF Right
<1>4. net' = rest \cup {Datagram(m)} /\ Datagram(m).msg = m
  BY <1>1 DEF SendResponse, Datagram
<1>5. \A d \in net' : d \in rest \/ Right(d.msg)'
  BY <1>3, <1>4
<1>6. PICK t \in InitialTimeouts : squeue' = Queued(squeue, m, t)
  BY <1>1 DEF SendResponse
<1>7. \A e \in squeue' : e \in squeue \/ e.msg = m
  BY <1>6 DEF Queued, Entry
<1>8. \A e \in squeue' : e \in squeue \/ Right(e.msg)'
  BY <1>3, <1>7
<1>9. PICK after : after = [s EXCEPT !.responded = TRUE, !.last = {m}, !.n = @ + 1]
  OBVIOUS
<1>10. sessions' = others \cup IF after.obs THEN {after} ELSE Finished(after)
  BY <1>1, <1>9 DEF SendResponse
<1>11. after.last = {m} /\ after.req = s.req /\ after.tok = s.tok /\ after.obs = s.obs
  BY <1>9 DEF Sessions
<1>12. PICK f : f = [after EXCEPT !.list = "finished", !.obs = FALSE,
                                  !.obsReq = IF after.obs THEN FALSE ELSE @]
  OBVIOUS
<1>13. f.last = {m} /\ f.req = s.req /\ f.tok = s.tok /\ ~f.obs /\ f.list = "finished"
  BY <1>9, <1>11, <1>12 DEF Sessions
<1>14. Finished(after) \subseteq {f}
  BY <1>12 DEF Finished
<1>15. RightSession(f)'
  BY <1>3, <1>13 DEF RightSession
<1>16. after.obs => RightSession(after)'
  BY <1>3, <1>11 DEF RightSession
<1>17. \A x \in sessions' : x \in others \/ RightSession(x)'
  BY <1>10, <1>14, <1>15, <1>16
<1>. QED BY <1>5, <1>8, <1>17

LEMMA EmptyAckRight ==
  ASSUME NEW s, s.mid = mid'[s.req], runs'[s.req] > 0
  PROVE  \A m : m = EmptyAck(s) => Right(m)'
BY DEF EmptyAck, Message, Right

\* The callback of a resource runs.
LEMMA HonestRun ==
  ASSUME Base, Honest, NEW s \in Sessions, NEW rest, rest \subseteq net, Run(s, rest),
         UNCHANGED <<mid, cqueue>>,
         s.mid = mid[s.req], s.last = {}, ~s.obs, ~s.emptyAck, ~s.responded,
         TokenMode = "own" => s.tok = s.req,
         Immediate => s.con /\ ~s.obsReq
  PROVE  Honest'
<1>1. s.req \in Requests /\ s.con \in BOOLEAN /\ s.obsReq \in BOOLEAN
  BY DEF Sessions
<1>2. runs \in [Requests -> 0 .. 2]
      /\ runs' = [runs EXCEPT ![s.req] = IF @ = 0 THEN 1 ELSE 2]
  BY DEF Base, TypeOK, Run
<1>3. Growing /\ runs'[s.req] > 0
  BY <1>1, <1>2 DEF Growing
<1>4. ASSUME NEW x \in Sessions, SendResponse(x, sessions, rest),
             x.mid = s.mid, x.req = s.req, x.tok = s.tok,
             Immediate => Piggybacks(x) /\ ~x.obs
      PROVE  Honest'
  <2>1. /\ \A d \in net' : d \in rest \/ Right(d.msg)'
        /\ \A e \in squeue' : e \in squeue \/ Right(e.msg)'
        /\ \A y \in sessions' : y \in sessions \/ RightSession(y)'
    BY <1>3, <1>4, SendResponseHonest
  <2>. QED BY <1>3, <2>1, HonestStays DEF Said, Kept
<1>5. CASE \E accept \in {FALSE, s.obsReq} : SendResponse([s EXCEPT !.obs = accept], sessions, rest)
  <2>1. PICK accept \in {FALSE, s.obsReq} : SendResponse([s EXCEPT !.obs = accept], sessions, rest)
    BY <1>5
  <2>2. PICK x : x = [s EXCEPT !.obs = accept]
    OBVIOUS
  <2>3. x \in Sessions
    BY <1>1, <2>2 DEF Sessions
  <2>4. /\ x.mid = s.mid /\ x.req = s.req /\ x.tok = s.tok /\ x.con = s.con
        /\ x.emptyAck = s.emptyAck /\ x.responded = s.responded /\ x.obs = accept
    BY <2>2 DEF Sessions
  <2>5. Immediate => Piggybacks(x) /\ ~x.obs
    BY <2>4 DEF Piggybacks
  <2>. QED BY <1>4, <2>1, <2>2, <2>3, <2>4, <2>5
<1>6. CASE SendResponse(s, sessions, rest)
  BY <1>4, <1>6 DEF Piggybacks
<1>7. ASSUME "later" \in Replies \/ "server" \in SendFails, UNCHANGED squeue,
             NEW accept \in {FALSE, s.obsReq}, NEW acks \in BOOLEAN,
             sessions' = sessions \cup {[s EXCEPT !.obs = accept, !.emptyAck = acks]},
             net' \subseteq rest \cup {Datagram(EmptyAck(s))}
      PROVE  Honest'
  <2>1. ~Immediate
    BY <1>7 DEF Immediate, Prompt
  <2>2. PICK x : x = [s EXCEPT !.obs = accept, !.emptyAck = acks]
    OBVIOUS
  <2>3. x.req = s.req /\ x.tok = s.tok /\ x.last = {}
    BY <2>2 DEF Sessions
  <2>4. RightSession(x)'
    BY <1>3, <2>1, <2>3 DEF RightSession
  <2>5. PICK m : m = EmptyAck(s)
    OBVIOUS
  <2>6. Right(m)'
    BY <1>3, <2>5, EmptyAckRight
  <2>7. \A d \in net' : d \in rest \/ d.msg = m
    BY <1>7, <2>5 DEF Datagram
  <2>8. \A d \in net' : Said(d.msg) \/ Right(d.msg)'
    BY <2>6, <2>7 DEF Said
  <2>9. \A y \in sessions' : y \in sessions \/ RightSession(y)'
    BY <1>7, <2>2, <2>4
  <2>. QED BY <1>3, <1>7, <2>8, <2>9, HonestStays DEF Said, Kept
<1>8. \A autoAck \in AutoAcks : (s.con /\ autoAck) \in BOOLEAN
  BY <1>1, RequestsAssumption
<1>9. CASE /\ "later" \in Replies \/ "server" \in SendFails
           /\ UNCHANGED squeue
           /\ \E accept \in {FALSE, s.obsReq}, acks \in BOOLEAN :
                /\ sessions' = sessions \cup {[s EXCEPT !.obs = accept, !.emptyAck = acks]}
                /\ net' \subseteq rest \cup {Datagram(EmptyAck(s))}
  BY <1>7, <1>9
<1>10. CASE net' = rest /\ UNCHANGED <<sessions, squeue>>
  BY <1>3, <1>10, HonestStays DEF Said, Kept
<1>. QED BY <1>5, <1>6, <1>8, <1>9, <1>10 DEF Run, EmptyAck

\* A request that was received before.
LEMMA HonestRunAgain ==
  ASSUME Base, Known, Honest, NEW s \in sessions, NEW rest, rest \subseteq net,
         RunAgain(s, rest), UNCHANGED <<mid, cqueue>>
  PROVE  Honest'
<1>1. s \in Sessions /\ UNCHANGED runs
  BY RunAgainCases DEF Base, TypeOK
<1>2. Growing /\ \A e \in cqueue' : Said(e.msg)
  BY <1>1 DEF Growing, Said
<1>3. ASSUME NEW m \in s.last, NEW t \in InitialTimeouts, net' = rest \cup {Datagram(m)},
             squeue' = Queued(squeue, m, t), UNCHANGED sessions
      PROVE  Honest'
  <2>1. Said(m)
    BY DEF Said
  <2>2. \A d \in net' : d \in rest \/ d.msg = m
    BY <1>3 DEF Datagram
  <2>3. \A e \in squeue' : e \in squeue \/ e.msg = m
    BY <1>3 DEF Queued, Entry
  <2>4. \A d \in net' : Said(d.msg)
    BY <2>1, <2>2 DEF Said
  <2>5. \A e \in squeue' : Said(e.msg)
    BY <2>1, <2>3 DEF Said
  <2>. QED BY <1>2, <1>3, <2>4, <2>5, HonestStays DEF Kept
<1>4. CASE /\ UNCHANGED squeue /\ net' = rest \cup {Datagram(EmptyAck(s))}
           /\ sessions' = (sessions \ {s}) \cup {[s EXCEPT !.emptyAck = TRUE]}
  <2>1. PICK m : m = EmptyAck(s)
    OBVIOUS
  <2>2. s.mid = mid'[s.req] /\ runs'[s.req] > 0
    BY <1>1 DEF Known, OwnSessions, Honest, RightSession
  <2>3. Right(m)'
    BY <2>1, <2>2, EmptyAckRight
  <2>4. \A d \in net' : d \in rest \/ d.msg = m
    BY <1>4, <2>1 DEF Datagram
  <2>5. \A d \in net' : Said(d.msg) \/ Right(d.msg)'
    BY <2>3, <2>4 DEF Said
  <2>6. Kept([s EXCEPT !.emptyAck = TRUE], s)
    BY <1>1 DEF Kept, Sessions
  <2>7. \A x \in sessions' : \E y \in sessions : Kept(x, y)
    BY <1>4, <2>6 DEF Kept
  <2>8. \A e \in squeue' : Said(e.msg)
    BY <1>4 DEF Said
  <2>. QED BY <1>2, <2>5, <2>7, <2>8, HonestStays
<1>5. CASE net' = rest /\ UNCHANGED <<sessions, squeue>>
  BY <1>2, <1>5, HonestStays DEF Said, Kept
<1>. QED BY <1>3, <1>4, <1>5, RunAgainCases DEF RunsAgain

\* What is left behind was said before.
LEMMA OrphanedSaid ==
  ASSUME Base, NEW queue, queue \subseteq squeue, squeue' \in Orphaned(queue)
  PROVE  \A e \in squeue' : Said(e.msg)
<1>1. queue \in SUBSET Entries /\ PacedQueue(queue)
  BY DEF Base, TypeOK, PacedQueue
<1>2. \A x \in squeue' : \E y \in squeue : x.msg = y.msg
  BY <1>1, OrphanedPaced
<1>. QED BY <1>2 DEF Said

LEMMA HonestServerReceive ==
  ASSUME Base, Known, Honest, NEW d \in net, d.msg.to = "server",
         NEW rest, rest \subseteq net, ServerReceive(d.msg, rest)
  PROVE  Honest'
<1>. DEFINE m == d.msg
<1>1. UNCHANGED <<mid, cqueue>>
  BY DEF ServerReceive, clientVars
<1>2. m \in Messages /\ Right(m)
  BY DEF Base, TypeOK, Datagrams, Honest
<1>3. CASE m.type = "ACK" /\ squeue' = Settled(squeue, m) /\ net' = rest /\ UNCHANGED <<sessions, runs>>
  <2>1. squeue' \subseteq squeue
    BY <1>3, SettledSubset
  <2>2. Growing
    BY <1>1, <1>3 DEF Growing
  <2>. QED BY <1>1, <1>3, <2>1, <2>2, HonestStays DEF Said, Kept
<1>4. CASE Invalidate(Settled(squeue, m)) /\ net' = rest /\ UNCHANGED runs
  <2>1. Growing /\ sessions' = {}
    BY <1>1, <1>4 DEF Growing, Invalidate
  <2>2. \A e \in squeue' : Said(e.msg)
    BY <1>4, SettledSubset, OrphanedSaid DEF Invalidate
  <2>. QED BY <1>1, <1>4, <2>1, <2>2, HonestStays DEF Said
<1>5. CASE (\E s \in sessions : s.mid = m.mid)
           /\ RunAgain(CHOOSE s \in sessions : s.mid = m.mid, rest)
  <2>1. (CHOOSE s \in sessions : s.mid = m.mid) \in sessions
    BY <1>5
  <2>. QED BY <1>1, <1>5, <2>1, HonestRunAgain
<1>6. CASE m.type \in {"CON", "NON"} /\ Run(Session(m), rest)
  <2>1. PICK s : s = Session(m)
    OBVIOUS
  <2>2. /\ s.mid = m.mid /\ s.req = m.req /\ s.last = {} /\ ~s.obs /\ ~s.emptyAck
        /\ ~s.responded /\ s.tok = m.tok /\ s.obsReq = m.obs /\ s.con = (m.type = "CON")
    BY <2>1 DEF Session
  <2>3. s \in Sessions
    BY <1>2, <2>1, SessionType
  <2>4. m.mid = mid[m.req] /\ (m.type = "CON" <=> m.req \in Confirmable)
    BY <1>6 DEF Known, OwnNet, Copy
  <2>5. TokenMode = "own" => m.tok = m.req
    BY <1>2, <1>6 DEF Right
  <2>6. m.obs => m.req \in Observe
    BY <1>2, <1>6 DEF Right
  <2>7. m.req \in Requests
    BY <1>2 DEF Messages
  <2>8. Immediate => s.con /\ ~s.obsReq
    BY <2>2, <2>4, <2>6, <2>7 DEF Immediate, Prompt
  <2>9. Run(s, rest)
    BY <1>6, <2>1
  <2>. HIDE DEF m
  <2>. QED BY <1>1, <2>2, <2>3, <2>4, <2>5, <2>8, <2>9, HonestRun
<1>. QED BY <1>3, <1>4, <1>5, <1>6 DEF ServerReceive

LEMMA HonestClientReceive ==
  ASSUME Base, Honest, NEW m \in Messages, NEW rest, rest \subseteq net,
         cqueue' = Settled(cqueue, m), net' \in ClientAcks(m, rest),
         UNCHANGED <<mid, serverVars>>
  PROVE  Honest'
<1>1. Growing /\ UNCHANGED <<squeue, sessions>>
  BY DEF Growing, serverVars
<1>2. cqueue' \subseteq cqueue
  BY SettledSubset
<1>3. PICK a : a = Empty("server", "ACK", m)
  OBVIOUS
<1>4. Right(a)'
  BY <1>3 DEF Right, Empty, Message
<1>5. \A d \in net' : d \in rest \/ d.msg = a
  BY <1>3 DEF ClientAcks, Datagram
<1>6. \A d \in net' : Said(d.msg) \/ Right(d.msg)'
  BY <1>4, <1>5 DEF Said
<1>. QED BY <1>1, <1>2, <1>6, HonestStays DEF Said, Kept

LEMMA HonestDeliver ==
  ASSUME Base, Known, Honest, NEW d \in net, Deliver(d)
  PROVE  Honest'
<1>1. d.msg \in Messages
  BY DEF Base, TypeOK, Datagrams
<1>2. PICK rest \in {net \ {d}} \cup (IF dups > 0 THEN {net} ELSE {}) :
        \/ \E i \in Matching(d.msg) : ClientReceive(d.msg, rest, i)
        \/ ClientReceiveStray(d.msg, rest)
        \/ d.msg.to = "server" /\ ServerReceive(d.msg, rest)
  BY DEF Deliver
<1>3. rest \subseteq net
  OBVIOUS
<1>4. CASE (\E i \in Matching(d.msg) : ClientReceive(d.msg, rest, i)) \/ ClientReceiveStray(d.msg, rest)
  <2>1. cqueue' = Settled(cqueue, d.msg) /\ net' \in ClientAcks(d.msg, rest) /\ UNCHANGED <<mid, serverVars>>
    BY <1>4 DEF ClientReceive, ClientReceiveStray
  <2>. QED BY <1>1, <1>3, <2>1, HonestClientReceive
<1>5. CASE d.msg.to = "server" /\ ServerReceive(d.msg, rest)
  BY <1>3, <1>5, HonestServerReceive
<1>. QED BY <1>2, <1>4, <1>5

\* The script of a session answers, acknowledges or ends the observation.
LEMMA HonestSession ==
  ASSUME Base, Known, Honest, NEW s \in sessions,
         SessionSend(s) \/ SessionSendAck(s) \/ SessionEndObserve(s)
  PROVE  Honest'
<1>1. s \in Sessions /\ RightSession(s) /\ s.mid = mid[s.req]
  BY DEF Base, TypeOK, Honest, Known, OwnSessions
<1>2. UNCHANGED <<mid, runs, cqueue>>
  BY DEF SessionSend, SessionSendAck, SessionEndObserve, clientVars
<1>3. Growing /\ (\A e \in cqueue' : Said(e.msg)) /\ s.mid = mid'[s.req] /\ runs'[s.req] > 0
  BY <1>1, <1>2 DEF Growing, Said, RightSession
<1>4. CASE SessionSend(s)
  <2>1. ~Immediate /\ (TokenMode = "own" => s.tok = s.req)
    BY <1>1, <1>4 DEF RightSession, SessionSend
  <2>2. SendResponse(s, sessions \ {s}, net)
    BY <1>4 DEF SessionSend
  <2>3. /\ \A d \in net' : d \in net \/ Right(d.msg)'
        /\ \A e \in squeue' : e \in squeue \/ Right(e.msg)'
        /\ \A x \in sessions' : x \in sessions \ {s} \/ RightSession(x)'
    BY <1>1, <1>3, <2>1, <2>2, SendResponseHonest
  <2>. QED BY <1>3, <2>3, HonestStays DEF Said, Kept
<1>5. CASE SessionSendAck(s)
  <2>1. PICK m : m = EmptyAck(s)
    OBVIOUS
  <2>2. Right(m)'
    BY <1>3, <2>1, EmptyAckRight
  <2>3. \A d \in net' : d \in net \/ d.msg = m
    BY <1>5, <2>1 DEF SessionSendAck, Datagram
  <2>4. \A d \in net' : Said(d.msg) \/ Right(d.msg)'
    BY <2>2, <2>3 DEF Said
  <2>5. Kept([s EXCEPT !.emptyAck = TRUE], s)
    BY <1>1 DEF Kept, Sessions
  <2>6. \A x \in sessions' : \E y \in sessions : Kept(x, y)
    BY <1>5, <2>5 DEF Kept, SessionSendAck
  <2>7. \A e \in squeue' : Said(e.msg)
    BY <1>5 DEF Said, SessionSendAck
  <2>. QED BY <1>3, <2>4, <2>6, <2>7, HonestStays
<1>6. CASE SessionEndObserve(s)
  <2>1. Kept([s EXCEPT !.obs = FALSE, !.obsReq = FALSE], s)
    BY <1>1 DEF Kept, Sessions
  <2>2. \A x \in sessions' : \E y \in sessions : Kept(x, y)
    BY <1>6, <2>1 DEF Kept, SessionEndObserve
  <2>3. UNCHANGED <<net, squeue>>
    BY <1>6 DEF SessionEndObserve
  <2>4. (\A d \in net' : Said(d.msg)) /\ (\A e \in squeue' : Said(e.msg))
    BY <2>3 DEF Said
  <2>. QED BY <1>3, <2>2, <2>4, HonestStays
<1>. QED BY <1>4, <1>5, <1>6

LEMMA ResentSaid ==
  ASSUME NEW queue \in SUBSET Entries, NEW e \in queue
  PROVE  \A x \in Resent(queue, e) : \E y \in queue : x.msg = y.msg
<1>1. e \in Entries
  OBVIOUS
<1>2. [e EXCEPT !.retry = @ + 1, !.interval = 2 * @, !.due = 2 * e.interval].msg = e.msg
  BY <1>1 DEF Entries
<1>. QED BY <1>2 DEF Resent

LEMMA HonestResend ==
  ASSUME Base, Honest,
         \/ \E e \in cqueue : ClientResend(e) \/ ClientResendFails(e)
         \/ \E e \in squeue : ServerResend(e) \/ ServerResendFails(e)
         \/ SessionDestructor
  PROVE  Honest'
<1>1. cqueue \in SUBSET Entries /\ squeue \in SUBSET Entries
  BY DEF Base, TypeOK
<1>2. Growing
  BY DEF Growing, ClientResend, ClientResendFails, ServerResend, ServerResendFails,
         SessionDestructor, serverVars, clientVars
<1>3. \A e \in cqueue' : Said(e.msg)
  <2>1. ASSUME NEW e \in cqueue, cqueue' = Resent(cqueue, e) PROVE \A x \in cqueue' : Said(x.msg)
    BY <1>1, <2>1, ResentSaid DEF Said
  <2>2. CASE cqueue' \subseteq cqueue
    BY <2>2 DEF Said
  <2>3. CASE \E e \in cqueue : ClientResend(e) \/ ClientResendFails(e)
    BY <2>1, <2>2, <2>3 DEF ClientResend, ClientResendFails
  <2>4. CASE SessionDestructor \/ \E e \in squeue : ServerResend(e) \/ ServerResendFails(e)
    BY <2>2, <2>4 DEF ServerResend, ServerResendFails, SessionDestructor, clientVars
  <2>. QED BY <2>3, <2>4
<1>4. \A e \in squeue' : Said(e.msg)
  <2>1. ASSUME NEW e \in squeue, Invalidate(squeue \ {e}) PROVE \A x \in squeue' : Said(x.msg)
    BY <2>1, OrphanedSaid DEF Invalidate
  <2>2. ASSUME NEW e \in squeue, squeue' = Resent(squeue, e) PROVE \A x \in squeue' : Said(x.msg)
    BY <1>1, <2>2, ResentSaid DEF Said
  <2>3. CASE squeue' \subseteq squeue
    BY <2>3 DEF Said
  <2>4. CASE SessionDestructor \/ \E e \in cqueue : ClientResend(e) \/ ClientResendFails(e)
    BY <2>3, <2>4 DEF ClientResend, ClientResendFails, SessionDestructor, serverVars
  <2>5. CASE \E e \in squeue : ServerResend(e) \/ ServerResendFails(e)
    BY <2>1, <2>2, <2>3, <2>5 DEF ServerResend, ServerResendFails
  <2>. QED BY <2>4, <2>5
<1>5. \A d \in net' : d \in net \/ \E e \in cqueue \cup squeue : d.msg = e.msg
  <2>1. CASE \E e \in cqueue : ClientResend(e) \/ ClientResendFails(e)
    BY <2>1 DEF ClientResend, ClientResendFails, Datagram
  <2>2. CASE SessionDestructor \/ \E e \in squeue : ServerResend(e) \/ ServerResendFails(e)
    <3>1. net' = net \/ \E e \in squeue : net' = net \cup {Datagram(e.msg)}
      BY <2>2 DEF ServerResend, ServerResendFails, SessionDestructor
    <3>. QED BY <3>1 DEF Datagram
  <2>. QED BY <2>1, <2>2
<1>6. sessions' \subseteq sessions
  BY DEF ClientResend, ClientResendFails, ServerResend, ServerResendFails, SessionDestructor,
         Invalidate, serverVars
<1>7. \A d \in net' : Said(d.msg)
  BY <1>5 DEF Said
<1>. QED BY <1>2, <1>3, <1>4, <1>6, <1>7, HonestStays DEF Kept

LEMMA HonestQuiet ==
  ASSUME Base, Honest,
         PeriodicalCheck \/ Tick \/ ResolveError \/ (\E d \in net : PeerReset(d)) \/ UNCHANGED vars
  PROVE  Honest'
<1>1. Growing
  BY DEF Growing, PeriodicalCheck, Tick, ResolveError, PeerReset, vars, serverVars, clientVars
<1>2. CASE PeriodicalCheck
  <2>1. /\ sessions' \subseteq sessions /\ UNCHANGED <<net, cqueue>>
        /\ squeue' = squeue \/ squeue' \in Orphaned(squeue)
    BY <1>2 DEF PeriodicalCheck, clientVars
  <2>2. \A e \in squeue' : Said(e.msg)
    BY <2>1, OrphanedSaid DEF Said
  <2>. QED BY <1>1, <2>1, <2>2, HonestStays DEF Said, Kept
<1>3. CASE Tick
  <2>1. \A e \in cqueue \cup squeue : [e EXCEPT !.due = @ - 1, !.age = @ + 1].msg = e.msg
    BY DEF Base, TypeOK, Entries
  <2>2. \A e \in cqueue' : Said(e.msg)
    BY <1>3, <2>1 DEF Tick, Elapse, Said
  <2>3. \A e \in squeue' : Said(e.msg)
    BY <1>3, <2>1 DEF Tick, Elapse, Said
  <2>4. \A d \in net : [d EXCEPT !.ttl = @ - 1].msg = d.msg
    BY DEF Base, TypeOK, Datagrams
  <2>5. \A d \in net' : Said(d.msg)
    BY <1>3, <2>4 DEF Tick, Said
  <2>6. \A s \in sessions : Kept([s EXCEPT !.life = IF @ = 0 THEN 0 ELSE @ - 1], s)
    BY DEF Base, TypeOK, Sessions, Kept
  <2>7. \A x \in sessions' : \E y \in sessions : Kept(x, y)
    BY <1>3, <2>6 DEF Tick
  <2>. QED BY <1>1, <2>2, <2>3, <2>5, <2>7, HonestStays
<1>4. ASSUME NEW d \in net, PeerReset(d) PROVE Honest'
  <2>1. PICK to \in {"client", "server"} :
          net' = (net \ {d}) \cup {Datagram(Empty(to, "RST", d.msg))}
    BY <1>4 DEF PeerReset
  <2>2. PICK m : m = Empty(to, "RST", d.msg)
    OBVIOUS
  <2>3. Right(m)'
    BY <2>2 DEF Right, Empty, Message
  <2>4. \A x \in net' : x \in net \/ x.msg = m
    BY <2>1, <2>2 DEF Datagram
  <2>5. \A x \in net' : Said(x.msg) \/ Right(x.msg)'
    BY <2>3, <2>4 DEF Said
  <2>6. UNCHANGED <<cqueue, squeue, sessions>>
    BY <1>4 DEF PeerReset, clientVars, serverVars
  <2>. QED BY <1>1, <2>5, <2>6, HonestStays DEF Said, Kept
<1>5. CASE ResolveError \/ UNCHANGED vars
  <2>1. UNCHANGED <<net, cqueue, squeue, sessions>>
    BY <1>5 DEF ResolveError, vars, serverVars, clientVars
  <2>. QED BY <1>1, <2>1, HonestStays DEF Said, Kept
<1>. QED BY <1>2, <1>3, <1>4, <1>5

\* Requests are sent: a request has its own token or none.
LEMMA HonestTransmit ==
  ASSUME Base, Honest, Growing, NEW rs \in Seq(Requests), NEW reachable, Transmit(rs, reachable),
         TokenMode = "own" => \A r \in Requests : tok'[r] = r,
         UNCHANGED serverVars
  PROVE  Honest'
<1>. DEFINE S == {rs[i] : i \in 1 .. Len(rs)}
<1>1. S \subseteq Requests
  OBVIOUS
<1>2. \A r \in S : LET m == RequestMessage(r)' IN
        /\ m.to = "server" /\ m.req = r /\ m.tok = tok'[r] /\ m.obs = (r \in Observe)
        /\ m.type \in {"CON", "NON"}
  BY DEF RequestMessage, Message
<1>3. ASSUME NEW m, NEW r \in S, m = RequestMessage(r)' PROVE Right(m)'
  <2>1. /\ m.to = "server" /\ m.req = r /\ m.tok = tok'[r] /\ m.obs = (r \in Observe)
        /\ m.type \in {"CON", "NON"}
    BY <1>2, <1>3
  <2>2. r \in Requests
    BY <1>1
  <2>. HIDE DEF S
  <2>. QED BY <2>1, <2>2 DEF Right
<1>4. PICK t \in [S \cap Confirmable -> InitialTimeouts] :
        cqueue' = cqueue \cup {Entry(RequestMessage(r)', t[r]) : r \in S \cap Confirmable}
  BY DEF Transmit
<1>5. net' \subseteq net \cup {Datagram(RequestMessage(r)') : r \in S}
  BY DEF Transmit
<1>6. \A e \in cqueue' : e \in cqueue \/ \E r \in S : e.msg = RequestMessage(r)'
  BY <1>4 DEF Entry
<1>7. \A d \in net' : d \in net \/ \E r \in S : d.msg = RequestMessage(r)'
  BY <1>5 DEF Datagram
<1>. HIDE DEF S
<1>8. \A e \in cqueue' : Said(e.msg) \/ Right(e.msg)'
  BY <1>3, <1>6 DEF Said
<1>9. \A d \in net' : Said(d.msg) \/ Right(d.msg)'
  BY <1>3, <1>7 DEF Said
<1>10. UNCHANGED <<squeue, sessions>>
  BY DEF serverVars
<1>. QED BY <1>8, <1>9, <1>10, HonestStays DEF Said, Kept

LEMMA StartLabelled ==
  ASSUME Base, Labelled, NEW rs, TakeTokens(rs)
  PROVE  Labelled'
<1>1. tok \in [Requests -> Tokens]
  BY DEF Base, TypeOK
<1>2. TokenMode # "auto" => \A r \in Requests : tok'[r] = tok[r]
  BY <1>1 DEF TakeTokens
<1>. QED BY <1>2 DEF Labelled

LEMMA HonestSend ==
  ASSUME Base, Honest, Labelled, NEW r \in Requests, Send(r)
  PROVE  Honest' /\ Labelled'
<1>1. Growing /\ UNCHANGED serverVars
  BY DEF Base, TypeOK, Growing, Send, serverVars
<1>2. CASE resolver \in {"none", "pending"}
  <2>1. UNCHANGED <<net, cqueue, squeue, sessions, tok>>
    BY <1>1, <1>2 DEF Send, serverVars
  <2>. QED BY <1>1, <2>1, HonestStays DEF Said, Kept, Labelled
<1>3. CASE resolver \notin {"none", "pending"}
  <2>1. StartRequests(<<r>>) /\ Transmit(<<r>>, resolver = "resolved") /\ <<r>> \in Seq(Requests)
    BY <1>3 DEF Send
  <2>2. Labelled'
    BY <2>1, StartLabelled DEF StartRequests
  <2>3. TokenMode = "own" => \A x \in Requests : tok'[x] = x
    BY <2>2 DEF Labelled
  <2>. QED BY <1>1, <2>1, <2>2, <2>3, HonestTransmit
<1>. QED BY <1>2, <1>3

LEMMA HonestResolved ==
  ASSUME Base, Honest, Labelled, Resolved
  PROVE  Honest' /\ Labelled'
<1>1. Growing /\ UNCHANGED serverVars
  BY DEF Growing, Resolved, serverVars
<1>2. StartRequests(waiting) /\ Transmit(waiting, TRUE) /\ waiting \in Seq(Requests)
  BY DEF Resolved, Base, TypeOK
<1>3. Labelled'
  BY <1>2, StartLabelled DEF StartRequests
<1>4. TokenMode = "own" => \A x \in Requests : tok'[x] = x
  BY <1>3 DEF Labelled
<1>. QED BY <1>1, <1>2, <1>3, <1>4, HonestTransmit

LEMMA HonestSendThrows ==
  ASSUME Base, Honest, Labelled, NEW r \in Requests, SendThrows(r)
  PROVE  Honest' /\ Labelled'
<1>1. Growing /\ TakeTokens(<<r>>) /\ UNCHANGED <<net, cqueue, squeue, sessions>>
  BY DEF Base, TypeOK, Growing, SendThrows, serverVars
<1>2. Labelled'
  BY <1>1, StartLabelled
<1>. QED BY <1>1, <1>2, HonestStays DEF Said, Kept

LEMMA HonestResolvedFails ==
  ASSUME Base, Honest, Labelled, NEW k \in 1 .. Len(waiting), ResolvedFails(k)
  PROVE  Honest' /\ Labelled'
<1>1. Growing /\ UNCHANGED serverVars
  BY DEF Growing, ResolvedFails, serverVars
<1>2. SubSeq(waiting, 1, k - 1) \in Seq(Requests)
  BY Before DEF Base, TypeOK
<1>3. TakeTokens(SubSeq(waiting, 1, k)) /\ Transmit(SubSeq(waiting, 1, k - 1), TRUE)
  BY DEF ResolvedFails
<1>4. Labelled'
  BY <1>3, StartLabelled
<1>5. TokenMode = "own" => \A x \in Requests : tok'[x] = x
  BY <1>4 DEF Labelled
<1>. QED BY <1>1, <1>2, <1>3, <1>4, <1>5, HonestTransmit

\* Only requests that are started get a token.
LEMMA TokensStay ==
  ASSUME [Next]_vars, \A r \in Requests : ~Send(r) /\ ~SendThrows(r), ~Resolved,
         \A k \in 1 .. Len(waiting) : ~ResolvedFails(k)
  PROVE  UNCHANGED <<mid, tok, nextId>>
<1>1. ASSUME NEW d \in net, Deliver(d) PROVE UNCHANGED <<mid, tok, nextId>>
  BY <1>1 DEF Deliver, ClientReceive, ClientReceiveStray, ServerReceive, clientVars
<1>2. CASE UNCHANGED vars \/ ResolveError \/ PeriodicalCheck \/ Tick \/ SessionDestructor
  BY <1>2 DEF vars, clientVars, ResolveError, PeriodicalCheck, Tick, SessionDestructor
<1>3. CASE \/ \E d \in net : PeerReset(d)
           \/ \E e \in cqueue : ClientResend(e) \/ ClientResendFails(e)
           \/ \E e \in squeue : ServerResend(e) \/ ServerResendFails(e)
           \/ \E s \in sessions : SessionSend(s) \/ SessionSendAck(s) \/ SessionEndObserve(s)
  BY <1>3 DEF PeerReset, ClientResend, ClientResendFails, ServerResend, ServerResendFails,
              SessionSend, SessionSendAck, SessionEndObserve, clientVars
<1>. QED BY <1>1, <1>2, <1>3 DEF Next

LEMMA HonestNext ==
  ASSUME Base, Known, Honest, Labelled, [Next]_vars
  PROVE  Honest' /\ Labelled'
<1>. DEFINE Starts == \/ Resolved \/ \E k \in 1 .. Len(waiting) : ResolvedFails(k)
                      \/ \E r \in Requests : Send(r) \/ SendThrows(r)
<1>1. CASE Starts
  BY <1>1, HonestSend, HonestSendThrows, HonestResolved, HonestResolvedFails
<1>2. CASE ~Starts
  <2>1. Labelled'
    BY <1>2, TokensStay DEF Labelled
  <2>2. Honest'
    BY <1>2, HonestDeliver, HonestSession, HonestResend, HonestQuiet DEF Next
  <2>. QED BY <2>1, <2>2
<1>. QED BY <1>1, <1>2

\* A new id is not in use.
LEMMA NumberedSend ==
  ASSUME IdsSuffice, Base, Numbered, NEW r \in Requests, Send(r) \/ SendThrows(r)
  PROVE  Numbered'
<1>1. mid \in [Requests -> NoId .. IdModulus - 1] /\ nextId \in Ids
  BY DEF Base, TypeOK
<1>2. Taken \in SUBSET Requests /\ Taken \cup {r} \in SUBSET Requests /\ r \notin Taken
  BY DEF Taken, Send, SendThrows
<1>3. IsFiniteSet(Taken) /\ Cardinality(Taken) \in Nat
  BY <1>2, FS_Subset, FS_CardinalityType DEF IdsSuffice
<1>4. Cardinality(Taken \cup {r}) = Cardinality(Taken) + 1
  BY <1>2, <1>3, FS_AddElement
<1>5. Cardinality(Taken \cup {r}) <= Cardinality(Requests) /\ Cardinality(Requests) \in Nat
  BY <1>2, FS_Subset, FS_CardinalityType DEF IdsSuffice
<1>. DEFINE T == Cardinality(Taken)
            R == Cardinality(Requests)
<1>6. FirstId \in Nat /\ FirstId > 0 /\ IdModulus \in Nat /\ FirstId + R < IdModulus
      /\ nextId = FirstId + T
  BY IdAssumption DEF IdsSuffice, Numbered
<1>7. T \in Nat /\ R \in Nat /\ T + 1 <= R
  BY <1>3, <1>4, <1>5
<1>. HIDE DEF T, R
<1>8. nextId > 0 /\ nextId + 1 < IdModulus /\ nextId \in Nat
  BY <1>6, <1>7
<1>9. (nextId + 1) % IdModulus = nextId + 1 /\ GenerateMessageId(nextId) = nextId
  BY <1>6, <1>8 DEF GenerateMessageId
<1>10. mid' = [mid EXCEPT ![r] = nextId] /\ nextId' = nextId + 1
  BY <1>9 DEF Send, SendThrows
<1>11. nextId # NoId
  BY <1>8 DEF NoId
<1>12. Taken' = Taken \cup {r}
  BY <1>1, <1>10, <1>11 DEF Taken
<1>13. nextId' = FirstId + Cardinality(Taken')
  BY <1>4, <1>6, <1>7, <1>10, <1>12 DEF T
<1>14. \A q \in Taken : mid'[q] = mid[q] /\ FirstId <= mid[q] /\ mid[q] < nextId /\ mid[q] \in Int
  BY <1>1, <1>2, <1>10, IdAssumption DEF Numbered, NoId
<1>15. mid'[r] = nextId /\ FirstId <= nextId
  BY <1>1, <1>6, <1>7, <1>10
<1>16. \A q \in Taken' : FirstId <= mid'[q] /\ mid'[q] < nextId'
  BY <1>8, <1>10, <1>12, <1>14, <1>15
<1>17. \A p, q \in Taken' : mid'[p] = mid'[q] => p = q
  BY <1>8, <1>12, <1>14, <1>15 DEF Numbered
<1>. QED BY <1>13, <1>16, <1>17 DEF Numbered

LEMMA NumberedNext ==
  ASSUME IdsSuffice, Base, Numbered, [Next]_vars
  PROVE  Numbered'
<1>1. CASE UNCHANGED <<mid, nextId>>
  BY <1>1 DEF Numbered, Taken
<1>2. CASE Resolved \/ \E k \in 1 .. Len(waiting) : ResolvedFails(k)
  BY <1>1, <1>2 DEF Resolved, ResolvedFails
<1>. QED BY <1>1, <1>2, NumberedSend, TokensStay

\* A message for a request of the client, found by id, is about this request.
LEMMA IdFinds ==
  ASSUME Base, Numbered, NEW m \in Messages, NEW r \in Requests, m.mid = mid[r], m.mid = mid[m.req]
  PROVE  m.req = r
<1>1. m.mid # NoId /\ m.req \in Requests
  BY IdAssumption DEF Messages, Ids, NoId
<1>2. m.req \in Taken /\ r \in Taken
  BY <1>1 DEF Taken
<1>. QED BY <1>2 DEF Numbered

TokensSuffice == TokenMode # "auto" \/ Immediate

\* What the scripts of the client were told.
Told == AckMeansRun /\ (TokensSuffice => OwnAnswer)

LEMMA ToldReceive ==
  ASSUME Base, Numbered, Labelled, Honest, Told,
         NEW d \in net, d.msg.to = "client", NEW rest, NEW i \in Matching(d.msg),
         ClientReceive(d.msg, rest, i)
  PROVE  Told'
<1>1. PICK m : m = d.msg
  OBVIOUS
<1>2. m \in Messages /\ Right(m) /\ m.to = "client"
  BY <1>1 DEF Base, TypeOK, Datagrams, Honest
<1>3. PICK r \in Requests : r = requests[i]
  BY DEF Base, TypeOK, Matching
<1>4. MatchResponse(r, m)
  BY <1>1, <1>3 DEF Matching
<1>5. UNCHANGED runs
  BY DEF ClientReceive, serverVars
<1>6. m.type = "ACK" => m.req = r /\ runs[r] > 0
  <2>1. CASE m.type = "ACK"
    <3>1. m.mid = mid[r] /\ m.mid = mid[m.req] /\ runs[m.req] > 0
      BY <1>2, <1>4, <2>1 DEF MatchResponse, Right
    <3>. QED BY <1>2, <3>1, IdFinds
  <2>. QED BY <2>1
<1>7. AckMeansRun'
  <2>1. acked' \subseteq acked \cup {r} /\ (m.type # "ACK" => acked' = acked)
    BY <1>1, <1>3 DEF ClientReceive
  <2>. QED BY <1>5, <1>6, <2>1 DEF Told, AckMeansRun
<1>8. ASSUME TokensSuffice PROVE OwnAnswer'
  <2>1. m.n > 0 => m.req = r
    <3>1. CASE m.type = "ACK"
      BY <1>6, <3>1
    <3>2. CASE m.type = "RST"
      BY <1>2, <3>2 DEF Right
    <3>3. CASE m.type \in {"CON", "NON"}
      <4>1. ~Immediate
        BY <1>2, <3>3 DEF Right
      <4>2. m.tok # NoToken /\ m.tok = tok[r]
        BY <1>4, <3>3 DEF MatchResponse
      <4>3. TokenMode = "own"
        BY <1>8, <4>1, <4>2, RequestsAssumption DEF TokensSuffice, Labelled
      <4>4. m.tok = m.req /\ tok[r] = r
        BY <1>2, <3>3, <4>3 DEF Right, Labelled
      <4>. QED BY <4>2, <4>4
    <3>. QED BY <1>2, <3>1, <3>2, <3>3 DEF Messages, Types
  <2>2. answers \in [Requests -> SUBSET (Requests \X Nat)]
    BY DEF Base, TypeOK
  <2>3. answers' = IF m.n > 0 THEN [answers EXCEPT ![r] = @ \cup {<<m.req, m.n>>}] ELSE answers
    BY <1>1, <1>3 DEF ClientReceive
  <2>4. OwnAnswer
    BY <1>8 DEF Told
  <2>5. CASE m.n > 0
    <3>1. \A q \in Requests : \A a \in answers'[q] :
            a \in answers[q] \/ (q = r /\ a = <<m.req, m.n>>)
      BY <2>2, <2>3, <2>5
    <3>. QED BY <2>1, <2>4, <2>5, <3>1 DEF OwnAnswer
  <2>6. CASE ~(m.n > 0)
    BY <2>3, <2>4, <2>6 DEF OwnAnswer
  <2>. QED BY <2>5, <2>6
<1>. QED BY <1>7, <1>8 DEF Told

LEMMA RunsGrow ==
  ASSUME Base, [Next]_vars
  PROVE  \A r \in Requests : runs[r] > 0 => runs'[r] > 0
<1>1. ASSUME NEW d \in net, NEW rest, ServerReceive(d.msg, rest)
      PROVE  \A r \in Requests : runs[r] > 0 => runs'[r] > 0
  <2>1. CASE UNCHANGED runs
    BY <2>1
  <2>2. CASE Run(Session(d.msg), rest)
    <3>1. PICK q : runs' = [runs EXCEPT ![q] = IF @ = 0 THEN 1 ELSE 2]
      BY <2>2 DEF Run
    <3>2. runs \in [Requests -> 0 .. 2]
      BY DEF Base, TypeOK
    <3>. QED BY <3>1, <3>2
  <2>. QED BY <1>1, <2>1, <2>2 DEF ServerReceive, RunAgain
<1>2. CASE \E d \in net : Deliver(d)
  <2>1. PICK d \in net : Deliver(d)
    BY <1>2
  <2>2. PICK rest : \/ UNCHANGED runs
                    \/ ServerReceive(d.msg, rest)
    BY <2>1 DEF Deliver, ClientReceive, ClientReceiveStray, serverVars
  <2>. QED BY <1>1, <2>2
<1>3. CASE UNCHANGED runs
  BY <1>3
<1>4. CASE \/ UNCHANGED vars \/ Resolved \/ ResolveError \/ PeriodicalCheck \/ Tick
           \/ SessionDestructor
           \/ \E k \in 1 .. Len(waiting) : ResolvedFails(k)
           \/ \E r \in Requests : Send(r) \/ SendThrows(r)
           \/ \E d \in net : PeerReset(d)
  BY <1>3, <1>4 DEF vars, serverVars, clientVars, Resolved, ResolvedFails, ResolveError,
                    PeriodicalCheck, Tick, SessionDestructor, Send, SendThrows, PeerReset
<1>5. CASE \/ \E e \in cqueue : ClientResend(e) \/ ClientResendFails(e)
           \/ \E e \in squeue : ServerResend(e) \/ ServerResendFails(e)
           \/ \E s \in sessions : SessionSend(s) \/ SessionSendAck(s) \/ SessionEndObserve(s)
  BY <1>3, <1>5 DEF ClientResend, ClientResendFails, ServerResend, ServerResendFails,
                    SessionSend, SessionSendAck, SessionEndObserve, serverVars
<1>. QED BY <1>2, <1>4, <1>5 DEF Next

LEMMA ToldNext ==
  ASSUME Base, Numbered, Labelled, Honest, Told, [Next]_vars
  PROVE  Told'
<1>1. CASE UNCHANGED <<acked, answers>>
  <2>1. acked \subseteq Requests
    BY DEF Base, TypeOK
  <2>. QED BY <1>1, <2>1, RunsGrow DEF Told, AckMeansRun, OwnAnswer
<1>2. ASSUME NEW d \in net, Deliver(d) PROVE Told'
  <2>1. CASE UNCHANGED <<acked, answers>>
    BY <1>1, <2>1
  <2>2. PICK rest : \/ d.msg.to = "client" /\ \E i \in Matching(d.msg) : ClientReceive(d.msg, rest, i)
                    \/ ClientReceiveStray(d.msg, rest)
                    \/ ServerReceive(d.msg, rest)
    BY <1>2 DEF Deliver
  <2>3. CASE ClientReceiveStray(d.msg, rest) \/ ServerReceive(d.msg, rest)
    BY <2>1, <2>3 DEF ClientReceiveStray, ServerReceive, clientVars
  <2>. QED BY <2>2, <2>3, ToldReceive
<1>3. CASE \/ UNCHANGED vars \/ Resolved \/ ResolveError \/ PeriodicalCheck \/ Tick
           \/ SessionDestructor
           \/ \E k \in 1 .. Len(waiting) : ResolvedFails(k)
           \/ \E r \in Requests : Send(r) \/ SendThrows(r)
           \/ \E d \in net : PeerReset(d)
  BY <1>1, <1>3 DEF vars, clientVars, Resolved, ResolvedFails, ResolveError,
                    PeriodicalCheck, Tick, SessionDestructor, Send, SendThrows, PeerReset
<1>4. CASE \/ \E e \in cqueue : ClientResend(e) \/ ClientResendFails(e)
           \/ \E e \in squeue : ServerResend(e) \/ ServerResendFails(e)
           \/ \E s \in sessions : SessionSend(s) \/ SessionSendAck(s) \/ SessionEndObserve(s)
  BY <1>1, <1>4 DEF ClientResend, ClientResendFails, ServerResend, ServerResendFails,
                    SessionSend, SessionSendAck, SessionEndObserve, clientVars
<1>. QED BY <1>2, <1>3, <1>4 DEF Next

LEMMA HonestInit ==
  ASSUME Init
  PROVE  Numbered /\ Labelled /\ Honest /\ Told
<1>1. Taken = {}
  BY DEF Init, Taken
<1>2. Cardinality(Taken) = 0
  BY <1>1, FS_EmptySet
<1>3. Numbered
  BY <1>1, <1>2, IdAssumption DEF Numbered, Init
<1>4. Labelled
  BY DEF Labelled, Init
<1>5. Honest
  BY DEF Honest, Init
<1>6. Told
  BY DEF Told, AckMeansRun, OwnAnswer, Init
<1>. QED BY <1>3, <1>4, <1>5, <1>6

LEMMA ToldAlways == IdsSuffice => (Spec => []Told)
<1>. SUFFICES ASSUME IdsSuffice PROVE Spec => []Told
  OBVIOUS
<1>. DEFINE I == Base /\ Known /\ ToClient /\ Numbered /\ Labelled /\ Honest /\ Told
<1>1. Init => I
  BY BaseInit, KnownInit, HonestInit
<1>2. I /\ [Next]_vars => I'
  BY BaseNext, KnownNext, ToClientNext, NumberedNext, HonestNext, ToldNext
<1>3. I => Told
  OBVIOUS
<1>. HIDE DEF I
<1>. QED BY <1>1, <1>2, <1>3, PTL DEF Spec

\* onAck is called only for a request whose resource callback has run, however
\* acknowledgements are delayed, duplicated or reordered, for every number of
\* requests whose ids do not wrap (KprCoAPClientRequestMatchResponse compares
\* message ids only).
THEOREM AcksAreEarned ==
  ASSUME IdsSuffice
  PROVE  Spec => []AckMeansRun
<1>1. Spec => []Told
  BY ToldAlways
<1>2. Told => AckMeansRun
  BY DEF Told
<1>. QED BY <1>1, <1>2, PTL

\* onResponse of a request is called only with answers the server made for this
\* request, when ids do not wrap and tokens tell requests apart: the script sets
\* them, there are none, or every answer comes with an acknowledgement (which it
\* does where callbacks answer at once and the server's sends succeed).  Automatic
\* tokens are used again at once (KprCoAPClientEndRequest), and a late answer then
\* finds a newer request.
THEOREM AnswersFindTheirRequest ==
  ASSUME IdsSuffice, TokensSuffice
  PROVE  Spec => []OwnAnswer
<1>1. Spec => []Told
  BY ToldAlways
<1>2. Told => OwnAnswer
  BY DEF Told
<1>. QED BY <1>1, <1>2, PTL

-----------------------------------------------------------------------------
(* A request that is answered at once is acknowledged as often as it comes. *)

\* The last response of the session is the acknowledgement.
Answered(s) ==
  /\ s.con /\ ~s.emptyAck /\ ~s.obs /\ s.list = "finished"
  /\ s.last # {}
  /\ \A x \in s.last : x.to = "client" /\ x.type = "ACK" /\ x.mid = s.mid

AllAnswered == Prompt => \A s \in sessions : Answered(s)

\* The response to a new request acknowledges it.
LEMMA SendResponseAnswers ==
  ASSUME NEW s \in Sessions, NEW others, NEW rest, SendResponse(s, others, rest),
         ~s.obs, ~s.emptyAck, ~s.responded
  PROVE  /\ \A x \in sessions' : x \in others \/ Answered(x)
         /\ s.con => \E d \in net' : /\ d.msg.to = "client" /\ d.msg.type = "ACK"
                                      /\ d.msg.mid = s.mid /\ d.ttl = MaxLatency
<1>1. PICK m : m = Response(s)
  OBVIOUS
<1>2. m.to = "client" /\ (s.con => m.type = "ACK" /\ m.mid = s.mid)
  BY <1>1 DEF Response, Message, Piggybacks
<1>3. net' = rest \cup {Datagram(m)} /\ Datagram(m).msg = m /\ Datagram(m).ttl = MaxLatency
  BY <1>1 DEF SendResponse, Datagram
<1>4. PICK after : after = [s EXCEPT !.responded = TRUE, !.last = {m}, !.n = @ + 1]
  OBVIOUS
<1>5. sessions' = others \cup IF after.obs THEN {after} ELSE Finished(after)
  BY <1>1, <1>4 DEF SendResponse
<1>6. /\ after.last = {m} /\ after.mid = s.mid /\ after.con = s.con /\ after.obs = s.obs
      /\ after.emptyAck = s.emptyAck
  BY <1>4 DEF Sessions
<1>7. PICK f : f = [after EXCEPT !.list = "finished", !.obs = FALSE,
                                 !.obsReq = IF after.obs THEN FALSE ELSE @]
  OBVIOUS
<1>8. /\ f.last = {m} /\ f.mid = s.mid /\ f.con = s.con /\ ~f.obs /\ ~f.emptyAck
      /\ f.list = "finished"
  BY <1>4, <1>6, <1>7 DEF Sessions
<1>9. Finished(after) = IF s.con THEN {f} ELSE {}
  BY <1>6, <1>7 DEF Finished
<1>10. s.con => Answered(f)
  BY <1>2, <1>8 DEF Answered
<1>11. \A x \in sessions' : x \in others \/ Answered(x)
  BY <1>5, <1>6, <1>9, <1>10
<1>. QED BY <1>2, <1>3, <1>11

LEMMA RunAnswers ==
  ASSUME Prompt, NEW s \in Sessions, NEW rest, Run(s, rest),
         ~s.obs, ~s.obsReq, ~s.emptyAck, ~s.responded
  PROVE  /\ \A x \in sessions' : x \in sessions \/ Answered(x)
         /\ s.con => \E d \in net' : /\ d.msg.to = "client" /\ d.msg.type = "ACK"
                                      /\ d.msg.mid = s.mid /\ d.ttl = MaxLatency
<1>1. s.obs = FALSE /\ s.obsReq = FALSE
  BY DEF Sessions
<1>2. [s EXCEPT !.obs = FALSE] = s
  BY <1>1 DEF Sessions
<1>3. SendResponse(s, sessions, rest)
  BY <1>1, <1>2 DEF Run, Prompt
<1>. QED BY <1>3, SendResponseAnswers

\* What a copy of a request does to the server.
LEMMA CopyAnswered ==
  ASSUME Base, Known, Honest, AllAnswered, Prompt, NEW d \in net, Copy(d),
         NEW rest, ServerReceive(d.msg, rest)
  PROVE  /\ \A x \in sessions' : x \in sessions \/ Answered(x)
         /\ d.msg.type = "CON" => AckOf(d) # {}
<1>1. PICK m : m = d.msg
  OBVIOUS
<1>2. m \in Messages /\ Right(m) /\ m.to = "server" /\ m.type \in {"CON", "NON"}
  BY <1>1 DEF Base, TypeOK, Datagrams, Honest, Copy
<1>3. ASSUME \E x \in net' : /\ x.msg.to = "client" /\ x.msg.type = "ACK"
                             /\ x.msg.mid = m.mid /\ x.ttl = MaxLatency
      PROVE  AckOf(d) # {}
  BY <1>1, <1>3 DEF AckOf
<1>4. CASE \E s \in sessions : s.mid = m.mid
  <2>1. PICK s \in sessions : s.mid = m.mid /\ RunAgain(s, rest)
    <3>1. LET s == CHOOSE s \in sessions : s.mid = m.mid IN s \in sessions /\ s.mid = m.mid
      BY <1>4
    <3>2. RunAgain(CHOOSE s \in sessions : s.mid = m.mid, rest)
      BY <1>1, <1>2, <1>4 DEF ServerReceive
    <3>. QED BY <3>1, <3>2
  <2>2. Answered(s)
    BY DEF AllAnswered
  <2>3. (CHOOSE x \in s.last : TRUE) \in s.last
    BY <2>2 DEF Answered
  <2>4. PICK x \in s.last : net' = rest \cup {Datagram(x)} /\ UNCHANGED sessions
    BY <2>1, <2>2, <2>3 DEF RunAgain, Answered, Prompt
  <2>5. Datagram(x) \in net' /\ Datagram(x).msg = x /\ Datagram(x).ttl = MaxLatency
    BY <2>4 DEF Datagram
  <2>6. AckOf(d) # {}
    BY <1>3, <2>1, <2>2, <2>5 DEF Answered
  <2>. QED BY <2>4, <2>6
<1>5. CASE ~ \E s \in sessions : s.mid = m.mid
  <2>1. PICK s : s = Session(m)
    OBVIOUS
  <2>2. /\ s.mid = m.mid /\ ~s.obs /\ ~s.emptyAck /\ ~s.responded
        /\ s.obsReq = m.obs /\ s.con = (m.type = "CON")
    BY <2>1 DEF Session
  <2>3. s \in Sessions
    BY <1>2, <2>1, SessionType
  <2>4. ~m.obs
    BY <1>2 DEF Right, Prompt
  <2>5. Run(s, rest)
    BY <1>1, <1>2, <1>5, <2>1 DEF ServerReceive
  <2>6. /\ \A x \in sessions' : x \in sessions \/ Answered(x)
        /\ s.con => \E x \in net' : /\ x.msg.to = "client" /\ x.msg.type = "ACK"
                                     /\ x.msg.mid = s.mid /\ x.ttl = MaxLatency
    BY <2>2, <2>3, <2>4, <2>5, RunAnswers
  <2>. QED BY <1>1, <1>3, <2>2, <2>6
<1>. QED BY <1>4, <1>5

LEMMA DeliverAnswers ==
  ASSUME Base, Known, Honest, AllAnswered, Prompt, NEW d \in net, Deliver(d)
  PROVE  /\ \A x \in sessions' : x \in sessions \/ Answered(x)
         /\ Copy(d) /\ d.msg.type = "CON" => AckOf(d) # {}
<1>1. PICK rest : \/ d.msg.to = "client" /\ UNCHANGED serverVars
                  \/ d.msg.to = "server" /\ ServerReceive(d.msg, rest)
  BY DEF Deliver, ClientReceive, ClientReceiveStray
<1>2. CASE d.msg.to = "client" /\ UNCHANGED serverVars
  BY <1>2 DEF serverVars, Copy
<1>3. CASE d.msg.to = "server" /\ ServerReceive(d.msg, rest)
  <2>1. CASE Copy(d)
    BY <1>3, <2>1, CopyAnswered
  <2>2. CASE ~Copy(d)
    <3>1. d.msg.type \notin {"CON", "NON"}
      BY <1>3, <2>2 DEF Copy
    <3>2. sessions' \subseteq sessions
      BY <1>3, <3>1 DEF ServerReceive, Invalidate
    <3>. QED BY <2>2, <3>2
  <2>. QED BY <2>1, <2>2
<1>. QED BY <1>1, <1>2, <1>3

LEMMA AnsweredNext ==
  ASSUME Base, Known, Honest, AllAnswered, [Next]_vars
  PROVE  AllAnswered'
<1>. SUFFICES ASSUME Prompt PROVE \A x \in sessions' : Answered(x)
  BY DEF AllAnswered, Answered, Prompt
<1>1. \A s \in sessions : Answered(s)
  BY DEF AllAnswered
<1>2. CASE sessions' \subseteq sessions
  BY <1>1, <1>2
<1>3. ASSUME NEW d \in net, Deliver(d) PROVE \A x \in sessions' : Answered(x)
  BY <1>1, <1>3, DeliverAnswers
<1>4. ASSUME NEW s \in sessions, SessionSend(s) \/ SessionSendAck(s) \/ SessionEndObserve(s)
      PROVE  FALSE
  BY <1>1, <1>4 DEF Answered, SessionSend, SessionSendAck, SessionEndObserve
<1>5. CASE Tick
  <2>1. ASSUME NEW s \in sessions PROVE Answered([s EXCEPT !.life = IF @ = 0 THEN 0 ELSE @ - 1])
    <3>1. PICK x : x = [s EXCEPT !.life = IF @ = 0 THEN 0 ELSE @ - 1]
      OBVIOUS
    <3>2. /\ x.con = s.con /\ x.emptyAck = s.emptyAck /\ x.obs = s.obs /\ x.list = s.list
          /\ x.last = s.last /\ x.mid = s.mid
      BY <3>1 DEF Base, TypeOK, Sessions
    <3>3. Answered(x)
      BY <1>1, <3>2 DEF Answered
    <3>. QED BY <3>1, <3>3
  <2>. QED BY <1>5, <2>1 DEF Tick
<1>6. CASE \/ UNCHANGED vars \/ Resolved \/ ResolveError \/ PeriodicalCheck
           \/ SessionDestructor
           \/ \E k \in 1 .. Len(waiting) : ResolvedFails(k)
           \/ \E r \in Requests : Send(r) \/ SendThrows(r)
           \/ \E d \in net : PeerReset(d)
           \/ \E e \in cqueue : ClientResend(e) \/ ClientResendFails(e)
           \/ \E e \in squeue : ServerResend(e) \/ ServerResendFails(e)
  <2>1. sessions' \subseteq sessions
    BY <1>6 DEF vars, serverVars, Resolved, ResolvedFails, ResolveError,
                PeriodicalCheck, SessionDestructor, Send, SendThrows, PeerReset, ClientResend,
                ClientResendFails, ServerResend, ServerResendFails, Invalidate
  <2>. QED BY <1>2, <2>1
<1>. QED BY <1>3, <1>4, <1>5, <1>6 DEF Next

\* Whenever a confirmable request reaches a server whose callbacks answer at
\* once and whose sends succeed, an acknowledgement with its id leaves in the
\* same step, whether the callback runs (KprCoAPServerSessionRun) or the request
\* was received before (KprCoAPServerSessionRunAgain): for every loss, delay,
\* duplication and reset, with observed requests and later answers left aside.
THEOREM EveryCopyAcknowledged ==
  ASSUME Prompt
  PROVE  Spec => Acknowledges
<1>. DEFINE I == Base /\ Known /\ ToClient /\ Labelled /\ Honest /\ AllAnswered
            A == \A d \in net : d.msg.to = "server" /\ d.msg.type = "CON" /\ Deliver(d)
                                  => AckOf(d) # {}
<1>1. Init => I
  <2>1. Init => AllAnswered
    BY DEF Init, AllAnswered
  <2>. QED BY <2>1, BaseInit, KnownInit, HonestInit
<1>2. I /\ [Next]_vars => I'
  BY BaseNext, KnownNext, ToClientNext, HonestNext, AnsweredNext
<1>3. I /\ [Next]_vars => [A]_vars
  BY DeliverAnswers DEF Copy
<1>. HIDE DEF I
<1>4. Init /\ [][Next]_vars => [][A]_vars
  BY <1>1, <1>2, <1>3, PTL
<1>. QED BY <1>4 DEF Spec, Acknowledges

=============================================================================
