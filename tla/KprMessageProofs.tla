-------------------------- MODULE KprMessageProofs --------------------------
(***************************************************************************)
(* Core is an invariant of every careful instance of KprMessage: the steps  *)
(* that end with KprMessageComplete, and the invocation of a handler.       *)
(***************************************************************************)
EXTENDS KprMessageTypes

(* What B is, so that B itself need not be expanded. *)
LEMMA BValue == /\ \A x : B(x) \in {0, 1}
                /\ \A x : x => B(x) = 1
                /\ \A x : ~x => B(x) = 0
  BY DEF B

(* The terms of the sum, and what a count of zero says. *)
LEMMA Terms ==
  ASSUME TypeOK, UsageCounts, NEW m \in Message
  PROVE  /\ usage[m] \in Nat /\ host[m] \in Nat /\ Posted(m) \in Nat
         /\ usage[m] = host[m] + B(request[m] # None) + B(m \in messages) + Posted(m)
                       + B(response[m] # None)
         /\ usage[m] >= host[m]
         /\ request[m] # None => usage[m] >= 1 + host[m]
         /\ m \in messages => usage[m] >= 1 + host[m]
         /\ response[m] # None => usage[m] >= 1 + host[m]
         /\ request[m] # None /\ m \in messages => usage[m] >= 2 + host[m]
         /\ \A i \in DOMAIN shellQ :
              shellQ[i].m = m /\ shellQ[i].ev \in Counted => usage[m] >= 1 + host[m]
<1>1. /\ usage[m] = host[m] + B(request[m] # None) + B(m \in messages) + Posted(m)
                    + B(response[m] # None)
      /\ host[m] \in Nat
  BY DEF TypeOK, UsageCounts
<1>2. /\ Posted(m) \in Nat
      /\ \A i \in DOMAIN shellQ :
           shellQ[i].m = m /\ shellQ[i].ev \in Counted => Posted(m) >= 1
  BY CountNat DEF TypeOK, Posted
<1> QED
  BY <1>1, <1>2 DEF B

LEMMA EventFields ==
  ASSUME NEW q \in Seq(EventRecords), NEW i \in DOMAIN q
  PROVE  q[i] \in EventRecords /\ q[i].m \in Message /\ q[i].ev \in Events
<1>1. q[i] \in EventRecords
  OBVIOUS
<1> QED
  BY <1>1 DEF EventRecords

LEMMA CountPost ==
  ASSUME NEW q \in Seq(EventRecords), NEW m \in Message, NEW s, NEW k \in Events, NEW n
  PROVE  CountedIn(PostShell(q, m, s, k), n)
           = CountedIn(q, n) + B(s = "xkpr" /\ n = m /\ k \in Counted)
<1>1. Event(k, m) \in EventRecords /\ Event(k, m).m = m /\ Event(k, m).ev = k
  BY DEF Event, EventRecords
<1>2. CountedIn(q, n) \in Nat
  BY CountNat
<1>3. CASE s = "xkpr"
  <2>1. CountedIn(Append(q, Event(k, m)), n) = CountedIn(q, n) + Counts(Event(k, m), n)
    BY <1>1, CountAppend
  <2>2. Counts(Event(k, m), n) = B(s = "xkpr" /\ n = m /\ k \in Counted)
    BY <1>1, <1>3 DEF Counts, B
  <2> QED
    BY <1>3, <2>1, <2>2 DEF PostShell
<1>4. CASE s # "xkpr"
  BY <1>2, <1>4 DEF PostShell, B
<1> QED
  BY <1>3, <1>4

(* A callback is delivered: the head of the queue. *)
LEMMA Delivery ==
  ASSUME TypeOK, NEW k \in Events, NEW m \in Message, Deliver(k, m)
  PROVE  /\ 1 \in DOMAIN shellQ /\ shellQ[1].ev = k /\ shellQ[1].m = m
         /\ Tail(shellQ) \in Seq(EventRecords)
         /\ \A i \in DOMAIN Tail(shellQ) : i + 1 \in DOMAIN shellQ /\ Tail(shellQ)[i] = shellQ[i + 1]
         /\ \A i \in DOMAIN shellQ : i # 1 =>
              i - 1 \in DOMAIN Tail(shellQ) /\ Tail(shellQ)[i - 1] = shellQ[i]
         /\ \A n : CountedIn(Tail(shellQ), n) = Posted(n) - B(n = m /\ k \in Counted)
         /\ stack = <<>> /\ walk = None
<1>1. /\ shellQ \in Seq(EventRecords) /\ shellQ # <<>> /\ Head(shellQ) = Event(k, m)
      /\ Event(k, m).m = m /\ Event(k, m).ev = k /\ stack = <<>> /\ walk = None
  BY DEF Deliver, Idle, TypeOK, Event
<1>2. /\ Tail(shellQ) \in Seq(EventRecords)
      /\ \A i \in DOMAIN Tail(shellQ) : i + 1 \in DOMAIN shellQ /\ Tail(shellQ)[i] = shellQ[i + 1]
      /\ \A i \in DOMAIN shellQ : i # 1 =>
              i - 1 \in DOMAIN Tail(shellQ) /\ Tail(shellQ)[i - 1] = shellQ[i]
      /\ 1 \in DOMAIN shellQ /\ shellQ[1] = Head(shellQ)
  BY <1>1
<1>3. \A n : CountedIn(Tail(shellQ), n) = CountedIn(shellQ, n) - Counts(Head(shellQ), n)
  BY <1>1, CountTail
<1>4. \A n : Counts(Head(shellQ), n) = B(n = m /\ k \in Counted)
  BY <1>1 DEF Counts, B
<1> QED
  BY <1>1, <1>2, <1>3, <1>4 DEF Posted

(* The queue after a post. *)
LEMMA Posting ==
  ASSUME NEW q \in Seq(EventRecords), NEW m \in Message, NEW s, NEW k \in Events,
         NEW r, r = PostShell(q, m, s, k)
  PROVE  /\ r \in Seq(EventRecords)
         /\ \A i \in DOMAIN q : i \in DOMAIN r /\ r[i] = q[i]
         /\ \A i \in DOMAIN r : i \in DOMAIN q \/ (s = "xkpr" /\ r[i].ev = k /\ r[i].m = m /\ r[i] = Event(k, m))
         /\ \A i, j \in DOMAIN r : i \notin DOMAIN q => j <= i
         /\ s = "xkpr" => \E i \in DOMAIN r : r[i] = Event(k, m)
<1>1. Event(k, m) \in EventRecords /\ Event(k, m).ev = k /\ Event(k, m).m = m
  BY DEF Event, EventRecords
<1>2. CASE s = "xkpr"
  <2>1. r = Append(q, Event(k, m))
    BY <1>2 DEF PostShell
  <2>2. /\ r \in Seq(EventRecords) /\ Len(r) = Len(q) + 1
        /\ \A i \in 1 .. Len(q) : r[i] = q[i]
        /\ r[Len(q) + 1] = Event(k, m)
    BY <1>1, <2>1, AppendSeq
  <2>3. DOMAIN r = 1 .. Len(q) + 1 /\ DOMAIN q = 1 .. Len(q) /\ Len(q) \in Nat
    BY <2>2
  <2> QED
    BY <1>1, <1>2, <2>2, <2>3
<1>3. CASE s # "xkpr"
  BY <1>3 DEF PostShell
<1> QED
  BY <1>2, <1>3

-----------------------------------------------------------------------------
(* KprMessageComplete(m), which five actions end with.  Ready is the         *)
(* invariant of the state it starts from: usage counts u, response targets   *)
(* r, shell queue q, and the frames `below', which all wait to clean up.     *)

ReadyCounts(u, r, q) ==
  \A n \in Message :
    /\ u[n] = host[n] + B(request[n] # None) + B(n \in messages) + CountedIn(q, n)
              + B(r[n] # None)
    /\ alive[n] # "live" => u[n] = 0

ReadyWaiting(below) ==
  \A n \in Message :
    /\ waiting[n] => n \in messages
    /\ request[n] # None =>
         (n \in messages /\ waiting[n]) \/ \E i \in DOMAIN below : below[i].m = n

ReadyFrames(below) ==
  /\ \A i \in DOMAIN below :
       /\ below[i].at = "cleanup" /\ below[i].handles = None
       /\ ~below[i].script /\ below[i].wrap = None
       /\ request[below[i].m] # None /\ below[i].m \notin messages
  /\ \A i, j \in DOMAIN below : i # j => below[i].m # below[j].m

ReadyQueue(m, r, q) ==
  /\ \A i \in DOMAIN q : q[i].ev = "cancel" =>
       /\ Cancels # {} /\ ~waiting[q[i].m] /\ url[q[i].m] = "xkpr"
       /\ \A j \in DOMAIN q : q[j] = Event("invoke", q[i].m) => j < i
  /\ \A i \in DOMAIN q : q[i].ev \in {"complete", "progress"} => url[q[i].m] = "http"
  /\ \A i \in DOMAIN q : q[i].ev = "invoke" =>
       /\ url[q[i].m] = "xkpr"
       /\ q[i].m \notin WaitMessage => q[i].m \in messages /\ r[q[i].m] = None /\ q[i].m # m
       /\ \A j \in DOMAIN q : q[j] = q[i] => j = i
  /\ \A n \in messages : url[n] = "xkpr" /\ r[n] = None /\ n # m =>
       \E i \in DOMAIN q : q[i] = Event("invoke", n)

ReadyLinks(m, r) ==
  /\ \A f \in Message : r[f] \in Message => request[r[f]] = f /\ r[f] \in messages
  /\ \A n \in messages : request[n] \in Message => r[request[n]] = n
  /\ \A n \in Message : request[n] # n
  /\ \A f \in Message : r[f] # None => f \in messages /\ url[f] = "xkpr"
  /\ r[m] = None

ReadyRest(r) ==
  /\ \A n \in Message : location[n] # "nil" =>
       location[n] \in RedirectTo /\ "redirect" \in Script
  /\ walk = None
  /\ \A n \in held : url[n] = "http"
  /\ \A i \in DOMAIN serviceQ : url[serviceQ[i].m] = "http"
  /\ \A w \in WaitMessage : /\ location[w] = "nil" /\ url[w] = "xkpr"
                            /\ r[w] \in {None, ContentWait}
                            /\ \A n \in Message : request[n] # w
  /\ \A n \in Message \ WaitMessage : r[n] # ContentWait

Ready(m, u, r, q, below) ==
  /\ u \in [Message -> Int] /\ r \in [Message -> Responses]
  /\ q \in Seq(EventRecords) /\ below \in Seq(Frames)
  /\ ReadyCounts(u, r, q) /\ ReadyWaiting(below) /\ ReadyFrames(below)
  /\ ReadyQueue(m, r, q) /\ ReadyLinks(m, r) /\ ReadyRest(r)

(* The parts of Core other than TypeOK. *)
Safe == /\ UsageCounts /\ InvLive /\ InvWaiting /\ InvScript /\ InvCancel
        /\ InvOwed /\ InvHttp /\ InvWait /\ InvInvoke /\ InvLinked /\ InvFrames

LEMMA AbsentSafe ==
  ASSUME Careful, TypeOK, NEW m \in Message, NEW u, NEW r, NEW q, NEW below,
         Ready(m, u, r, q, below), Absent(m, u, r, q, below), UNCHANGED <<held, walk>>
  PROVE  Safe'
<1> USE ConstantsAssumption
<1>0. /\ m \notin messages
      /\ usage' = u /\ response' = r /\ shellQ' = q /\ stack' = below
      /\ alive' = alive /\ host' = host /\ waiting' = waiting /\ url' = url
      /\ location' = location /\ request' = request /\ messages' = messages
      /\ serviceQ' = serviceQ /\ held' = held /\ walk' = walk
  BY DEF Absent, data, list
<1>1. UsageCounts' /\ InvLive'
  BY <1>0 DEF Ready, ReadyCounts, UsageCounts, InvLive, Posted
<1>2. InvWaiting'
  BY <1>0 DEF Ready, ReadyWaiting, ReadyFrames, InvWaiting, Completing
<1>3. InvScript'
  BY <1>0 DEF Ready, ReadyRest, ReadyFrames, InvScript
<1>4. InvCancel'
  BY <1>0 DEF Ready, ReadyQueue, InvCancel
<1>5. InvOwed'
  BY <1>0 DEF Ready, ReadyQueue, InvOwed, Has
<1>6. InvHttp'
  BY <1>0 DEF Ready, ReadyQueue, ReadyRest, ReadyLinks, InvHttp
<1>7. InvWait'
  BY <1>0 DEF Ready, ReadyRest, ReadyFrames, InvWait
<1>8. InvInvoke'
  BY <1>0 DEF Ready, ReadyQueue, ReadyFrames, InvInvoke
<1>9. InvLinked'
  BY <1>0 DEF Ready, ReadyLinks, InvLinked
<1>10. InvFrames'
  <2>1. \A i \in DOMAIN below : i < Len(below) => below[i].at = "cleanup"
    BY DEF Ready, ReadyFrames
  <2> QED
    BY <1>0, <2>1 DEF Ready, ReadyFrames, InvFrames, Notifying
<1> QED
  BY <1>1, <1>2, <1>3, <1>4, <1>5, <1>6, <1>7, <1>8, <1>9, <1>10 DEF Safe

LEMMA ReinvokedSafe ==
  ASSUME Careful, TypeOK, NEW m \in Message, NEW u, NEW r, NEW q, NEW below,
         Ready(m, u, r, q, below), Reinvoked(m, u, r, q, below), UNCHANGED <<held, walk>>
  PROVE  Safe'
<1> USE ConstantsAssumption
<1>0. /\ m \in messages /\ Redirected(m) /\ location[m] \in Accepted
      /\ url' = [url EXCEPT ![m] = location[m]]
      /\ location' = [location EXCEPT ![m] = "nil"]
      /\ waiting' = [waiting EXCEPT ![m] = TRUE]
      /\ usage' = [u EXCEPT ![m] = @ + B(location[m] = "xkpr")]
      /\ shellQ' = PostShell(q, m, location[m], "invoke")
      /\ serviceQ' = PostService(serviceQ, m, location[m], "invoke")
      /\ response' = r /\ stack' = below
      /\ alive' = alive /\ host' = host /\ request' = request /\ messages' = messages
      /\ held' = held /\ walk' = walk
  BY DEF Reinvoked, list
<1>1. /\ url[m] = "xkpr" /\ location[m] # "nil" /\ Cancels = {} /\ m \notin WaitMessage
      /\ location[m] \in {"xkpr", "http"}
  BY <1>0 DEF Redirected, Ready, ReadyRest, Careful, Accepted
<1>2. \A i \in DOMAIN q : /\ q[i].ev # "cancel"
                          /\ q[i].m = m => q[i].ev \notin {"invoke", "complete", "progress"}
  BY <1>0, <1>1 DEF Ready, ReadyQueue
<1>3. /\ \A i \in DOMAIN q : i \in DOMAIN shellQ' /\ shellQ'[i] = q[i]
      /\ \A i \in DOMAIN shellQ' :
           i \in DOMAIN q \/ (location[m] = "xkpr" /\ shellQ'[i].ev = "invoke" /\ shellQ'[i].m = m)
      /\ \A i, j \in DOMAIN shellQ' : i \notin DOMAIN q => j <= i
      /\ location[m] = "xkpr" => \E i \in DOMAIN shellQ' : shellQ'[i] = Event("invoke", m)
      /\ DOMAIN q \subseteq Int /\ DOMAIN shellQ' \subseteq Int
  <2>1. q \in Seq(EventRecords) /\ "invoke" \in Events
    BY DEF Ready, Events
  <2> QED
    BY <1>0, <2>1, Posting
<1>4. \A n \in Message : CountedIn(shellQ', n) = CountedIn(q, n) + B(location[m] = "xkpr" /\ n = m)
  BY <1>0, CountPost DEF Ready, Events, Counted
<1>5. UsageCounts'
  <2> SUFFICES ASSUME NEW n \in Message
               PROVE  usage'[n] = host[n] + B(request[n] # None) + B(n \in messages)
                                  + CountedIn(shellQ', n) + B(r[n] # None)
    BY <1>0 DEF UsageCounts, Posted
  <2>1. /\ u[n] = host[n] + B(request[n] # None) + B(n \in messages) + CountedIn(q, n)
                  + B(r[n] # None)
        /\ CountedIn(q, n) \in Nat /\ host[n] \in Nat /\ u \in [Message -> Int]
    BY CountNat DEF Ready, ReadyCounts, TypeOK
  <2>2. usage'[n] = u[n] + B(location[m] = "xkpr" /\ n = m)
    BY <1>0, <2>1 DEF B
  <2> QED
    BY <1>4, <2>1, <2>2 DEF B
<1>6. InvLive'
  <2>1. /\ u[m] = host[m] + B(request[m] # None) + B(m \in messages) + CountedIn(q, m)
                  + B(r[m] # None)
        /\ CountedIn(q, m) \in Nat /\ host[m] \in Nat /\ u \in [Message -> Int]
    BY CountNat DEF Ready, ReadyCounts, TypeOK
  <2>2. u[m] # 0
    BY <1>0, <2>1 DEF B
  <2> QED
    BY <1>0, <2>2 DEF Ready, ReadyCounts, InvLive
<1>7. InvWaiting'
  BY <1>0 DEF Ready, ReadyWaiting, ReadyFrames, InvWaiting, Completing, TypeOK
<1>8. InvScript'
  BY <1>0 DEF Ready, ReadyRest, ReadyFrames, InvScript, TypeOK
<1>9. InvCancel'
  BY <1>0, <1>2, <1>3 DEF InvCancel
<1>10. InvOwed'
  BY <1>0, <1>3 DEF Ready, ReadyQueue, InvOwed, Has, TypeOK
<1>11. InvHttp'
  <2>1. \A i \in DOMAIN serviceQ' : url'[serviceQ'[i].m] = "http"
    <3>1. CASE location[m] = "http"
      <4>1. serviceQ' = Append(serviceQ, Event("invoke", m))
        BY <1>0, <3>1 DEF PostService
      <4>2. Event("invoke", m) \in EventRecords /\ Event("invoke", m).m = m
        BY DEF Event, EventRecords, Events
      <4>3. \A i \in DOMAIN serviceQ' : (i \in DOMAIN serviceQ /\ serviceQ'[i] = serviceQ[i])
                                        \/ serviceQ'[i].m = m
        BY <4>1, <4>2, AppendSeq DEF TypeOK
      <4>4. \A i \in DOMAIN serviceQ : serviceQ[i].m \in Message
        BY EventFields DEF TypeOK
      <4> QED
        BY <1>0, <3>1, <4>3, <4>4 DEF Ready, ReadyRest, TypeOK
    <3>2. CASE location[m] # "http"
      <4>1. serviceQ' = serviceQ
        BY <1>0, <3>2 DEF PostService
      <4>2. \A i \in DOMAIN serviceQ : serviceQ[i].m \in Message
        BY EventFields DEF TypeOK
      <4> QED
        BY <1>0, <1>1, <4>1, <4>2 DEF Ready, ReadyRest, TypeOK
    <3> QED
      BY <3>1, <3>2
  <2>2. \A i \in DOMAIN shellQ' :
          shellQ'[i].ev \in {"complete", "progress"} => url'[shellQ'[i].m] = "http"
    <3>1. \A i \in DOMAIN q : q[i].m \in Message
      BY EventFields DEF Ready
    <3> QED
      BY <1>0, <1>2, <1>3, <3>1 DEF Ready, ReadyQueue, TypeOK
  <2>3. \A n \in held' : url'[n] = "http"
    BY <1>0, <1>1 DEF Ready, ReadyRest, TypeOK
  <2>4. \A n \in Message : response'[n] # None => url'[n] = "xkpr"
    BY <1>0, <1>1 DEF Ready, ReadyLinks, TypeOK
  <2> QED
    BY <2>1, <2>2, <2>3, <2>4 DEF InvHttp
<1>12. InvWait'
  BY <1>0, <1>1 DEF Ready, ReadyRest, ReadyFrames, InvWait, TypeOK
<1>13. InvInvoke'
  <2>1. \A i \in DOMAIN q : q[i].m \in Message
    BY EventFields DEF Ready
  <2> SUFFICES ASSUME NEW i \in DOMAIN shellQ', shellQ'[i].ev = "invoke"
               PROVE  /\ url'[shellQ'[i].m] = "xkpr"
                      /\ shellQ'[i].m \notin WaitMessage =>
                           shellQ'[i].m \in messages /\ r[shellQ'[i].m] = None
                      /\ \A j \in DOMAIN shellQ' : shellQ'[j] = shellQ'[i] => j = i
    BY <1>0 DEF Ready, ReadyFrames, InvInvoke
  <2>2. CASE i \in DOMAIN q
    <3>1. shellQ'[i] = q[i] /\ q[i].m # m /\ q[i].m \in Message /\ q[i].ev = "invoke"
      BY <1>2, <1>3, <2>1, <2>2
    <3>2. /\ url[q[i].m] = "xkpr"
          /\ q[i].m \notin WaitMessage => q[i].m \in messages /\ r[q[i].m] = None
          /\ \A j \in DOMAIN q : q[j] = q[i] => j = i
      BY <2>2, <3>1 DEF Ready, ReadyQueue
    <3> QED
      BY <1>0, <1>3, <3>1, <3>2 DEF TypeOK
  <2>3. CASE i \notin DOMAIN q
    <3>1. location[m] = "xkpr" /\ shellQ'[i].m = m
      BY <1>3, <2>3
    <3>2. \A j \in DOMAIN shellQ' : j # i => shellQ'[j] # shellQ'[i]
      <4> SUFFICES ASSUME NEW j \in DOMAIN shellQ', j # i, shellQ'[j] = shellQ'[i]
                   PROVE  FALSE
        OBVIOUS
      <4>1. j \in DOMAIN q
        BY <1>3, <2>3
      <4> QED
        BY <1>2, <1>3, <3>1, <4>1
    <3> QED
      BY <1>0, <3>1, <3>2 DEF Ready, ReadyLinks, TypeOK
  <2> QED
    BY <2>2, <2>3
<1>14. InvLinked'
  BY <1>0 DEF Ready, ReadyLinks, InvLinked
<1>15. InvFrames'
  <2>1. \A i \in DOMAIN below : i < Len(below) => below[i].at = "cleanup"
    BY DEF Ready, ReadyFrames
  <2> QED
    BY <1>0, <2>1 DEF Ready, ReadyFrames, InvFrames, Notifying
<1> QED
  BY <1>5, <1>6, <1>7, <1>8, <1>9, <1>10, <1>11, <1>12, <1>13, <1>14, <1>15 DEF Safe

LEMMA DeliveredSafe ==
  ASSUME Careful, TypeOK, NEW m \in Message, NEW u, NEW r, NEW q, NEW below,
         Ready(m, u, r, q, below), Delivered(m, u, r, q, below), UNCHANGED <<held, walk>>
  PROVE  Safe'
<1> USE ConstantsAssumption
<1> DEFINE t == request[m]
<1>1. ~Redirected(m)
  BY DEF Delivered, Redirected, Ready, ReadyRest, Careful
<1>2. /\ m \in messages
      /\ waiting' = [waiting EXCEPT ![m] = FALSE]
      /\ url' = url /\ location' = location
      /\ messages' = messages \ {m} /\ shellQ' = q
      /\ request' = request /\ serviceQ' = serviceQ
      /\ held' = held /\ walk' = walk
  BY <1>1 DEF Delivered, TypeOK
<1>3. /\ \A n \in Message :
           /\ u[n] = host[n] + B(request[n] # None) + B(n \in messages) + CountedIn(q, n)
                     + B(r[n] # None)
           /\ CountedIn(q, n) \in Nat /\ host[n] \in Nat /\ u[n] \in Int
           /\ alive[n] # "live" => u[n] = 0
      /\ host \in [Message -> Nat] /\ u \in [Message -> Int]
  BY CountNat DEF Ready, ReadyCounts, TypeOK
<1>4. \A i \in DOMAIN q : q[i].m \in Message
  BY EventFields DEF Ready
<1>5. InvCancel'
  BY <1>2, <1>4 DEF Ready, ReadyQueue, InvCancel, TypeOK
<1>6. CASE t = None
  <2>1. /\ usage' = [u EXCEPT ![m] = u[m] - 1]
        /\ Free(IF u[m] - 1 = 0 THEN {m} ELSE {})
        /\ stack' = below /\ response' = r /\ host' = host
    BY <1>1, <1>3, <1>6 DEF Delivered, B
  <2>2. UsageCounts'
    <3> SUFFICES ASSUME NEW n \in Message
                 PROVE  usage'[n] = host[n] + B(request[n] # None) + B(n \in messages')
                                    + CountedIn(q, n) + B(r[n] # None)
      BY <1>2, <2>1 DEF UsageCounts, Posted
    <3> QED
      BY <1>2, <1>3, <2>1 DEF B
  <2>3. InvLive'
    BY <1>2, <1>3, <2>1 DEF InvLive, Free, B
  <2>4. InvWaiting'
    BY <1>2, <1>6, <2>1 DEF Ready, ReadyWaiting, ReadyFrames, InvWaiting, Completing, TypeOK
  <2>5. InvScript'
    BY <1>2, <2>1 DEF Ready, ReadyRest, ReadyFrames, InvScript
  <2>6. InvOwed'
    BY <1>2, <2>1 DEF Ready, ReadyQueue, InvOwed, Has
  <2>7. InvHttp'
    BY <1>2, <2>1 DEF Ready, ReadyQueue, ReadyRest, ReadyLinks, InvHttp
  <2>8. InvWait'
    BY <1>2, <2>1 DEF Ready, ReadyRest, ReadyFrames, InvWait
  <2>9. InvInvoke'
    BY <1>2, <2>1 DEF Ready, ReadyQueue, ReadyFrames, InvInvoke
  <2>10. InvLinked'
    BY <1>2, <1>6, <2>1 DEF Ready, ReadyLinks, InvLinked
  <2>11. InvFrames'
    <3>1. \A i \in DOMAIN below : i < Len(below) => below[i].at = "cleanup"
      BY DEF Ready, ReadyFrames
    <3> QED
      BY <1>2, <2>1, <3>1 DEF Ready, ReadyFrames, InvFrames, Notifying
  <2> QED
    BY <1>5, <2>2, <2>3, <2>4, <2>5, <2>6, <2>7, <2>8, <2>9, <2>10, <2>11 DEF Safe
<1>7. CASE t # None
  <2> DEFINE handles == IF t \in Message THEN t ELSE None
             top == Len(below) + 1
  <2>1. PICK script \in BOOLEAN :
          /\ host' = [host EXCEPT ![m] = @ + B(script)]
          /\ usage' = [n \in Message |->
                         (IF n = m THEN u[m] - 1 + B(script) ELSE u[n]) - B(n = t)]
          /\ response' = [n \in Message |-> IF n = t THEN None ELSE r[n]]
          /\ stack' = Push(below, Frame("complete", m, handles, script /\ t # Promise,
                                        IF script /\ t # Promise THEN m ELSE None))
          /\ alive' = alive
    BY <1>1, <1>3, <1>7 DEF Delivered, B
  <2>2. /\ t # m
        /\ t \in Message => r[t] = m /\ t \in messages /\ url[t] = "xkpr"
        /\ r[m] = None
    BY <1>2 DEF Ready, ReadyLinks
  <2>3. /\ DOMAIN below = 1 .. Len(below) /\ Len(below) \in Nat
        /\ DOMAIN stack' = 1 .. top /\ Len(stack') = top
        /\ \A i \in DOMAIN below : stack'[i] = below[i]
        /\ stack'[top].at = "complete" /\ stack'[top].m = m
        /\ stack'[top].handles = handles
        /\ stack'[top].script = (script /\ t # Promise)
        /\ stack'[top].wrap = IF script /\ t # Promise THEN m ELSE None
    <3>1. below \in Seq(Frames)
      BY DEF Ready
    <3> QED
      BY <2>1, <3>1 DEF Push, Frame
  <2>4. UsageCounts'
    <3> SUFFICES ASSUME NEW n \in Message
                 PROVE  usage'[n] = host'[n] + B(request[n] # None) + B(n \in messages')
                                    + CountedIn(q, n) + B(response'[n] # None)
      BY <1>2 DEF UsageCounts, Posted
    <3> QED
      BY <1>2, <1>3, <2>1, <2>2 DEF B
  <2>5. InvLive'
    BY <1>2, <1>3, <2>1, <2>2 DEF InvLive, B
  <2>6. InvWaiting'
    <3>1. \A n \in Message : (\E i \in DOMAIN below : below[i].m = n) => Completing(n)'
      BY <2>3 DEF Ready, ReadyFrames, Completing
    <3>2. Completing(m)'
      BY <2>3 DEF Completing
    <3> QED
      BY <1>2, <3>1, <3>2 DEF Ready, ReadyWaiting, InvWaiting, TypeOK
  <2>7. InvScript'
    <3>1. \A i \in DOMAIN stack' : stack'[i].at # "cancel"
      BY <2>3 DEF Ready, ReadyFrames
    <3> QED
      BY <1>2, <3>1 DEF Ready, ReadyRest, InvScript
  <2>8. InvOwed'
    <3>1. (Top').at = "complete" /\ (Top').handles = handles /\ stack' # <<>>
      BY <2>3 DEF Top
    <3> QED
      BY <1>2, <2>1, <2>2, <3>1 DEF Ready, ReadyQueue, InvOwed, Has, TypeOK
  <2>9. InvHttp'
    BY <1>2, <2>1 DEF Ready, ReadyQueue, ReadyRest, ReadyLinks, InvHttp
  <2>10. InvWait'
    <3>1. handles \notin WaitMessage
      BY DEF Ready, ReadyRest
    <3>2. \A i \in DOMAIN stack' : stack'[i].handles \notin WaitMessage
      BY <2>3, <3>1 DEF Ready, ReadyFrames
    <3> QED
      BY <1>2, <2>1, <3>2 DEF Ready, ReadyRest, InvWait
  <2>11. InvInvoke'
    <3>1. \A i \in DOMAIN q : q[i].ev = "invoke" => q[i].m # t
      <4> SUFFICES ASSUME NEW i \in DOMAIN q, q[i].ev = "invoke", q[i].m = t
                   PROVE  FALSE
        OBVIOUS
      <4>1. t \in Message /\ t \notin WaitMessage
        BY <1>4 DEF Ready, ReadyRest
      <4>2. r[t] = None
        BY <4>1 DEF Ready, ReadyQueue
      <4> QED
        BY <2>2, <4>1, <4>2
    <3>2. \A k \in DOMAIN stack' : stack'[k].handles \in {None, t}
      BY <2>3 DEF Ready, ReadyFrames
    <3> QED
      BY <1>2, <1>4, <2>1, <3>1, <3>2 DEF Ready, ReadyQueue, InvInvoke
  <2>12. InvLinked'
    BY <1>2, <2>1, <2>2 DEF Ready, ReadyLinks, InvLinked, TypeOK
  <2>13. InvFrames'
    <3>1. \A i \in DOMAIN stack' : i \in DOMAIN below \/ i = top
      BY <2>3
    <3>2. \A i, j \in DOMAIN stack' : i # j => stack'[i].m # stack'[j].m
      BY <1>2, <2>3, <3>1 DEF Ready, ReadyFrames
    <3>3. handles # None => handles \in messages' /\ url[handles] = "xkpr" /\ handles # m
      BY <1>2, <2>2
    <3>4. stack'[top].wrap # None => host'[m] > 0 /\ stack'[top].wrap = m
      BY <1>3, <2>1, <2>3 DEF B
    <3> QED
      BY <1>2, <1>7, <2>3, <3>1, <3>2, <3>3, <3>4 DEF Ready, ReadyFrames, InvFrames, Notifying
  <2> QED
    BY <1>5, <2>4, <2>5, <2>6, <2>7, <2>8, <2>9, <2>10, <2>11, <2>12, <2>13 DEF Safe
<1> QED
  BY <1>6, <1>7

(* Every outcome of KprMessageComplete. *)
LEMMA CompleteSafe ==
  ASSUME Careful, TypeOK, NEW m \in Message, NEW u, NEW r, NEW q, NEW below,
         Ready(m, u, r, q, below), KprMessageComplete(m, u, r, q, below),
         UNCHANGED <<held, walk>>
  PROVE  Safe'
  BY AbsentSafe, ReinvokedSafe, DeliveredSafe DEF KprMessageComplete

-----------------------------------------------------------------------------
(* The actions that end with KprMessageComplete.                            *)

LEMMA TopFrame ==
  ASSUME TypeOK, stack # <<>>
  PROVE  /\ Len(stack) \in DOMAIN stack /\ Len(stack) \in Nat
         /\ DOMAIN stack = 1 .. Len(stack)
         /\ Top = stack[Len(stack)] /\ Top \in Frames
         /\ Top.m \in Message /\ Top.handles \in Message \union {None}
<1>1. Len(stack) \in DOMAIN stack /\ Len(stack) \in Nat /\ DOMAIN stack = 1 .. Len(stack)
  BY DEF TypeOK
<1>2. Top \in Frames
  BY FramesInStack
<1> QED
  BY <1>1, <1>2 DEF Top, Frames

(* A callback that is not a completion runs alone on the stack. *)
LEMMA SingleFrame ==
  ASSUME TypeOK, InvFrames, stack # <<>>, Top.at \notin {"complete", "cleanup"}
  PROVE  /\ DOMAIN stack = {1} /\ Len(stack) = 1 /\ Top = stack[1] /\ Pop(stack) = <<>>
<1>1. Len(stack) = 1
  BY TopFrame DEF InvFrames
<1>2. DOMAIN stack = {1} /\ Top = stack[1]
  BY <1>1, TopFrame
<1>3. /\ Pop(stack) \in Seq(Frames)
      /\ Len(Pop(stack)) = Len(stack) - 1
  BY PopSeq DEF TypeOK
<1>4. Len(Pop(stack)) = 0
  BY <1>1, <1>3
<1> QED
  BY <1>1, <1>2, <1>3, <1>4

LEMMA DeliverCompleteSafe ==
  ASSUME Careful, Core, NEW m \in Message, DeliverComplete(m)
  PROVE  Safe'
<1> USE ConstantsAssumption
<1> DEFINE q == Tail(shellQ)
<1>1. TypeOK
  BY DEF Core
<1>2. /\ 1 \in DOMAIN shellQ /\ shellQ[1].ev = "complete" /\ shellQ[1].m = m
      /\ q \in Seq(EventRecords)
      /\ \A i \in DOMAIN q : i + 1 \in DOMAIN shellQ /\ q[i] = shellQ[i + 1]
      /\ \A i \in DOMAIN shellQ : i # 1 => i - 1 \in DOMAIN q /\ q[i - 1] = shellQ[i]
      /\ \A n : CountedIn(q, n) = Posted(n) - B(n = m /\ "complete" \in Counted)
      /\ stack = <<>> /\ walk = None
  BY <1>1, Delivery DEF DeliverComplete, Events
<1>3. DOMAIN q \subseteq Int /\ DOMAIN shellQ \subseteq Int
  BY <1>1, <1>2 DEF TypeOK
<1>4. url[m] = "http" /\ response[m] = None
  BY <1>2 DEF Core, InvHttp
<1> HIDE DEF q
<1>5. ReadyCounts(usage, response, q)
  <2>1. \A n \in Message : CountedIn(q, n) = Posted(n)
    BY <1>1, <1>2, CountNat DEF Counted, B, Posted, TypeOK
  <2> QED
    BY <2>1 DEF Core, UsageCounts, InvLive, ReadyCounts
<1>6. ReadyWaiting(<<>>) /\ ReadyFrames(<<>>)
  BY <1>2 DEF Core, InvWaiting, Completing, ReadyWaiting, ReadyFrames
<1>7. ReadyQueue(m, response, q)
  <2>1. \A i \in DOMAIN q : q[i].ev = "cancel" =>
          /\ Cancels # {} /\ ~waiting[q[i].m] /\ url[q[i].m] = "xkpr"
          /\ \A j \in DOMAIN q : q[j] = Event("invoke", q[i].m) => j < i
    BY <1>2, <1>3 DEF Core, InvCancel
  <2>2. \A i \in DOMAIN q : q[i].ev \in {"complete", "progress"} => url[q[i].m] = "http"
    BY <1>2 DEF Core, InvHttp
  <2>3. \A i \in DOMAIN q : q[i].ev = "invoke" =>
          /\ url[q[i].m] = "xkpr"
          /\ q[i].m \notin WaitMessage =>
               q[i].m \in messages /\ response[q[i].m] = None /\ q[i].m # m
          /\ \A j \in DOMAIN q : q[j] = q[i] => j = i
    BY <1>2, <1>3, <1>4 DEF Core, InvInvoke
  <2>4. \A n \in messages : url[n] = "xkpr" /\ response[n] = None /\ n # m =>
          \E i \in DOMAIN q : q[i] = Event("invoke", n)
    <3> SUFFICES ASSUME NEW n \in messages, url[n] = "xkpr", response[n] = None
                 PROVE  \E i \in DOMAIN q : q[i] = Event("invoke", n)
      OBVIOUS
    <3>1. PICK i \in DOMAIN shellQ : shellQ[i] = Event("invoke", n)
      BY <1>2 DEF Core, InvOwed, Has
    <3>2. i # 1
      BY <1>2, <3>1 DEF Event
    <3> QED
      BY <1>2, <3>1, <3>2
  <2> QED
    BY <2>1, <2>2, <2>3, <2>4 DEF ReadyQueue
<1>8. ReadyLinks(m, response)
  BY <1>2, <1>4 DEF Core, InvLinked, InvHttp, ReadyLinks
<1>9. ReadyRest(response)
  BY <1>2 DEF Core, InvScript, InvHttp, InvWait, ReadyRest
<1>10. Ready(m, usage, response, q, <<>>)
  <2>1. /\ usage \in [Message -> Int] /\ response \in [Message -> Responses]
        /\ <<>> \in Seq(Frames)
    BY <1>1 DEF TypeOK
  <2> QED
    BY <1>2, <1>5, <1>6, <1>7, <1>8, <1>9, <2>1 DEF Ready
<1> QED
  BY <1>1, <1>10, CompleteSafe DEF DeliverComplete, content, q

LEMMA ContentWaitCompleteSafe ==
  ASSUME Careful, Core, NEW m \in Message, KPR_content_waitComplete(m)
  PROVE  Safe'
<1> USE ConstantsAssumption
<1> DEFINE u == [usage EXCEPT ![m] = @ - 1]
           r == [response EXCEPT ![m] = None]
<1>1. TypeOK /\ stack = <<>> /\ walk = None /\ response[m] = ContentWait /\ m \in WaitMessage
  BY DEF Core, KPR_content_waitComplete, Idle, InvWait
<1>2. /\ u \in [Message -> Int] /\ r \in [Message -> Responses]
      /\ shellQ \in Seq(EventRecords) /\ <<>> \in Seq(Frames)
      /\ \A n \in Message : n # m => u[n] = usage[n] /\ r[n] = response[n]
      /\ u[m] = usage[m] - 1 /\ r[m] = None
  BY <1>1 DEF TypeOK, Responses
<1> HIDE DEF u, r
<1>3. ReadyCounts(u, r, shellQ)
  <2>1. \A n \in Message : /\ usage[n] \in Nat /\ host[n] \in Nat /\ Posted(n) \in Nat
                           /\ usage[n] = host[n] + B(request[n] # None) + B(n \in messages)
                                         + Posted(n) + B(response[n] # None)
                           /\ alive[n] # "live" => usage[n] = 0
    BY <1>1, Terms DEF Core, InvLive
  <2> SUFFICES ASSUME NEW n \in Message
               PROVE  /\ u[n] = host[n] + B(request[n] # None) + B(n \in messages)
                               + CountedIn(shellQ, n) + B(r[n] # None)
                      /\ alive[n] # "live" => u[n] = 0
    BY DEF ReadyCounts
  <2>2. CASE n = m
    BY <1>1, <1>2, <2>1, <2>2 DEF Posted, B
  <2>3. CASE n # m
    BY <1>2, <2>1, <2>3 DEF Posted
  <2> QED
    BY <2>2, <2>3
<1>4. ReadyWaiting(<<>>) /\ ReadyFrames(<<>>)
  BY <1>1 DEF Core, InvWaiting, Completing, ReadyWaiting, ReadyFrames
<1>5. ReadyQueue(m, r, shellQ)
  <2>1. \A n \in messages : url[n] = "xkpr" /\ r[n] = None /\ n # m =>
          \E i \in DOMAIN shellQ : shellQ[i] = Event("invoke", n)
    BY <1>1, <1>2 DEF Core, InvOwed, Has, TypeOK
  <2>2. \A i \in DOMAIN shellQ : shellQ[i].m \in Message
    BY <1>2, EventFields
  <2> QED
    BY <1>1, <1>2, <2>1, <2>2 DEF Core, InvCancel, InvHttp, InvInvoke, ReadyQueue
<1>6. ReadyLinks(m, r)
  <2>1. \A f \in Message : r[f] # None => f # m /\ r[f] = response[f]
    BY <1>2
  <2>2. \A f \in Message : r[f] \in Message => request[r[f]] = f /\ r[f] \in messages
    BY <2>1 DEF Core, InvLinked
  <2>3. \A n \in messages : n \in Message /\ request[n] # m
    BY <1>1 DEF Core, InvWait, TypeOK
  <2>4. \A n \in messages : request[n] \in Message => r[request[n]] = n
    BY <1>2, <2>3 DEF Core, InvLinked
  <2>5. \A f \in Message : r[f] # None => f \in messages /\ url[f] = "xkpr"
    BY <1>1, <2>1 DEF Core, InvLinked, InvHttp
  <2> QED
    BY <1>2, <2>2, <2>4, <2>5 DEF Core, InvLinked, ReadyLinks
<1>7. ReadyRest(r)
  BY <1>1, <1>2 DEF Core, InvScript, InvHttp, InvWait, ReadyRest
<1>8. Ready(m, u, r, shellQ, <<>>)
  BY <1>2, <1>3, <1>4, <1>5, <1>6, <1>7 DEF Ready
<1> QED
  BY <1>1, <1>8, CompleteSafe DEF KPR_content_waitComplete, content, u, r

(* The end of KprXKPRServiceInvoke and of KPR_handler_waitComplete. *)
LEMMA ReturnHandlerSafe ==
  ASSUME Careful, Core, ReturnInvoke \/ ReturnResume
  PROVE  Safe'
<1> USE ConstantsAssumption
<1> DEFINE m == Top.m
<1>1. TypeOK /\ InvFrames /\ stack # <<>> /\ walk = None /\ Top.at \in {"invoke", "resume"}
  BY DEF Core, ReturnInvoke, ReturnResume, At
<1>2. /\ DOMAIN stack = {1} /\ Len(stack) = 1 /\ Top = stack[1] /\ Pop(stack) = <<>>
      /\ m \in Message /\ Top.handles = m
  BY <1>1, SingleFrame, TopFrame DEF InvFrames
<1> HIDE DEF m
<1>3. CASE Resumes(m)
  <2>1. /\ KprMessageComplete(m, usage, response, shellQ, <<>>)
        /\ UNCHANGED <<held, walk>>
    BY <1>2, <1>3 DEF ReturnInvoke, ReturnResume, content, m
  <2>2. response[m] = None
    BY <1>3 DEF Resumes
  <2>3. ReadyCounts(usage, response, shellQ)
    BY DEF Core, UsageCounts, InvLive, ReadyCounts, Posted
  <2>4. ReadyWaiting(<<>>) /\ ReadyFrames(<<>>)
    BY <1>1, <1>2 DEF Core, InvWaiting, Completing, ReadyWaiting, ReadyFrames
  <2>5. ReadyQueue(m, response, shellQ)
    <3>1. \A n \in messages : url[n] = "xkpr" /\ response[n] = None /\ n # m =>
            \E i \in DOMAIN shellQ : shellQ[i] = Event("invoke", n)
      BY <1>2 DEF Core, InvOwed, Has
    <3>2. \A i \in DOMAIN shellQ : shellQ[i].ev = "invoke" => shellQ[i].m # m
      BY <1>1, <1>2 DEF Core, InvInvoke
    <3> QED
      BY <3>1, <3>2 DEF Core, InvCancel, InvHttp, InvInvoke, ReadyQueue
  <2>6. ReadyLinks(m, response)
    BY <1>1, <2>2 DEF Core, InvLinked, InvHttp, ReadyLinks
  <2>7. ReadyRest(response)
    BY <1>1 DEF Core, InvScript, InvHttp, InvWait, ReadyRest
  <2>8. Ready(m, usage, response, shellQ, <<>>)
    <3>1. /\ usage \in [Message -> Int] /\ response \in [Message -> Responses]
          /\ shellQ \in Seq(EventRecords) /\ <<>> \in Seq(Frames)
      BY <1>1 DEF TypeOK
    <3> QED
      BY <2>3, <2>4, <2>5, <2>6, <2>7, <3>1 DEF Ready
  <2> QED
    BY <1>1, <1>2, <2>1, <2>8, CompleteSafe
<1>4. CASE ~Resumes(m)
  <2>1. /\ stack' = <<>> /\ response[m] # None
        /\ alive' = alive /\ usage' = usage /\ host' = host /\ waiting' = waiting /\ url' = url
        /\ location' = location /\ request' = request /\ response' = response
        /\ messages' = messages /\ shellQ' = shellQ /\ serviceQ' = serviceQ
        /\ held' = held /\ walk' = walk
    BY <1>2, <1>4
    DEF ReturnInvoke, ReturnResume, Resumes, life, data, target, list, queues, content, m
  <2>2. UsageCounts' /\ InvLive' /\ InvCancel' /\ InvHttp'
    BY <2>1 DEF Core, UsageCounts, Posted, InvLive, InvCancel, InvHttp
  <2>3. InvWaiting'
    BY <1>1, <1>2, <2>1 DEF Core, InvWaiting, Completing
  <2>4. InvScript' /\ InvWait' /\ InvInvoke'
    BY <2>1 DEF Core, InvScript, InvWait, InvInvoke
  <2>5. InvOwed'
    BY <1>2, <2>1 DEF Core, InvOwed, Has
  <2>6. InvLinked'
    BY <1>1, <2>1 DEF Core, InvLinked
  <2>7. InvFrames'
    BY <2>1 DEF InvFrames
  <2> QED
    BY <2>2, <2>3, <2>4, <2>5, <2>6, <2>7 DEF Safe
<1> QED
  BY <1>3, <1>4

(* The stack once onComplete has returned: the frame waits to clean up. *)
LEMMA ReturnCompleteFrames ==
  ASSUME Core, At("complete"), NEW below,
         below = Push(Pop(stack), Frame("cleanup", Top.m, None, FALSE, None))
  PROVE  /\ below \in Seq(Frames)
         /\ DOMAIN below = DOMAIN stack
         /\ \A i \in DOMAIN below : /\ below[i].m = stack[i].m
                                    /\ below[i].at = "cleanup" /\ below[i].handles = None
                                    /\ ~below[i].script /\ below[i].wrap = None
         /\ \A i \in DOMAIN below : /\ request[below[i].m] # None
                                    /\ below[i].m \notin messages
         /\ \A i, j \in DOMAIN below : i # j => below[i].m # below[j].m
         /\ below # <<>>
         /\ \A i \in DOMAIN stack : stack[i].at \in {"complete", "cleanup"}
<1> DEFINE F == Frame("cleanup", Top.m, None, FALSE, None)
           k == Len(stack)
<1>1. TypeOK /\ InvFrames /\ stack # <<>> /\ Top.at = "complete"
  BY DEF Core, At
<1>2. /\ k \in DOMAIN stack /\ k \in Nat \ {0} /\ DOMAIN stack = 1 .. k
      /\ Top = stack[k] /\ Top.m \in Message
  BY <1>1, TopFrame
<1>3. /\ F \in Frames /\ F.m = Top.m /\ F.at = "cleanup" /\ F.handles = None
      /\ ~F.script /\ F.wrap = None
  BY <1>2 DEF Frame, Frames, Places
<1>4. /\ Pop(stack) \in Seq(Frames) /\ Len(Pop(stack)) = k - 1
      /\ \A i \in 1 .. k - 1 : Pop(stack)[i] = stack[i]
  BY <1>1, PopSeq DEF TypeOK
<1>5. /\ below \in Seq(Frames) /\ Len(below) = Len(Pop(stack)) + 1
      /\ \A i \in 1 .. Len(Pop(stack)) : below[i] = Pop(stack)[i]
      /\ below[Len(Pop(stack)) + 1] = F
  <2>1. below = Append(Pop(stack), F)
    BY DEF Push
  <2> HIDE DEF F
  <2>2. /\ Append(Pop(stack), F) \in Seq(Frames)
        /\ Len(Append(Pop(stack), F)) = Len(Pop(stack)) + 1
        /\ \A i \in 1 .. Len(Pop(stack)) : Append(Pop(stack), F)[i] = Pop(stack)[i]
        /\ Append(Pop(stack), F)[Len(Pop(stack)) + 1] = F
    BY <1>3, <1>4, AppendSeq
  <2> QED
    BY <2>1, <2>2, Zenon
<1> HIDE DEF F, k
<1>6. /\ Len(below) = k /\ DOMAIN below = 1 .. k /\ below[k] = F
      /\ \A i \in 1 .. k - 1 : below[i] = stack[i]
  <2>1. Len(Pop(stack)) + 1 = k /\ 1 .. Len(Pop(stack)) = 1 .. k - 1
    BY <1>2, <1>4
  <2>2. Len(below) = k /\ below[k] = F
    BY <1>5, <2>1, Zenon
  <2>3. DOMAIN below = 1 .. Len(below)
    BY <1>5, LenProperties, Zenon
  <2>4. \A i \in 1 .. k - 1 : below[i] = stack[i]
    BY <1>4, <1>5, <2>1, Zenon
  <2> QED
    BY <2>2, <2>3, <2>4, Zenon
<1>7. \A i \in 1 .. k - 1 : stack[i].at = "cleanup"
  <2>1. \A i \in 1 .. k - 1 : i \in DOMAIN stack /\ i < k
    BY <1>2
  <2> QED
    BY <1>1, <2>1, Zenon DEF InvFrames, k
<1>12. \A i \in 1 .. k : i \in 1 .. k - 1 \/ i = k
  BY <1>2
<1>8. \A i \in DOMAIN stack : stack[i].at \in {"complete", "cleanup"}
  BY <1>1, <1>2, <1>7, <1>12
<1>9. \A i \in DOMAIN below : /\ below[i].m = stack[i].m
                              /\ below[i].at = "cleanup" /\ below[i].handles = None
                              /\ ~below[i].script /\ below[i].wrap = None
  <2> SUFFICES ASSUME NEW i \in 1 .. k
               PROVE  /\ below[i].m = stack[i].m
                      /\ below[i].at = "cleanup" /\ below[i].handles = None
                      /\ ~below[i].script /\ below[i].wrap = None
    BY <1>6
  <2>1. CASE i = k
    BY <1>2, <1>3, <1>6, <2>1
  <2>2. CASE i \in 1 .. k - 1
    <3>1. i \in DOMAIN stack /\ below[i] = stack[i] /\ stack[i].at = "cleanup"
      BY <1>2, <1>6, <1>7, <2>2
    <3>2. stack[i].handles = None /\ ~stack[i].script /\ stack[i].wrap = None
      BY <1>1, <3>1, Zenon DEF InvFrames
    <3> QED
      BY <3>1, <3>2, Zenon
  <2> QED
    BY <1>12, <2>1, <2>2
<1>10. \A i \in DOMAIN below : request[below[i].m] # None /\ below[i].m \notin messages
  <2> SUFFICES ASSUME NEW i \in DOMAIN stack
               PROVE  request[below[i].m] # None /\ below[i].m \notin messages
    BY <1>2, <1>6, Zenon
  <2>1. request[stack[i].m] # None /\ stack[i].m \notin messages
    BY <1>1, <1>8, Zenon DEF InvFrames
  <2>2. below[i].m = stack[i].m
    BY <1>2, <1>6, <1>9, Zenon
  <2> QED
    BY <2>1, <2>2, Zenon
<1>11. \A i, j \in DOMAIN below : i # j => below[i].m # below[j].m
  <2>1. \A i, j \in DOMAIN stack : i # j => stack[i].m # stack[j].m
    BY <1>1, Zenon DEF InvFrames
  <2>2. \A i \in DOMAIN stack : below[i].m = stack[i].m
    BY <1>2, <1>6, <1>9, Zenon
  <2>3. DOMAIN below = DOMAIN stack
    BY <1>2, <1>6, Zenon
  <2> SUFFICES ASSUME NEW i \in DOMAIN stack, NEW j \in DOMAIN stack, i # j
               PROVE  below[i].m # below[j].m
    BY <2>3, Zenon
  <2>4. below[i].m = stack[i].m /\ below[j].m = stack[j].m /\ stack[i].m # stack[j].m
    BY <2>1, <2>2, Zenon
  <2> QED
    BY <2>4, Zenon
<1> QED
  BY <1>2, <1>5, <1>6, <1>8, <1>9, <1>10, <1>11

LEMMA ReturnCompleteSafe ==
  ASSUME Careful, Core, ReturnComplete
  PROVE  Safe'
<1> USE ConstantsAssumption
<1> DEFINE f == Top.handles
           below == Push(Pop(stack), Frame("cleanup", Top.m, None, FALSE, None))
<1>1. TypeOK /\ InvFrames /\ stack # <<>> /\ walk = None /\ Top.at = "complete" /\ At("complete")
  BY DEF Core, ReturnComplete, At
<1>2. /\ below \in Seq(Frames) /\ DOMAIN below = DOMAIN stack
      /\ \A i \in DOMAIN below : /\ below[i].m = stack[i].m
                                 /\ below[i].at = "cleanup" /\ below[i].handles = None
                                 /\ ~below[i].script /\ below[i].wrap = None
      /\ \A i \in DOMAIN below : request[below[i].m] # None /\ below[i].m \notin messages
      /\ \A i, j \in DOMAIN below : i # j => below[i].m # below[j].m
      /\ below # <<>>
      /\ \A i \in DOMAIN stack : stack[i].at \in {"complete", "cleanup"}
  BY <1>1, ReturnCompleteFrames
<1>3. /\ f \in Message \union {None} /\ Len(stack) \in DOMAIN stack /\ Top = stack[Len(stack)]
  BY <1>1, TopFrame
<1>4. /\ f # None /\ Resumes(f) => KprMessageComplete(f, usage, response, shellQ, below)
      /\ ~(f # None /\ Resumes(f)) => /\ stack' = below
                                      /\ UNCHANGED <<life, data, target, list, queues>>
      /\ held' = held /\ walk' = walk
  BY DEF ReturnComplete
<1> HIDE DEF f, below
<1>5. CASE f # None /\ Resumes(f)
  <2>2. response[f] = None
    BY <1>5 DEF Resumes
  <2>3. ReadyCounts(usage, response, shellQ)
    BY DEF Core, UsageCounts, InvLive, ReadyCounts, Posted
  <2>4. ReadyWaiting(below) /\ ReadyFrames(below)
    BY <1>2 DEF Core, InvWaiting, Completing, ReadyWaiting, ReadyFrames
  <2>5. ReadyQueue(f, response, shellQ)
    <3>1. \A n \in messages : url[n] = "xkpr" /\ response[n] = None /\ n # f =>
            \E i \in DOMAIN shellQ : shellQ[i] = Event("invoke", n)
      BY DEF Core, InvOwed, Has, f
    <3>2. \A i \in DOMAIN shellQ : shellQ[i].ev = "invoke" => shellQ[i].m # f
      BY <1>1, <1>3 DEF Core, InvInvoke, f
    <3> QED
      BY <3>1, <3>2 DEF Core, InvCancel, InvHttp, InvInvoke, ReadyQueue
  <2>6. ReadyLinks(f, response)
    BY <1>1, <2>2 DEF Core, InvLinked, InvHttp, ReadyLinks
  <2>7. ReadyRest(response)
    BY <1>1 DEF Core, InvScript, InvHttp, InvWait, ReadyRest
  <2>8. Ready(f, usage, response, shellQ, below)
    <3>1. /\ usage \in [Message -> Int] /\ response \in [Message -> Responses]
          /\ shellQ \in Seq(EventRecords)
      BY <1>1 DEF TypeOK
    <3> QED
      BY <1>2, <2>3, <2>4, <2>5, <2>6, <2>7, <3>1 DEF Ready
  <2> QED
    BY <1>1, <1>3, <1>4, <1>5, <2>8, CompleteSafe
<1>6. CASE ~(f # None /\ Resumes(f))
  <2>1. /\ stack' = below /\ (f # None => response[f] # None)
        /\ alive' = alive /\ usage' = usage /\ host' = host /\ waiting' = waiting /\ url' = url
        /\ location' = location /\ request' = request /\ response' = response
        /\ messages' = messages /\ shellQ' = shellQ /\ serviceQ' = serviceQ
        /\ held' = held /\ walk' = walk
    BY <1>4, <1>6 DEF Resumes, life, data, target, list, queues
  <2>2. UsageCounts' /\ InvLive' /\ InvCancel' /\ InvHttp'
    BY <2>1 DEF Core, UsageCounts, Posted, InvLive, InvCancel, InvHttp
  <2>3. InvWaiting'
    BY <1>2, <2>1 DEF Core, InvWaiting, Completing
  <2>4. InvScript' /\ InvWait' /\ InvInvoke'
    BY <1>2, <2>1 DEF Core, InvScript, InvWait, InvInvoke
  <2>5. InvOwed'
    <3>1. \A n \in messages : n # None
      BY <1>1 DEF TypeOK
    <3> QED
      BY <2>1, <3>1 DEF Core, InvOwed, Has, f
  <2>6. InvLinked'
    BY <1>1, <2>1 DEF Core, InvLinked
  <2>7. InvFrames'
    BY <1>2, <2>1 DEF InvFrames, Notifying
  <2> QED
    BY <2>2, <2>3, <2>4, <2>5, <2>6, <2>7 DEF Safe
<1> QED
  BY <1>5, <1>6

-----------------------------------------------------------------------------
(* The other steps of the shell thread.                                     *)

LEMMA EventEqual ==
  ASSUME NEW e \in EventRecords
  PROVE  e = Event(e.ev, e.m)
  BY DEF EventRecords, Event

(* The queue invariants survive a delivery that changes nothing they name. *)
LEMMA TailQueue ==
  ASSUME Core, NEW k \in Events, NEW m \in Message, Deliver(k, m),
         shellQ' = Tail(shellQ), UNCHANGED <<waiting, url>>
  PROVE  /\ InvCancel'
         /\ \A i \in DOMAIN shellQ' :
              shellQ'[i].ev \in {"complete", "progress"} => url[shellQ'[i].m] = "http"
         /\ \A i \in DOMAIN shellQ' : shellQ'[i].ev = "invoke" =>
              /\ url[shellQ'[i].m] = "xkpr"
              /\ shellQ'[i].m \notin WaitMessage =>
                   shellQ'[i].m \in messages /\ response[shellQ'[i].m] = None
              /\ k = "invoke" => shellQ'[i].m # m
              /\ \A j \in DOMAIN shellQ' : shellQ'[j] = shellQ'[i] => j = i
         /\ \A n : Has("invoke", n) /\ (k = "invoke" => n # m) =>
              \E i \in DOMAIN shellQ' : shellQ'[i] = Event("invoke", n)
         /\ \A n : CountedIn(shellQ', n) = Posted(n) - B(n = m /\ k \in Counted)
         /\ \A i \in DOMAIN shellQ' : shellQ'[i].m \in Message
         /\ stack = <<>> /\ walk = None
<1>1. TypeOK
  BY DEF Core
<1>2. /\ 1 \in DOMAIN shellQ /\ shellQ[1].ev = k /\ shellQ[1].m = m
      /\ shellQ' \in Seq(EventRecords)
      /\ \A i \in DOMAIN shellQ' : i + 1 \in DOMAIN shellQ /\ shellQ'[i] = shellQ[i + 1]
      /\ \A i \in DOMAIN shellQ : i # 1 => i - 1 \in DOMAIN shellQ' /\ shellQ'[i - 1] = shellQ[i]
      /\ \A n : CountedIn(shellQ', n) = Posted(n) - B(n = m /\ k \in Counted)
      /\ stack = <<>> /\ walk = None
  BY <1>1, Delivery
<1>3. DOMAIN shellQ' \subseteq Nat /\ DOMAIN shellQ \subseteq Nat
  BY <1>1, <1>2 DEF TypeOK
<1>4. InvCancel'
  BY <1>2, <1>3 DEF Core, InvCancel
<1>5. \A i \in DOMAIN shellQ' :
        shellQ'[i].ev \in {"complete", "progress"} => url[shellQ'[i].m] = "http"
  BY <1>2 DEF Core, InvHttp
<1>6. ASSUME NEW i \in DOMAIN shellQ', shellQ'[i].ev = "invoke"
      PROVE  /\ url[shellQ'[i].m] = "xkpr"
             /\ shellQ'[i].m \notin WaitMessage =>
                  shellQ'[i].m \in messages /\ response[shellQ'[i].m] = None
             /\ k = "invoke" => shellQ'[i].m # m
             /\ \A j \in DOMAIN shellQ' : shellQ'[j] = shellQ'[i] => j = i
  <2>1. i + 1 \in DOMAIN shellQ /\ shellQ'[i] = shellQ[i + 1] /\ i \in DOMAIN shellQ' /\ i \in Nat
    BY <1>2, <1>3, <1>6
  <2>2. /\ url[shellQ'[i].m] = "xkpr"
        /\ shellQ'[i].m \notin WaitMessage =>
             shellQ'[i].m \in messages /\ response[shellQ'[i].m] = None
        /\ \A j \in DOMAIN shellQ : shellQ[j] = shellQ[i + 1] => j = i + 1
    BY <1>6, <2>1 DEF Core, InvInvoke
  <2>3. \A j \in DOMAIN shellQ' : shellQ'[j] = shellQ'[i] => j = i
    BY <1>2, <1>3, <2>1, <2>2
  <2>4. k = "invoke" => shellQ'[i].m # m
    <3> SUFFICES ASSUME k = "invoke", shellQ'[i].m = m
                 PROVE  FALSE
      OBVIOUS
    <3>1. shellQ[1] = Event("invoke", m) /\ shellQ[i + 1] = Event("invoke", m)
      <4>1. shellQ[1] \in EventRecords /\ shellQ[i + 1] \in EventRecords
        BY <1>1, <1>2, <2>1, EventFields DEF TypeOK
      <4> QED
        BY <1>2, <1>6, <2>1, <4>1, EventEqual
    <3> QED
      BY <1>2, <2>1, <2>2, <3>1
  <2> QED
    BY <2>2, <2>3, <2>4
<1>7. \A n : Has("invoke", n) /\ (k = "invoke" => n # m) =>
        \E i \in DOMAIN shellQ' : shellQ'[i] = Event("invoke", n)
  <2> SUFFICES ASSUME NEW n, NEW i \in DOMAIN shellQ, shellQ[i] = Event("invoke", n),
                      k = "invoke" => n # m
               PROVE  \E j \in DOMAIN shellQ' : shellQ'[j] = Event("invoke", n)
    BY DEF Has
  <2>1. i # 1
    BY <1>2 DEF Event
  <2> QED
    BY <1>2, <2>1
<1>8. \A i \in DOMAIN shellQ' : shellQ'[i].m \in Message
  BY <1>2, EventFields
<1> QED
  BY <1>2, <1>4, <1>5, <1>6, <1>7, <1>8

(* A stack of one frame. *)
LEMMA OneFrame ==
  ASSUME NEW at, NEW m, NEW handles, NEW script, NEW wrap,
         stack' = <<Frame(at, m, handles, script, wrap)>>
  PROVE  /\ DOMAIN stack' = {1} /\ Len(stack') = 1 /\ stack' # <<>> /\ Top' = stack'[1]
         /\ stack'[1].at = at /\ stack'[1].m = m /\ stack'[1].handles = handles
         /\ stack'[1].script = script /\ stack'[1].wrap = wrap
<1>1. /\ DOMAIN stack' = {1} /\ Len(stack') = 1 /\ stack' # <<>>
      /\ stack'[1] = Frame(at, m, handles, script, wrap)
  OBVIOUS
<1>2. Top' = stack'[1]
  BY <1>1 DEF Top
<1> QED
  BY <1>1, <1>2 DEF Frame

LEMMA XKPRInvokeSafe ==
  ASSUME Careful, Core, NEW m \in Message, KprXKPRServiceInvoke(m)
  PROVE  Safe'
<1> USE ConstantsAssumption
<1>1. PICK script \in BOOLEAN :
        /\ script => m \notin WaitMessage
        /\ host' = [host EXCEPT ![m] = @ + B(script)]
        /\ usage' = [usage EXCEPT ![m] = @ - 1 + B(script)]
        /\ stack' = <<Frame("invoke", m, m, script, IF script THEN m ELSE None)>>
  BY DEF KprXKPRServiceInvoke
<1>2. /\ TypeOK /\ Deliver("invoke", m) /\ shellQ' = Tail(shellQ)
      /\ alive' = alive /\ waiting' = waiting /\ url' = url /\ location' = location
      /\ request' = request /\ response' = response /\ messages' = messages
      /\ serviceQ' = serviceQ /\ held' = held /\ walk' = walk
  BY DEF Core, KprXKPRServiceInvoke, data, target, list, content
<1>3. /\ InvCancel'
      /\ \A i \in DOMAIN shellQ' :
           shellQ'[i].ev \in {"complete", "progress"} => url[shellQ'[i].m] = "http"
      /\ \A i \in DOMAIN shellQ' : shellQ'[i].ev = "invoke" =>
           /\ url[shellQ'[i].m] = "xkpr"
           /\ shellQ'[i].m \notin WaitMessage =>
                shellQ'[i].m \in messages /\ response[shellQ'[i].m] = None
           /\ shellQ'[i].m # m
           /\ \A j \in DOMAIN shellQ' : shellQ'[j] = shellQ'[i] => j = i
      /\ \A n : Has("invoke", n) /\ n # m =>
           \E i \in DOMAIN shellQ' : shellQ'[i] = Event("invoke", n)
      /\ \A n : CountedIn(shellQ', n) = Posted(n) - B(n = m)
      /\ stack = <<>> /\ walk = None
  <2>1. "invoke" \in Events /\ "invoke" \in Counted
    BY DEF Events, Counted
  <2> QED
    BY <1>2, <2>1, TailQueue
<1>4. /\ 1 \in DOMAIN shellQ /\ shellQ[1].ev = "invoke" /\ shellQ[1].m = m
      /\ url[m] = "xkpr" /\ (m \notin WaitMessage => m \in messages)
  <2>1. 1 \in DOMAIN shellQ /\ shellQ[1].ev = "invoke" /\ shellQ[1].m = m
    BY <1>2, Delivery DEF Events
  <2> QED
    BY <2>1 DEF Core, InvInvoke
<1>5. \A n \in Message : /\ usage[n] \in Nat /\ host[n] \in Nat /\ Posted(n) \in Nat
                         /\ usage[n] = host[n] + B(request[n] # None) + B(n \in messages)
                                       + Posted(n) + B(response[n] # None)
  BY Terms DEF Core
<1>6. usage[m] >= 1
  BY <1>2, <1>4, Terms DEF Core, Counted
<1>7. alive[m] = "live"
  BY <1>6 DEF Core, InvLive
<1>8. /\ DOMAIN stack' = {1} /\ Len(stack') = 1 /\ stack' # <<>> /\ Top' = stack'[1]
      /\ stack'[1].at = "invoke" /\ stack'[1].m = m /\ stack'[1].handles = m
      /\ stack'[1].script = script /\ stack'[1].wrap = (IF script THEN m ELSE None)
  BY <1>1, OneFrame
<1>9. UsageCounts'
  <2> SUFFICES ASSUME NEW n \in Message
               PROVE  usage'[n] = host'[n] + B(request[n] # None) + B(n \in messages)
                                  + CountedIn(shellQ', n) + B(response[n] # None)
    BY <1>2 DEF UsageCounts, Posted
  <2>1. CountedIn(shellQ', n) = Posted(n) - B(n = m)
    BY <1>3
  <2>2. CASE n = m
    <3>1. usage'[m] = usage[m] - 1 + B(script) /\ host'[m] = host[m] + B(script)
      BY <1>1, <1>2 DEF TypeOK
    <3>2. CountedIn(shellQ', m) = Posted(m) - 1
      BY <2>1, <2>2, BValue
    <3>3. /\ B(script) \in {0, 1} /\ B(request[m] # None) \in {0, 1}
          /\ B(m \in messages) \in {0, 1} /\ B(response[m] # None) \in {0, 1}
      BY BValue
    <3>4. /\ usage[m] \in Nat /\ host[m] \in Nat /\ Posted(m) \in Nat
          /\ usage[m] = host[m] + B(request[m] # None) + B(m \in messages)
                        + Posted(m) + B(response[m] # None)
      BY <1>5
    <3>5. usage'[m] = host'[m] + B(request[m] # None) + B(m \in messages)
                     + CountedIn(shellQ', m) + B(response[m] # None)
      BY <3>1, <3>2, <3>3, <3>4
    <3> QED
      BY <2>2, <3>5
  <2>3. CASE n # m
    <3>1. usage'[n] = usage[n] /\ host'[n] = host[n]
      BY <1>1, <1>2, <2>3 DEF TypeOK
    <3>2. Posted(n) \in Nat /\ B(n = m) = 0
      BY <1>5, <2>3, BValue
    <3>3. CountedIn(shellQ', n) = Posted(n)
      BY <2>1, <3>2
    <3> QED
      BY <1>5, <3>1, <3>3
  <2> QED
    BY <2>2, <2>3
<1>10. InvLive'
  BY <1>1, <1>2, <1>7 DEF Core, InvLive, TypeOK
<1>11. InvWaiting'
  BY <1>2, <1>3 DEF Core, InvWaiting, Completing
<1>12. InvScript'
  BY <1>2, <1>8 DEF Core, InvScript
<1>13. InvOwed'
  BY <1>2, <1>3, <1>8 DEF Core, InvOwed, Has
<1>14. InvHttp'
  BY <1>2, <1>3 DEF Core, InvHttp
<1>15. InvWait'
  BY <1>1, <1>2, <1>8 DEF Core, InvWait
<1>16. InvInvoke'
  BY <1>2, <1>3, <1>8 DEF InvInvoke
<1>17. InvLinked'
  BY <1>2, <1>3 DEF Core, InvLinked
<1>18. InvFrames'
  <2>1. script => host'[m] > 0
    BY <1>1, <1>2, <1>5 DEF B, TypeOK
  <2> QED
    BY <1>1, <1>2, <1>4, <1>7, <1>8, <2>1 DEF InvFrames, Notifying
<1> QED
  BY <1>3, <1>9, <1>10, <1>11, <1>12, <1>13, <1>14, <1>15, <1>16, <1>17, <1>18 DEF Safe

=============================================================================
