-------------------------- MODULE KprMessageSafety --------------------------
(***************************************************************************)
(* Core is an invariant of every careful instance of KprMessage: the steps  *)
(* of the services thread, of the scripts and of the shell thread that do   *)
(* not end with KprMessageComplete; Extra, step by step, in the same order; *)
(* and the theorems.                                                        *)
(***************************************************************************)
EXTENDS KprMessageProofs

(* The count is exact after a step that recounts the messages in S only. *)
LEMMA Recount ==
  ASSUME UsageCounts, NEW S \in SUBSET Message,
         \A n \in Message \ S :
           /\ usage'[n] = usage[n] /\ host'[n] = host[n]
           /\ request'[n] = request[n] /\ response'[n] = response[n]
           /\ n \in messages' <=> n \in messages
           /\ CountedIn(shellQ', n) = Posted(n),
         \A n \in S :
           usage'[n] = host'[n] + B(request'[n] # None) + B(n \in messages')
                       + CountedIn(shellQ', n) + B(response'[n] # None)
  PROVE  UsageCounts'
<1> SUFFICES ASSUME NEW n \in Message
             PROVE  usage'[n] = host'[n] + B(request'[n] # None) + B(n \in messages')
                                + CountedIn(shellQ', n) + B(response'[n] # None)
  BY DEF UsageCounts, Posted
<1>1. CASE n \in S
  BY <1>1
<1>2. CASE n \notin S
  <2>1. usage[n] = host[n] + B(request[n] # None) + B(n \in messages) + Posted(n)
                   + B(response[n] # None)
    BY DEF UsageCounts
  <2>2. B(n \in messages') = B(n \in messages)
    BY <1>2 DEF B
  <2> QED
    BY <1>2, <2>1, <2>2
<1> QED
  BY <1>1, <1>2

(* The terms of the sum for one message, for the arithmetic. *)
LEMMA Sum ==
  ASSUME Core, NEW n \in Message
  PROVE  /\ usage[n] \in Nat /\ host[n] \in Nat /\ Posted(n) \in Nat
         /\ usage[n] = host[n] + B(request[n] # None) + B(n \in messages) + Posted(n)
                       + B(response[n] # None)
         /\ B(request[n] # None) \in {0, 1} /\ B(n \in messages) \in {0, 1}
         /\ B(response[n] # None) \in {0, 1}
<1>1. TypeOK /\ UsageCounts
  BY DEF Core
<1>2. /\ usage[n] \in Nat /\ host[n] \in Nat /\ Posted(n) \in Nat
      /\ usage[n] = host[n] + B(request[n] # None) + B(n \in messages) + Posted(n)
                    + B(response[n] # None)
  BY <1>1, Terms
<1> QED
  BY <1>2, BValue

-----------------------------------------------------------------------------
(* The services thread.                                                     *)

LEMMA PostUncounted ==
  ASSUME Core, NEW m \in Message, NEW k \in {"complete", "progress"}, url[m] = "http",
         shellQ' = Append(shellQ, Event(k, m)),
         UNCHANGED <<life, data, target, list, stack, content>>
  PROVE  /\ UsageCounts' /\ InvLive' /\ InvWaiting' /\ InvScript' /\ InvCancel'
         /\ InvOwed' /\ InvWait' /\ InvInvoke' /\ InvLinked' /\ InvFrames'
         /\ \A i \in DOMAIN shellQ' :
              shellQ'[i].ev \in {"complete", "progress"} => url'[shellQ'[i].m] = "http"
<1>1. /\ alive' = alive /\ usage' = usage /\ host' = host /\ waiting' = waiting
      /\ url' = url /\ location' = location /\ request' = request
      /\ response' = response /\ messages' = messages /\ stack' = stack /\ walk' = walk
      /\ Top' = Top
  BY DEF life, data, target, list, content, Top
<1>2. k \in Events /\ k \notin Counted /\ k \notin {"invoke", "cancel"}
  BY DEF Events, Counted
<1>3. shellQ' = PostShell(shellQ, m, "xkpr", k) /\ shellQ \in Seq(EventRecords)
  BY DEF PostShell, Core, TypeOK
<1>4. /\ \A i \in DOMAIN shellQ : i \in DOMAIN shellQ' /\ shellQ'[i] = shellQ[i]
      /\ \A i \in DOMAIN shellQ' :
           i \in DOMAIN shellQ \/ (shellQ'[i].ev = k /\ shellQ'[i].m = m)
  BY <1>2, <1>3, Posting
<1>5. \A n \in Message : CountedIn(shellQ', n) = Posted(n)
  <2> TAKE n \in Message
  <2>1. CountedIn(shellQ', n) = CountedIn(shellQ, n) + B("xkpr" = "xkpr" /\ n = m /\ k \in Counted)
    BY <1>2, <1>3, CountPost
  <2>2. B("xkpr" = "xkpr" /\ n = m /\ k \in Counted) = 0
    BY <1>2, BValue
  <2>3. CountedIn(shellQ, n) \in Nat
    BY <1>3, CountNat
  <2> QED
    BY <2>1, <2>2, <2>3 DEF Posted
<1>6. UsageCounts'
  <2>1. UsageCounts
    BY DEF Core
  <2>2. \A n \in Message \ {} :
          /\ usage'[n] = usage[n] /\ host'[n] = host[n]
          /\ request'[n] = request[n] /\ response'[n] = response[n]
          /\ n \in messages' <=> n \in messages
          /\ CountedIn(shellQ', n) = Posted(n)
    BY <1>1, <1>5
  <2>3. {} \in SUBSET Message
    OBVIOUS
  <2> HIDE DEF Posted
  <2> QED
    BY <2>1, <2>2, <2>3, Recount
<1>7. InvLive' /\ InvWaiting' /\ InvScript' /\ InvWait' /\ InvLinked'
  BY <1>1 DEF Core, InvLive, InvWaiting, InvScript, InvWait, InvLinked, Completing
<1>8. InvFrames'
  BY <1>1 DEF Core, InvFrames
<1>9. InvCancel'
  <2> SUFFICES ASSUME NEW i \in DOMAIN shellQ', shellQ'[i].ev = "cancel",
                      NEW j \in DOMAIN shellQ'
               PROVE  /\ Cancels # {} /\ ~waiting[shellQ'[i].m] /\ url[shellQ'[i].m] = "xkpr"
                      /\ shellQ'[j] = Event("invoke", shellQ'[i].m) => j < i
    BY <1>1 DEF InvCancel
  <2>1. i \in DOMAIN shellQ /\ shellQ'[i] = shellQ[i]
    BY <1>2, <1>4
  <2>2. j \in DOMAIN shellQ \/ shellQ'[j].ev = k
    BY <1>4
  <2>3. Event("invoke", shellQ'[i].m).ev = "invoke"
    BY DEF Event
  <2> QED
    BY <1>2, <1>4, <2>1, <2>2, <2>3 DEF Core, InvCancel
<1>10. InvOwed'
  BY <1>1, <1>4 DEF Core, InvOwed, Has
<1>11. InvInvoke'
  BY <1>1, <1>2, <1>4 DEF Core, InvInvoke
<1>12. \A i \in DOMAIN shellQ' :
         shellQ'[i].ev \in {"complete", "progress"} => url'[shellQ'[i].m] = "http"
  BY <1>1, <1>4 DEF Core, InvHttp
<1> QED
  BY <1>6, <1>7, <1>8, <1>9, <1>10, <1>11, <1>12

LEMMA ServiceSafe ==
  ASSUME Careful, Core, ServiceStep
  PROVE  Safe'
<1>1. serviceQ \in Seq(EventRecords) /\ \A n \in held : n \in Message
  BY DEF Core, TypeOK
<1>2. ASSUME serviceQ # <<>>, serviceQ' = Tail(serviceQ), url' = url
      PROVE  \A i \in DOMAIN serviceQ' : url'[serviceQ'[i].m] = "http"
  <2>1. \A i \in DOMAIN serviceQ' : i + 1 \in DOMAIN serviceQ /\ serviceQ'[i] = serviceQ[i + 1]
    BY <1>1, <1>2, TailSeq
  <2> QED
    BY <1>2, <2>1 DEF Core, InvHttp
<1>3. ASSUME ServiceCancel
      PROVE  Safe'
  <2>1. /\ alive' = alive /\ usage' = usage /\ host' = host /\ waiting' = waiting
        /\ url' = url /\ location' = location /\ request' = request
        /\ response' = response /\ messages' = messages /\ stack' = stack /\ walk' = walk
        /\ Top' = Top /\ shellQ' = shellQ /\ held' = held
        /\ serviceQ # <<>> /\ serviceQ' = Tail(serviceQ)
    BY <1>3 DEF ServiceCancel, life, data, target, list, content, Top
  <2>2. InvHttp'
    BY <1>2, <2>1 DEF Core, InvHttp
  <2>3. UsageCounts' /\ InvLive' /\ InvWaiting' /\ InvScript' /\ InvCancel'
    BY <2>1 DEF Core, UsageCounts, Posted, InvLive, InvWaiting, Completing, InvScript, InvCancel
  <2>4. InvOwed' /\ InvWait' /\ InvInvoke' /\ InvLinked' /\ InvFrames'
    BY <2>1 DEF Core, InvOwed, Has, InvWait, InvInvoke, InvLinked, InvFrames
  <2> QED
    BY <2>2, <2>3, <2>4 DEF Safe
<1>4. ASSUME NEW m \in Message, ServiceInvoke(m)
      PROVE  Safe'
  <2>1. /\ UNCHANGED <<life, data, target, list, stack, content>>
        /\ url' = url /\ response' = response
        /\ serviceQ # <<>> /\ serviceQ' = Tail(serviceQ) /\ Head(serviceQ) = Event("invoke", m)
    BY <1>4 DEF ServiceInvoke, data, target
  <2>2. url[m] = "http"
    <3>1. 1 \in DOMAIN serviceQ /\ serviceQ[1] = Event("invoke", m)
      BY <1>1, <2>1
    <3> QED
      BY <3>1 DEF Core, InvHttp, Event
  <2>3. CASE waiting[m]
    <3>1. /\ alive' = alive /\ usage' = usage /\ host' = host /\ waiting' = waiting
          /\ url' = url /\ location' = location /\ request' = request
          /\ response' = response /\ messages' = messages /\ stack' = stack /\ walk' = walk
          /\ Top' = Top /\ shellQ' = shellQ /\ held' = held \union {m}
      BY <1>4, <2>1, <2>3 DEF ServiceInvoke, life, data, target, list, content, Top
    <3>2. InvHttp'
      BY <1>2, <2>1, <2>2, <3>1 DEF Core, InvHttp
    <3>3. UsageCounts' /\ InvLive' /\ InvWaiting' /\ InvScript' /\ InvCancel'
      BY <3>1 DEF Core, UsageCounts, Posted, InvLive, InvWaiting, Completing, InvScript, InvCancel
    <3>4. InvOwed' /\ InvWait' /\ InvInvoke' /\ InvLinked' /\ InvFrames'
      BY <3>1 DEF Core, InvOwed, Has, InvWait, InvInvoke, InvLinked, InvFrames
    <3> QED
      BY <3>2, <3>3, <3>4 DEF Safe
  <2>4. CASE ~waiting[m]
    <3>1. shellQ' = Append(shellQ, Event("complete", m)) /\ held' = held
      BY <1>4, <2>4 DEF ServiceInvoke
    <3>2. /\ UsageCounts' /\ InvLive' /\ InvWaiting' /\ InvScript' /\ InvCancel'
          /\ InvOwed' /\ InvWait' /\ InvInvoke' /\ InvLinked' /\ InvFrames'
          /\ \A i \in DOMAIN shellQ' :
               shellQ'[i].ev \in {"complete", "progress"} => url'[shellQ'[i].m] = "http"
      BY <2>1, <2>2, <3>1, PostUncounted
    <3>3. InvHttp'
      BY <1>2, <2>1, <3>1, <3>2 DEF Core, InvHttp
    <3> QED
      BY <3>2, <3>3 DEF Safe
  <2> QED
    BY <2>3, <2>4
<1>5. ASSUME NEW m \in Message, ServiceProgress(m) \/ ServiceFinish(m)
      PROVE  Safe'
  <2>1. PICK k \in {"complete", "progress"} :
          /\ m \in held /\ shellQ' = Append(shellQ, Event(k, m))
          /\ held' \subseteq held /\ serviceQ' = serviceQ
          /\ UNCHANGED <<life, data, target, list, stack, content>>
          /\ url' = url /\ response' = response
    BY <1>5 DEF ServiceProgress, ServiceFinish, data, target
  <2>2. url[m] = "http"
    BY <2>1 DEF Core, InvHttp
  <2>3. /\ UsageCounts' /\ InvLive' /\ InvWaiting' /\ InvScript' /\ InvCancel'
        /\ InvOwed' /\ InvWait' /\ InvInvoke' /\ InvLinked' /\ InvFrames'
        /\ \A i \in DOMAIN shellQ' :
             shellQ'[i].ev \in {"complete", "progress"} => url'[shellQ'[i].m] = "http"
    BY <2>1, <2>2, PostUncounted
  <2>4. InvHttp'
    BY <2>1, <2>3 DEF Core, InvHttp
  <2> QED
    BY <2>3, <2>4 DEF Safe
<1> QED
  BY <1>3, <1>4, <1>5 DEF ServiceStep

-----------------------------------------------------------------------------
(* Scripts.                                                                 *)

(* A message that is not allocated is in nobody's hands. *)
LEMMA Unallocated ==
  ASSUME Core, NEW m \in Message, alive[m] # "live"
  PROVE  /\ usage[m] = 0 /\ host[m] = 0 /\ Posted(m) = 0
         /\ request[m] = None /\ response[m] = None /\ m \notin messages
         /\ \A i \in DOMAIN shellQ : shellQ[i].m = m => shellQ[i].ev \notin Counted
<1>1. usage[m] = 0
  BY DEF Core, InvLive
<1>2. TypeOK /\ UsageCounts
  BY DEF Core
<1>3. /\ usage[m] >= host[m] /\ host[m] \in Nat
      /\ request[m] # None => usage[m] >= 1 + host[m]
      /\ m \in messages => usage[m] >= 1 + host[m]
      /\ response[m] # None => usage[m] >= 1 + host[m]
      /\ \A i \in DOMAIN shellQ :
           shellQ[i].m = m /\ shellQ[i].ev \in Counted => usage[m] >= 1 + host[m]
  BY <1>2, Terms
<1>4. /\ host[m] = 0 /\ request[m] = None /\ response[m] = None /\ m \notin messages
      /\ \A i \in DOMAIN shellQ : shellQ[i].m = m => shellQ[i].ev \notin Counted
  BY <1>1, <1>3
<1>5. Posted(m) = 0
  <2>1. B(request[m] # None) = 0 /\ B(response[m] # None) = 0 /\ B(m \in messages) = 0
    BY <1>4, BValue
  <2>2. /\ usage[m] = host[m] + B(request[m] # None) + B(m \in messages) + Posted(m)
                      + B(response[m] # None)
        /\ Posted(m) \in Nat
    BY Sum
  <2> QED
    BY <1>1, <1>4, <2>1, <2>2
<1> QED
  BY <1>1, <1>4, <1>5

LEMMA NewSafe ==
  ASSUME Careful, Core, NEW m \in Message, KPR_Message(m)
  PROVE  Safe'
<1> USE ConstantsAssumption
<1>1. /\ alive[m] # "live"
      /\ alive' = [alive EXCEPT ![m] = "live"]
      /\ host' = [host EXCEPT ![m] = 1]
      /\ usage' = [usage EXCEPT ![m] = 1]
      /\ waiting' = waiting /\ url' = url /\ location' = location /\ request' = request
      /\ response' = response /\ messages' = messages /\ shellQ' = shellQ
      /\ serviceQ' = serviceQ /\ held' = held /\ stack' = stack /\ walk' = walk /\ Top' = Top
  BY DEF KPR_Message, data, target, list, queues, content, Top
<1>2. /\ request[m] = None /\ response[m] = None /\ m \notin messages /\ Posted(m) = 0
      /\ host[m] = 0
  BY <1>1, Unallocated
<1>3. TypeOK
  BY DEF Core
<1>4. UsageCounts'
  <2>1. UsageCounts /\ {m} \in SUBSET Message
    BY DEF Core
  <2>2. \A n \in Message \ {m} :
          /\ usage'[n] = usage[n] /\ host'[n] = host[n]
          /\ request'[n] = request[n] /\ response'[n] = response[n]
          /\ n \in messages' <=> n \in messages
          /\ CountedIn(shellQ', n) = Posted(n)
    BY <1>1, <1>3 DEF TypeOK, Posted
  <2>3. \A n \in {m} :
          usage'[n] = host'[n] + B(request'[n] # None) + B(n \in messages')
                      + CountedIn(shellQ', n) + B(response'[n] # None)
    <3>1. usage'[m] = 1 /\ host'[m] = 1 /\ CountedIn(shellQ', m) = 0
      BY <1>1, <1>2, <1>3 DEF TypeOK, Posted
    <3>2. B(request'[m] # None) = 0 /\ B(m \in messages') = 0 /\ B(response'[m] # None) = 0
      BY <1>1, <1>2 DEF B
    <3> QED
      BY <3>1, <3>2
  <2> QED
    BY <2>1, <2>2, <2>3, Recount
<1>5. InvLive'
  BY <1>1, <1>3 DEF Core, InvLive, TypeOK
<1>6. InvWaiting' /\ InvScript' /\ InvCancel' /\ InvOwed'
  BY <1>1 DEF Core, InvWaiting, Completing, InvScript, InvCancel, InvOwed, Has
<1>7. InvHttp' /\ InvWait' /\ InvInvoke' /\ InvLinked'
  BY <1>1 DEF Core, InvHttp, InvWait, InvInvoke, InvLinked
<1>8. InvFrames'
  <2>1. \A n \in Message : host[n] > 0 => host'[n] > 0
    BY <1>1, <1>3 DEF TypeOK
  <2>2. \A i \in DOMAIN stack : /\ stack[i].wrap \in Message \union {None}
                                /\ stack[i].m \in Message
    <3>1. \A i \in DOMAIN stack : stack[i] \in Frames
      BY <1>3 DEF TypeOK
    <3> QED
      BY <3>1 DEF Frames
  <2>3. \A n \in Message : alive[n] = "live" => alive'[n] = "live"
    BY <1>1, <1>3 DEF TypeOK
  <2> QED
    BY <1>1, <2>1, <2>2, <2>3 DEF Core, InvFrames
<1> QED
  BY <1>4, <1>5, <1>6, <1>7, <1>8 DEF Safe

(* The steps that only start or end the walk of a content. *)
LEMMA WalkSafe ==
  ASSUME Careful, Core,
         UNCHANGED <<life, data, target, list, queues, held, stack>>,
         walk' # None => Cancels # {}
  PROVE  Safe'
<1>1. /\ alive' = alive /\ host' = host /\ usage' = usage
      /\ waiting' = waiting /\ url' = url /\ location' = location /\ request' = request
      /\ response' = response /\ messages' = messages /\ shellQ' = shellQ
      /\ serviceQ' = serviceQ /\ held' = held /\ stack' = stack /\ Top' = Top
  BY DEF life, data, target, list, queues, content, Top
<1>2. UsageCounts' /\ InvLive' /\ InvWaiting' /\ InvScript' /\ InvCancel' /\ InvOwed'
  BY <1>1 DEF Core, UsageCounts, Posted, InvLive, InvWaiting, Completing, InvScript,
              InvCancel, InvOwed, Has
<1>3. InvHttp' /\ InvWait' /\ InvInvoke' /\ InvLinked' /\ InvFrames'
  BY <1>1 DEF Core, InvHttp, InvWait, InvInvoke, InvLinked, InvFrames
<1> QED
  BY <1>2, <1>3 DEF Safe

LEMMA ContentWalkSafe ==
  ASSUME Careful, Core, NEW c \in Content,
         KprContentCancel(c) \/ KprContentDispose(c) \/ WalkEnd
  PROVE  Safe'
<1>1. /\ UNCHANGED <<life, data, target, list, queues, held, stack>>
      /\ walk' # None => Cancels # {}
  BY DEF KprContentCancel, KprContentDispose, WalkEnd, Cancels
<1> QED
  BY <1>1, WalkSafe

(* The frame of a handler whose script runs. *)
LEMMA HandlerFrame ==
  ASSUME Core, Unnotified, ScriptRuns, HandlerRuns
  PROVE  /\ Top.handles \in Message \ WaitMessage
         /\ response[Top.handles] = None =>
              /\ Top.at \in {"invoke", "complete", "resume"}
              /\ Top.handles \in messages /\ url[Top.handles] = "xkpr"
              /\ \A i \in DOMAIN shellQ : shellQ[i].ev = "invoke" => shellQ[i].m # Top.handles
<1>1. /\ stack # <<>> /\ walk = None /\ Top.script /\ Top.handles # None
      /\ Top.at \in {"invoke", "complete", "resume", "progress", "inShell", "inApplication"}
      /\ TypeOK /\ InvFrames /\ InvWait /\ InvInvoke
  BY DEF ScriptRuns, HandlerRuns, Core
<1>2. /\ Len(stack) \in DOMAIN stack /\ Top = stack[Len(stack)]
      /\ Top.handles \in Message \union {None}
  BY <1>1, TopFrame
<1>a. Top.at \in {"invoke", "complete", "resume", "progress"}
  BY <1>1, <1>2 DEF Unnotified, Notifying
<1>3. Top.handles \in Message \ WaitMessage
  BY <1>1, <1>2 DEF InvWait
<1>4. Top.at = "progress" => response[Top.handles] # None
  BY <1>1, <1>2, Zenon DEF InvFrames
<1>5. ASSUME Top.at \in {"invoke", "complete", "resume"}
      PROVE  /\ Top.handles \in messages /\ url[Top.handles] = "xkpr"
             /\ \A i \in DOMAIN shellQ : shellQ[i].ev = "invoke" => shellQ[i].m # Top.handles
  <2>1. url[Top.handles] = "xkpr"
    BY <1>1, <1>2, <1>5, Zenon DEF InvFrames
  <2>2. Top.handles \in messages
    <3>1. CASE Top.at = "invoke"
      BY <1>1, <1>2, <3>1, Zenon DEF InvFrames
    <3>2. CASE Top.at = "complete"
      BY <1>1, <1>2, <3>2, Zenon DEF InvFrames
    <3>3. CASE Top.at = "resume"
      BY <1>1, <1>2, <3>3, Zenon DEF InvFrames
    <3> QED
      BY <1>5, <3>1, <3>2, <3>3
  <2> QED
    BY <1>1, <1>2, <1>5, <2>1, <2>2 DEF InvInvoke
<1> QED
  BY <1>a, <1>3, <1>4, <1>5

LEMMA RedirectSafe ==
  ASSUME Careful, Core, Unnotified, NEW s \in RedirectTo, KPR_handler_redirect(s)
  PROVE  Safe'
<1> DEFINE f == Top.handles
<1>1. /\ "redirect" \in Script /\ ScriptRuns /\ HandlerRuns
      /\ location' = [location EXCEPT ![f] = s]
      /\ alive' = alive /\ host' = host /\ usage' = usage
      /\ waiting' = waiting /\ url' = url /\ request' = request
      /\ response' = response /\ messages' = messages /\ shellQ' = shellQ
      /\ serviceQ' = serviceQ /\ held' = held /\ stack' = stack /\ walk' = walk /\ Top' = Top
  BY DEF KPR_handler_redirect, Call, life, target, list, queues, content, Top
<1>2. f \in Message \ WaitMessage
  BY <1>1, HandlerFrame
<1>3. location \in [Message -> Schemes \union {"nil"}]
  BY DEF Core, TypeOK
<1> HIDE DEF f
<1>4. /\ \A n \in Message : location'[n] # "nil" => location'[n] \in RedirectTo
      /\ \A w \in WaitMessage : w \in Message => location'[w] = location[w]
  BY <1>1, <1>2, <1>3 DEF Core, InvScript
<1>5. InvScript'
  BY <1>1, <1>4 DEF Core, InvScript
<1>6. InvWait'
  BY <1>1, <1>4, ConstantsAssumption DEF Core, InvWait
<1>7. UsageCounts' /\ InvLive' /\ InvWaiting' /\ InvCancel' /\ InvOwed'
  BY <1>1 DEF Core, UsageCounts, Posted, InvLive, InvWaiting, Completing, InvCancel, InvOwed, Has
<1>8. InvHttp' /\ InvInvoke' /\ InvLinked' /\ InvFrames'
  BY <1>1 DEF Core, InvHttp, InvInvoke, InvLinked, InvFrames
<1> QED
  BY <1>5, <1>6, <1>7, <1>8 DEF Safe

LEMMA HandlerWaitSafe ==
  ASSUME Careful, Core, Unnotified, KPR_handler_wait
  PROVE  Safe'
<1> USE ConstantsAssumption
<1> DEFINE f == Top.handles
<1>1. /\ ScriptRuns /\ HandlerRuns /\ response[f] = None
      /\ response' = [response EXCEPT ![f] = HandlerWait]
      /\ usage' = [usage EXCEPT ![f] = @ + 1]
      /\ alive' = alive /\ host' = host /\ location' = location
      /\ waiting' = waiting /\ url' = url /\ request' = request
      /\ messages' = messages /\ shellQ' = shellQ
      /\ serviceQ' = serviceQ /\ held' = held /\ stack' = stack /\ walk' = walk /\ Top' = Top
  BY DEF KPR_handler_wait, Call, data, list, queues, content, Top
<1>2. /\ f \in Message /\ f \notin WaitMessage
      /\ f \in messages /\ url[f] = "xkpr"
      /\ \A i \in DOMAIN shellQ : shellQ[i].ev = "invoke" => shellQ[i].m # f
  BY <1>1, HandlerFrame
<1>3. TypeOK
  BY DEF Core
<1> HIDE DEF f
<1>4. /\ response'[f] = HandlerWait
      /\ \A n : n \in Message /\ n # f => response'[n] = response[n] /\ usage'[n] = usage[n]
      /\ usage'[f] = usage[f] + 1
      /\ HandlerWait \notin Message /\ HandlerWait # None /\ HandlerWait # ContentWait
  BY <1>1, <1>2, <1>3 DEF TypeOK
<1>5. UsageCounts'
  <2>1. UsageCounts /\ {f} \in SUBSET Message
    BY <1>2 DEF Core
  <2>2. \A n \in Message \ {f} :
          /\ usage'[n] = usage[n] /\ host'[n] = host[n]
          /\ request'[n] = request[n] /\ response'[n] = response[n]
          /\ n \in messages' <=> n \in messages
          /\ CountedIn(shellQ', n) = Posted(n)
    BY <1>1, <1>4 DEF Posted
  <2>3. \A n \in {f} :
          usage'[n] = host'[n] + B(request'[n] # None) + B(n \in messages')
                      + CountedIn(shellQ', n) + B(response'[n] # None)
    <3>1. B(response[f] # None) = 0 /\ B(response'[f] # None) = 1
      BY <1>1, <1>4 DEF B
    <3>2. CountedIn(shellQ', f) = Posted(f)
      BY <1>1 DEF Posted
    <3>3. /\ usage[f] \in Nat /\ host[f] \in Nat /\ Posted(f) \in Nat
          /\ usage[f] = host[f] + B(request[f] # None) + B(f \in messages) + Posted(f)
                        + B(response[f] # None)
          /\ B(request[f] # None) \in {0, 1} /\ B(f \in messages) \in {0, 1}
      BY <1>2, Sum
    <3>4. usage'[f] = host[f] + B(request[f] # None) + B(f \in messages) + Posted(f) + 1
      BY <1>4, <3>1, <3>3
    <3> QED
      BY <1>1, <3>1, <3>2, <3>4
  <2> QED
    BY <2>1, <2>2, <2>3, Recount
<1>6. InvLive'
  <2>1. alive[f] = "live"
    BY <1>2, Unallocated
  <2> QED
    BY <1>1, <1>4, <2>1 DEF Core, InvLive
<1>7. InvWaiting' /\ InvScript' /\ InvCancel'
  BY <1>1 DEF Core, InvWaiting, Completing, InvScript, InvCancel
<1>8. InvOwed'
  <2>1. messages \subseteq Message
    BY <1>3 DEF TypeOK
  <2> QED
    BY <1>1, <1>4, <2>1 DEF Core, InvOwed, Has
<1>9. InvHttp'
  BY <1>1, <1>2, <1>4 DEF Core, InvHttp
<1>10. InvWait'
  BY <1>1, <1>2, <1>4 DEF Core, InvWait
<1>11. InvInvoke'
  <2>1. \A i \in DOMAIN shellQ : shellQ[i].m \in Message
    BY <1>3, EventFields DEF TypeOK
  <2> QED
    BY <1>1, <1>2, <1>4, <2>1 DEF Core, InvInvoke
<1>12. InvLinked'
  <2>1. messages \subseteq Message
    BY <1>3 DEF TypeOK
  <2>2. f \notin {None}
    BY <1>2
  <2>3. \A n \in messages : request[n] # f
    BY <1>1, <1>2, <2>1 DEF Core, InvLinked
  <2> QED
    BY <1>1, <1>2, <1>4, <2>1, <2>3 DEF Core, InvLinked
<1>13. InvFrames'
  <2>1. \A i \in DOMAIN stack : stack[i].m \in Message /\ stack[i].handles \in Message \union {None}
    <3>1. \A i \in DOMAIN stack : stack[i] \in Frames
      BY <1>3 DEF TypeOK
    <3> QED
      BY <3>1 DEF Frames
  <2>2. \A n \in Message : response[n] # None => response'[n] # None
    BY <1>4
  <2> QED
    BY <1>1, <2>1, <2>2 DEF Core, InvFrames
<1> QED
  BY <1>5, <1>6, <1>7, <1>8, <1>9, <1>10, <1>11, <1>12, <1>13 DEF Safe

(* Only messages of the services thread are posted to it. *)
LEMMA PostServiceHttp ==
  ASSUME Core, NEW m \in Message, NEW k \in Events, url' = url,
         serviceQ' = PostService(serviceQ, m, url[m], k)
  PROVE  \A i \in DOMAIN serviceQ' : url'[serviceQ'[i].m] = "http"
<1>1. CASE url[m] = "http"
  <2>1. serviceQ' = Append(serviceQ, Event(k, m))
    BY <1>1 DEF PostService
  <2>2. Event(k, m) \in EventRecords /\ Event(k, m).m = m
    BY DEF Event, EventRecords
  <2>3. \A i \in DOMAIN serviceQ' : (i \in DOMAIN serviceQ /\ serviceQ'[i] = serviceQ[i])
                                    \/ serviceQ'[i].m = m
    BY <2>1, <2>2, AppendSeq DEF Core, TypeOK
  <2> QED
    BY <1>1, <2>3 DEF Core, InvHttp
<1>2. CASE url[m] # "http"
  <2>1. serviceQ' = serviceQ
    BY <1>2 DEF PostService
  <2> QED
    BY <2>1 DEF Core, InvHttp
<1> QED
  BY <1>1, <1>2

(* Records on the stack. *)
LEMMA FrameFields ==
  ASSUME TypeOK
  PROVE  \A i \in DOMAIN stack : /\ stack[i].m \in Message
                                 /\ stack[i].handles \in Message \union {None}
                                 /\ stack[i].wrap \in Message \union {None}
                                 /\ stack[i].script \in BOOLEAN
<1>1. \A i \in DOMAIN stack : stack[i] \in Frames
  BY DEF TypeOK
<1> QED
  BY <1>1 DEF Frames

(* The queue after a cancel or notify callback is posted. *)
LEMMA PostOther ==
  ASSUME Core, NEW m \in Message, NEW s, NEW k \in {"cancel", "notify"},
         shellQ' = PostShell(shellQ, m, s, k),
         k = "cancel" /\ s = "xkpr" => Cancels # {} /\ ~waiting'[m] /\ url[m] = "xkpr",
         \A n \in Message : waiting'[n] => waiting[n],
         \A n \in Message : response'[n] = response[n] \/ (response'[n] = None /\ n \notin messages),
         stack' = stack \/ (stack' = <<>> /\ Top.at = "cancel"), UNCHANGED <<url, messages>>
  PROVE  /\ InvCancel' /\ InvInvoke' /\ InvOwed'
         /\ \A i \in DOMAIN shellQ' :
              shellQ'[i].ev \in {"complete", "progress"} => url'[shellQ'[i].m] = "http"
         /\ \A n \in Message : CountedIn(shellQ', n) = Posted(n) + B(s = "xkpr" /\ n = m)
<1>1. /\ url' = url /\ messages' = messages
      /\ (stack' = stack /\ Top' = Top) \/ (DOMAIN stack' = {} /\ Top.at = "cancel")
  BY DEF Top
<1>2. k \in Events /\ k \in Counted /\ k \notin {"invoke", "complete", "progress"}
  BY DEF Events, Counted
<1>3. shellQ \in Seq(EventRecords)
  BY DEF Core, TypeOK
<1>4. /\ shellQ' \in Seq(EventRecords)
      /\ \A i \in DOMAIN shellQ : i \in DOMAIN shellQ' /\ shellQ'[i] = shellQ[i]
      /\ \A i \in DOMAIN shellQ' :
           i \in DOMAIN shellQ \/ (s = "xkpr" /\ shellQ'[i].ev = k /\ shellQ'[i].m = m)
      /\ \A i, j \in DOMAIN shellQ' : i \notin DOMAIN shellQ => j <= i
  BY <1>2, <1>3, Posting
<1>5. InvCancel'
  <2> SUFFICES ASSUME NEW i \in DOMAIN shellQ', shellQ'[i].ev = "cancel"
               PROVE  /\ Cancels # {} /\ ~waiting'[shellQ'[i].m] /\ url[shellQ'[i].m] = "xkpr"
                      /\ \A j \in DOMAIN shellQ' :
                           shellQ'[j] = Event("invoke", shellQ'[i].m) => j < i
    BY <1>1 DEF InvCancel
  <2>1. Event("invoke", shellQ'[i].m).ev = "invoke"
    BY DEF Event
  <2>2. CASE i \in DOMAIN shellQ
    <3>1. /\ shellQ'[i] = shellQ[i] /\ shellQ[i].ev = "cancel" /\ shellQ[i].m \in Message
      BY <1>3, <1>4, <2>2, EventFields
    <3>2. /\ Cancels # {} /\ ~waiting[shellQ[i].m] /\ url[shellQ[i].m] = "xkpr"
          /\ \A j \in DOMAIN shellQ : shellQ[j] = Event("invoke", shellQ[i].m) => j < i
      BY <2>2, <3>1 DEF Core, InvCancel
    <3>3. \A j \in DOMAIN shellQ' : shellQ'[j].ev = "invoke" =>
            j \in DOMAIN shellQ /\ shellQ'[j] = shellQ[j]
      BY <1>2, <1>4
    <3> QED
      BY <2>1, <3>1, <3>2, <3>3
  <2>3. CASE i \notin DOMAIN shellQ
    <3>1. s = "xkpr" /\ k = "cancel" /\ shellQ'[i].m = m
      BY <1>4, <2>3
    <3>2. \A j \in DOMAIN shellQ' : j <= i /\ j \in Int /\ i \in Int
      BY <1>4, <2>3
    <3>3. \A j \in DOMAIN shellQ' : shellQ'[j] = Event("invoke", shellQ'[i].m) => j # i
      BY <2>1
    <3> QED
      BY <3>1, <3>2, <3>3
  <2> QED
    BY <2>2, <2>3
<1>6. InvInvoke'
  <2> SUFFICES ASSUME NEW i \in DOMAIN shellQ', shellQ'[i].ev = "invoke"
               PROVE  /\ url[shellQ'[i].m] = "xkpr"
                      /\ shellQ'[i].m \notin WaitMessage =>
                           shellQ'[i].m \in messages /\ response'[shellQ'[i].m] = None
                      /\ \A j \in DOMAIN stack' : stack'[j].at \in {"invoke", "complete", "resume"}
                                                  => stack'[j].handles # shellQ'[i].m
                      /\ \A j \in DOMAIN shellQ' : shellQ'[j] = shellQ'[i] => j = i
    BY <1>1 DEF InvInvoke
  <2>1. i \in DOMAIN shellQ /\ shellQ'[i] = shellQ[i] /\ shellQ[i].m \in Message
    BY <1>2, <1>3, <1>4, EventFields
  <2>2. \A j \in DOMAIN shellQ' : shellQ'[j].ev = "invoke" => j \in DOMAIN shellQ
    BY <1>2, <1>4
  <2> QED
    BY <1>1, <1>4, <2>1, <2>2 DEF Core, InvInvoke
<1>7. InvOwed'
  <2>1. \A n \in messages : n \in Message
    BY DEF Core, TypeOK
  <2> QED
    BY <1>1, <1>4, <2>1 DEF Core, InvOwed, Has
<1>8. \A i \in DOMAIN shellQ' :
        shellQ'[i].ev \in {"complete", "progress"} => url'[shellQ'[i].m] = "http"
  BY <1>1, <1>2, <1>4 DEF Core, InvHttp
<1>9. \A n \in Message : CountedIn(shellQ', n) = Posted(n) + B(s = "xkpr" /\ n = m)
  <2> TAKE n \in Message
  <2>1. CountedIn(shellQ', n) = CountedIn(shellQ, n) + B(s = "xkpr" /\ n = m /\ k \in Counted)
    BY <1>2, <1>3, CountPost
  <2>2. B(s = "xkpr" /\ n = m /\ k \in Counted) = B(s = "xkpr" /\ n = m)
    BY <1>2 DEF B
  <2> QED
    BY <2>1, <2>2 DEF Posted
<1> QED
  BY <1>5, <1>6, <1>7, <1>8, <1>9

LEMMA CancelSafe ==
  ASSUME Careful, Core, NEW m \in Message, waiting[m], request[m] \notin Message,
         Cancels # {}, KprMessageCancel(m, usage, shellQ),
         UNCHANGED <<alive, host, url, location, response, messages, held, stack, walk>>
  PROVE  Safe'
<1> USE ConstantsAssumption
<1>1. /\ waiting' = [waiting EXCEPT ![m] = FALSE]
      /\ request' = [request EXCEPT ![m] = None]
      /\ usage' = [usage EXCEPT ![m] = @ - B(request[m] # None) + B(url[m] = "xkpr")]
      /\ shellQ' = PostShell(shellQ, m, url[m], "cancel")
      /\ serviceQ' = PostService(serviceQ, m, url[m], "cancel")
      /\ alive' = alive /\ host' = host /\ url' = url /\ location' = location
      /\ response' = response /\ messages' = messages /\ held' = held /\ stack' = stack
      /\ walk' = walk /\ Top' = Top
  BY DEF KprMessageCancel, Detached, Top
<1>2. TypeOK /\ m \in messages /\ messages \subseteq Message
  BY DEF Core, InvWaiting, TypeOK
<1>3. /\ waiting'[m] = FALSE /\ request'[m] = None
      /\ \A n \in Message : n # m => /\ waiting'[n] = waiting[n] /\ request'[n] = request[n]
                                     /\ usage'[n] = usage[n]
      /\ usage'[m] = usage[m] - B(request[m] # None) + B(url[m] = "xkpr")
  BY <1>1, <1>2 DEF TypeOK
<1>4. /\ InvCancel' /\ InvInvoke' /\ InvOwed'
      /\ \A i \in DOMAIN shellQ' :
           shellQ'[i].ev \in {"complete", "progress"} => url'[shellQ'[i].m] = "http"
      /\ \A n \in Message : CountedIn(shellQ', n) = Posted(n) + B(url[m] = "xkpr" /\ n = m)
  <2>1. \A n \in Message : response'[n] = response[n] \/ (response'[n] = None /\ n \notin messages)
    BY <1>1
  <2> QED
    BY <1>1, <1>3, <2>1, PostOther
<1>5. UsageCounts'
  <2>1. UsageCounts /\ {m} \in SUBSET Message
    BY DEF Core
  <2>2. \A n \in Message \ {m} : CountedIn(shellQ', n) = Posted(n)
    <3> TAKE n \in Message \ {m}
    <3>1. B(url[m] = "xkpr" /\ n = m) = 0 /\ Posted(n) \in Nat
      BY BValue, Sum
    <3> QED
      BY <1>4, <3>1
  <2>3. \A n \in Message \ {m} :
          /\ usage'[n] = usage[n] /\ host'[n] = host[n]
          /\ request'[n] = request[n] /\ response'[n] = response[n]
          /\ n \in messages' <=> n \in messages
          /\ CountedIn(shellQ', n) = Posted(n)
    BY <1>1, <1>3, <2>2
  <2>4. \A n \in {m} :
          usage'[n] = host'[n] + B(request'[n] # None) + B(n \in messages')
                      + CountedIn(shellQ', n) + B(response'[n] # None)
    <3>1. B(url[m] = "xkpr" /\ m = m) = B(url[m] = "xkpr") /\ B(url[m] = "xkpr") \in {0, 1}
      BY DEF B
    <3>2. CountedIn(shellQ', m) = Posted(m) + B(url[m] = "xkpr")
      BY <1>4, <3>1
    <3>3. B(request'[m] # None) = 0
      BY <1>3, BValue
    <3>4. /\ usage[m] \in Nat /\ host[m] \in Nat /\ Posted(m) \in Nat
          /\ usage[m] = host[m] + B(request[m] # None) + B(m \in messages) + Posted(m)
                        + B(response[m] # None)
          /\ B(request[m] # None) \in {0, 1} /\ B(m \in messages) \in {0, 1}
          /\ B(response[m] # None) \in {0, 1}
      BY Sum
    <3>5. usage'[m] = host[m] + B(m \in messages) + CountedIn(shellQ', m)
                      + B(response[m] # None)
      BY <1>3, <3>1, <3>2, <3>4
    <3>6. usage'[m] = host[m] + 0 + B(m \in messages) + CountedIn(shellQ', m)
                      + B(response[m] # None)
      BY <3>4, <3>5
    <3> QED
      BY <1>1, <3>3, <3>6
  <2> QED
    BY <2>1, <2>3, <2>4, Recount
<1>6. InvLive'
  <2>1. alive[m] = "live"
    BY <1>2, Unallocated
  <2> QED
    BY <1>1, <1>3, <2>1 DEF Core, InvLive
<1>7. InvWaiting'
  BY <1>1, <1>3 DEF Core, InvWaiting, Completing
<1>8. InvScript' 
  BY <1>1 DEF Core, InvScript
<1>9. InvWait'
  BY <1>1, <1>3 DEF Core, InvWait
<1>10. InvHttp'
  <2>1. "cancel" \in Events
    BY DEF Events
  <2>2. \A i \in DOMAIN serviceQ' : url'[serviceQ'[i].m] = "http"
    BY <1>1, <2>1, PostServiceHttp
  <2> QED
    BY <1>1, <1>4, <2>2 DEF Core, InvHttp
<1>11. InvLinked'
  <2>1. \A n \in Message : request[n] \in Message => request'[n] = request[n]
    BY <1>3
  <2>2. \A n \in Message : request'[n] \in Message => request'[n] = request[n]
    BY <1>3
  <2>3. \A n \in Message : request'[n] # n
    BY <2>2 DEF Core, InvLinked
  <2> QED
    BY <1>1, <1>2, <2>1, <2>2, <2>3 DEF Core, InvLinked
<1>12. InvFrames'
  <2>1. \A i \in DOMAIN stack : /\ stack[i].m \in Message
                                /\ stack[i].at \in {"complete", "cleanup"} =>
                                     stack[i].m # m /\ request[stack[i].m] # None
    BY <1>2, FrameFields DEF Core, InvFrames
  <2>2. \A i \in DOMAIN stack : stack[i].at \in {"complete", "cleanup"} =>
          request'[stack[i].m] # None
    BY <1>3, <2>1
  <2> QED
    BY <1>1, <2>2 DEF Core, InvFrames
<1> QED
  BY <1>4, <1>5, <1>6, <1>7, <1>8, <1>9, <1>10, <1>11, <1>12 DEF Safe

LEMMA MessageCancelSafe ==
  ASSUME Careful, Core, NEW m \in Message, KPR_message_cancel(m)
  PROVE  Safe'
<1>1. /\ waiting[m] /\ request[m] \notin Message /\ Cancels # {}
      /\ KprMessageCancel(m, usage, shellQ)
      /\ UNCHANGED <<alive, host, url, location, response, messages, held, stack, walk>>
  BY DEF KPR_message_cancel, Cancels, Careful, Careless, list, content
<1> QED
  BY <1>1, CancelSafe

LEMMA WalkCancelSafe ==
  ASSUME Careful, Core, NEW m \in Message, WalkCancel(m)
  PROVE  Safe'
<1> USE ConstantsAssumption
<1>1. /\ walk # None /\ request[m] = walk /\ walk \in Content \union {None}
      /\ KprMessageCancel(m, usage, shellQ)
      /\ UNCHANGED <<alive, host, url, location, response, messages, looped, held, stack, walk>>
  BY DEF WalkCancel, list, content, Core, TypeOK
<1>2. request[m] \notin Message /\ Cancels # {}
  BY <1>1 DEF Core, InvScript
<1>3. CASE waiting[m]
  BY <1>1, <1>2, <1>3, CancelSafe
<1>4. CASE ~waiting[m]
  <2>1. UNCHANGED <<life, data, target, list, queues, held, stack>>
    BY <1>1, <1>4 DEF KprMessageCancel, life, data, target, list, queues
  <2> QED
    BY <1>2, <2>1, WalkSafe
<1> QED
  BY <1>3, <1>4

(* A message that is quiet is referred to by nothing but wrappers. *)
LEMMA QuietFacts ==
  ASSUME Core, NEW m \in Message, Quiet(m)
  PROVE  /\ m \notin messages /\ ~waiting[m] /\ request[m] = None /\ response[m] = None
         /\ \A i \in DOMAIN shellQ : shellQ[i].m # m
         /\ \A i \in DOMAIN stack : stack[i].m # m /\ stack[i].handles # m
         /\ \A n \in Message : response[n] # m
         /\ \A n \in messages : request[n] # m
<1>1. /\ m \notin messages
      /\ \A i \in DOMAIN shellQ : shellQ[i].m # m
      /\ \A i \in DOMAIN stack : stack[i].m # m /\ stack[i].handles # m
  BY DEF Quiet
<1>2. ~waiting[m] /\ request[m] = None
  BY <1>1 DEF Core, InvWaiting, Completing
<1>3. response[m] = None
  <2>1. stack # <<>> => Len(stack) \in DOMAIN stack /\ Top = stack[Len(stack)]
    BY TopFrame DEF Core
  <2> QED
    BY <1>1, <2>1 DEF Core, InvLinked
<1>4. \A n \in Message : response[n] # m
  BY <1>1 DEF Core, InvLinked
<1>5. \A n \in messages : request[n] # m
  <2>1. messages \subseteq Message /\ None \notin Message
    BY ConstantsAssumption DEF Core, TypeOK
  <2> QED
    BY <1>3, <2>1 DEF Core, InvLinked
<1> QED
  BY <1>1, <1>2, <1>3, <1>4, <1>5

LEMMA PostInvoke ==
  ASSUME Core, NEW m \in Message, m \notin messages,
         \A i \in DOMAIN shellQ : shellQ[i].m # m,
         \A i \in DOMAIN stack : stack[i].at \in {"invoke", "complete", "resume"}
                                => stack[i].handles # m,
         shellQ' = PostShell(shellQ, m, url[m], "invoke"),
         waiting' = [waiting EXCEPT ![m] = TRUE],
         messages' = messages \union {m},
         \A n \in Message : /\ response'[n] = None => response[n] = None
                            /\ \/ response'[n] = response[n]
                               \/ \A i \in DOMAIN shellQ :
                                    shellQ[i].ev = "invoke" => shellQ[i].m # n,
         m \notin WaitMessage => response'[m] = None, UNCHANGED <<url, stack>>
  PROVE  /\ InvCancel' /\ InvInvoke' /\ InvOwed'
         /\ \A i \in DOMAIN shellQ' :
              shellQ'[i].ev \in {"complete", "progress"} => url'[shellQ'[i].m] = "http"
         /\ \A n \in Message : CountedIn(shellQ', n) = Posted(n) + B(url[m] = "xkpr" /\ n = m)
<1>1. url' = url /\ stack' = stack /\ Top' = Top
  BY DEF Top
<1>2. "invoke" \in Events /\ "invoke" \in Counted
  BY DEF Events, Counted
<1>3. shellQ \in Seq(EventRecords) /\ waiting \in [Message -> BOOLEAN] /\ messages \subseteq Message
  BY DEF Core, TypeOK
<1>4. /\ shellQ' \in Seq(EventRecords)
      /\ \A i \in DOMAIN shellQ : i \in DOMAIN shellQ' /\ shellQ'[i] = shellQ[i]
      /\ \A i \in DOMAIN shellQ' :
           i \in DOMAIN shellQ \/ (url[m] = "xkpr" /\ shellQ'[i].ev = "invoke" /\ shellQ'[i].m = m)
      /\ \A i, j \in DOMAIN shellQ' : i \notin DOMAIN shellQ => j <= i
      /\ url[m] = "xkpr" => \E i \in DOMAIN shellQ' : shellQ'[i] = Event("invoke", m)
  BY <1>2, <1>3, Posting
<1>5. \A i \in DOMAIN shellQ : shellQ[i].m # m /\ shellQ[i].m \in Message
  BY <1>3, EventFields
<1>6. InvCancel'
  <2> SUFFICES ASSUME NEW i \in DOMAIN shellQ', shellQ'[i].ev = "cancel"
               PROVE  /\ Cancels # {} /\ ~waiting'[shellQ'[i].m] /\ url[shellQ'[i].m] = "xkpr"
                      /\ \A j \in DOMAIN shellQ' :
                           shellQ'[j] = Event("invoke", shellQ'[i].m) => j < i
    BY <1>1 DEF InvCancel
  <2>1. i \in DOMAIN shellQ /\ shellQ'[i] = shellQ[i] /\ shellQ[i].m # m /\ shellQ[i].m \in Message
    BY <1>4, <1>5
  <2>2. ~waiting'[shellQ[i].m] /\ Cancels # {} /\ url[shellQ[i].m] = "xkpr"
    BY <1>3, <2>1 DEF Core, InvCancel
  <2>3. Event("invoke", shellQ[i].m).m = shellQ[i].m
    BY DEF Event
  <2>4. \A j \in DOMAIN shellQ' : shellQ'[j] = Event("invoke", shellQ[i].m) =>
          j \in DOMAIN shellQ /\ shellQ[j] = Event("invoke", shellQ[i].m)
    BY <1>4, <2>1, <2>3
  <2> QED
    BY <2>1, <2>2, <2>4 DEF Core, InvCancel
<1>7. InvInvoke'
  <2> SUFFICES ASSUME NEW i \in DOMAIN shellQ', shellQ'[i].ev = "invoke"
               PROVE  /\ url[shellQ'[i].m] = "xkpr"
                      /\ shellQ'[i].m \notin WaitMessage =>
                           shellQ'[i].m \in messages' /\ response'[shellQ'[i].m] = None
                      /\ \A k \in DOMAIN stack : stack[k].at \in {"invoke", "complete", "resume"}
                                                 => stack[k].handles # shellQ'[i].m
                      /\ \A j \in DOMAIN shellQ' : shellQ'[j] = shellQ'[i] => j = i
    BY <1>1 DEF InvInvoke
  <2>1. CASE i \in DOMAIN shellQ
    <3>1. shellQ'[i] = shellQ[i] /\ shellQ[i].ev = "invoke" /\ shellQ[i].m # m
          /\ shellQ[i].m \in Message
      BY <1>4, <1>5, <2>1
    <3>2. /\ url[shellQ[i].m] = "xkpr"
          /\ shellQ[i].m \notin WaitMessage =>
               shellQ[i].m \in messages /\ response[shellQ[i].m] = None
          /\ \A k \in DOMAIN stack : stack[k].at \in {"invoke", "complete", "resume"}
                                     => stack[k].handles # shellQ[i].m
          /\ \A j \in DOMAIN shellQ : shellQ[j] = shellQ[i] => j = i
      BY <2>1, <3>1 DEF Core, InvInvoke
    <3>3. response'[shellQ[i].m] = response[shellQ[i].m]
      BY <2>1, <3>1
    <3>4. \A j \in DOMAIN shellQ' : shellQ'[j] = shellQ[i] => j \in DOMAIN shellQ
      BY <1>4, <3>1
    <3> QED
      BY <1>4, <3>1, <3>2, <3>3, <3>4
  <2>2. CASE i \notin DOMAIN shellQ
    <3>1. url[m] = "xkpr" /\ shellQ'[i].m = m
      BY <1>4, <2>2
    <3>2. \A j \in DOMAIN shellQ' : shellQ'[j] = shellQ'[i] => j \notin DOMAIN shellQ
      BY <1>4, <1>5, <3>1
    <3>3. \A j \in DOMAIN shellQ' : j \notin DOMAIN shellQ => j <= i /\ i <= j
      BY <1>4, <2>2
    <3>4. \A j \in DOMAIN shellQ' : j \in Int /\ i \in Int
      BY <1>4
    <3>5. \A j \in DOMAIN shellQ' : j \notin DOMAIN shellQ => j = i
      BY <3>3, <3>4
    <3> QED
      BY <1>5, <3>1, <3>2, <3>5
  <2> QED
    BY <2>1, <2>2
<1>8. InvOwed'
  BY <1>1, <1>3, <1>4 DEF Core, InvOwed, Has
<1>9. \A i \in DOMAIN shellQ' :
        shellQ'[i].ev \in {"complete", "progress"} => url'[shellQ'[i].m] = "http"
  BY <1>1, <1>4 DEF Core, InvHttp
<1>10. \A n \in Message : CountedIn(shellQ', n) = Posted(n) + B(url[m] = "xkpr" /\ n = m)
  <2> TAKE n \in Message
  <2>1. CountedIn(shellQ', n)
          = CountedIn(shellQ, n) + B(url[m] = "xkpr" /\ n = m /\ "invoke" \in Counted)
    BY <1>2, <1>3, CountPost
  <2>2. B(url[m] = "xkpr" /\ n = m /\ "invoke" \in Counted) = B(url[m] = "xkpr" /\ n = m)
    BY <1>2 DEF B
  <2> QED
    BY <2>1, <2>2 DEF Posted
<1> QED
  BY <1>6, <1>7, <1>8, <1>9, <1>10

LEMMA InvokeRest ==
  ASSUME Core, NEW m \in Message, Quiet(m), url[m] \in Accepted,
         NEW t \in (Message \ WaitMessage) \union Content \union {None, Promise},
         waiting' = [waiting EXCEPT ![m] = TRUE],
         request' = [request EXCEPT ![m] = IF t = None THEN @ ELSE t],
         messages' = messages \union {m},
         shellQ' = PostShell(shellQ, m, url[m], "invoke"),
         serviceQ' = PostService(serviceQ, m, url[m], "invoke"),
         \A n \in Message :
            \/ response'[n] = response[n]
            \/ /\ n \notin WaitMessage /\ n # m /\ response'[n] = m /\ url[n] = "xkpr"
               /\ \A i \in DOMAIN shellQ : shellQ[i].ev = "invoke" => shellQ[i].m # n,
         UNCHANGED <<alive, host, url, location, held, stack, walk>>
  PROVE  /\ InvWaiting' /\ InvScript' /\ InvCancel' /\ InvOwed' /\ InvHttp'
         /\ InvWait' /\ InvInvoke' /\ InvFrames'
         /\ \A n \in Message : CountedIn(shellQ', n) = Posted(n) + B(url[m] = "xkpr" /\ n = m)
<1> USE ConstantsAssumption
<1>1. /\ alive' = alive /\ host' = host /\ url' = url /\ location' = location
      /\ held' = held /\ stack' = stack /\ walk' = walk /\ Top' = Top
  BY DEF Top
<1>2. TypeOK
  BY DEF Core
<1>3. /\ m \notin messages /\ ~waiting[m] /\ request[m] = None /\ response[m] = None
      /\ \A i \in DOMAIN shellQ : shellQ[i].m # m
      /\ \A i \in DOMAIN stack : stack[i].m # m /\ stack[i].handles # m
  BY QuietFacts
<1>4. /\ \A n \in Message : response'[n] = None => response[n] = None
      /\ \A n \in Message : response[n] # None => response'[n] # None
      /\ response'[m] = None
  BY <1>3, QuietFacts
<1>5. /\ InvCancel' /\ InvInvoke' /\ InvOwed'
      /\ \A i \in DOMAIN shellQ' :
           shellQ'[i].ev \in {"complete", "progress"} => url'[shellQ'[i].m] = "http"
      /\ \A n \in Message : CountedIn(shellQ', n) = Posted(n) + B(url[m] = "xkpr" /\ n = m)
  <2>1. \A n \in Message :
          /\ response'[n] = None => response[n] = None
          /\ \/ response'[n] = response[n]
             \/ \A i \in DOMAIN shellQ : shellQ[i].ev = "invoke" => shellQ[i].m # n
    BY <1>4
  <2>2. \A i \in DOMAIN stack : stack[i].at \in {"invoke", "complete", "resume"}
                                => stack[i].handles # m
    BY <1>3
  <2> QED
    BY <1>1, <1>3, <1>4, <2>1, <2>2, PostInvoke
<1>6. /\ waiting'[m] /\ request'[m] = t
      /\ \A n \in Message : n # m => waiting'[n] = waiting[n] /\ request'[n] = request[n]
  BY <1>2, <1>3 DEF TypeOK
<1>7. InvWaiting'
  BY <1>1, <1>6 DEF Core, InvWaiting, Completing
<1>8. InvScript'
  BY <1>1 DEF Core, InvScript
<1>9. InvHttp'
  <2>1. "invoke" \in Events
    BY DEF Events
  <2>2. \A i \in DOMAIN serviceQ' : url'[serviceQ'[i].m] = "http"
    BY <1>1, <2>1, PostServiceHttp
  <2> QED
    BY <1>1, <1>5, <2>2 DEF Core, InvHttp
<1>10. InvWait'
  <2>1. \A w \in WaitMessage : w \in Message /\ response'[w] = response[w]
    OBVIOUS
  <2>2. \A w \in WaitMessage : \A n \in Message : request'[n] # w
    BY <1>6, <2>1 DEF Core, InvWait
  <2> QED
    BY <1>1, <2>1, <2>2 DEF Core, InvWait
<1>11. InvFrames'
  <2>1. \A i \in DOMAIN stack : stack[i].m \in Message /\ stack[i].handles \in Message \union {None}
    BY <1>2, FrameFields
  <2>2. \A i \in DOMAIN stack : request'[stack[i].m] = request[stack[i].m]
    BY <1>3, <1>6, <2>1
  <2>3. \A i \in DOMAIN stack : stack[i].m \in messages' <=> stack[i].m \in messages
    BY <1>3
  <2> QED
    BY <1>1, <1>4, <2>1, <2>2, <2>3 DEF Core, InvFrames
<1> QED
  BY <1>5, <1>7, <1>8, <1>9, <1>10, <1>11

(* KprMessageInvoke of a quiet message, for a content, a promise or nobody. *)
LEMMA InvokeSafe ==
  ASSUME Careful, Core, NEW m \in Message, Quiet(m), host[m] > 0, url[m] \in Accepted,
         NEW t \in Content \union {None, Promise}, KprMessageInvoke(m, t),
         UNCHANGED <<alive, host, url, location, response, held, stack, walk>>
  PROVE  Safe'
<1> USE ConstantsAssumption
<1>1. /\ waiting' = [waiting EXCEPT ![m] = TRUE]
      /\ request' = [request EXCEPT ![m] = IF t = None THEN @ ELSE t]
      /\ usage' = [usage EXCEPT ![m] = @ + InvokeRefs(m, t)]
      /\ messages' = messages \union {m}
      /\ shellQ' = PostShell(shellQ, m, url[m], "invoke")
      /\ serviceQ' = PostService(serviceQ, m, url[m], "invoke")
      /\ alive' = alive /\ host' = host /\ response' = response /\ stack' = stack /\ Top' = Top
  BY DEF KprMessageInvoke, Top
<1>2. TypeOK /\ t \in (Message \ WaitMessage) \union Content \union {None, Promise} /\ t \notin Message
  BY DEF Core
<1>3. /\ InvWaiting' /\ InvScript' /\ InvCancel' /\ InvOwed' /\ InvHttp'
      /\ InvWait' /\ InvInvoke' /\ InvFrames'
      /\ \A n \in Message : CountedIn(shellQ', n) = Posted(n) + B(url[m] = "xkpr" /\ n = m)
  BY <1>1, <1>2, InvokeRest
<1>4. /\ m \notin messages /\ request[m] = None /\ response[m] = None
      /\ \A n \in Message : response[n] # m
      /\ \A n \in messages : request[n] # m
  BY QuietFacts
<1>5. /\ request'[m] = t /\ usage'[m] = usage[m] + InvokeRefs(m, t)
      /\ \A n \in Message : n # m => request'[n] = request[n] /\ usage'[n] = usage[n]
  BY <1>1, <1>2, <1>4 DEF TypeOK
<1>6. UsageCounts'
  <2>1. UsageCounts /\ {m} \in SUBSET Message
    BY DEF Core
  <2>2. \A n \in Message \ {m} : CountedIn(shellQ', n) = Posted(n)
    <3> TAKE n \in Message \ {m}
    <3>1. B(url[m] = "xkpr" /\ n = m) = 0 /\ Posted(n) \in Nat
      BY BValue, Sum
    <3> QED
      BY <1>3, <3>1
  <2>3. \A n \in Message \ {m} :
          /\ usage'[n] = usage[n] /\ host'[n] = host[n]
          /\ request'[n] = request[n] /\ response'[n] = response[n]
          /\ n \in messages' <=> n \in messages
          /\ CountedIn(shellQ', n) = Posted(n)
    BY <1>1, <1>5, <2>2
  <2>4. \A n \in {m} :
          usage'[n] = host'[n] + B(request'[n] # None) + B(n \in messages')
                      + CountedIn(shellQ', n) + B(response'[n] # None)
    <3>1. B(url[m] = "xkpr" /\ m = m) = B(url[m] = "xkpr") /\ B(url[m] = "xkpr") \in {0, 1}
          /\ B(t # None) \in {0, 1}
      BY DEF B
    <3>2. CountedIn(shellQ', m) = Posted(m) + B(url[m] = "xkpr")
      BY <1>3, <3>1
    <3>3. B(request'[m] # None) = B(t # None) /\ B(m \in messages') = 1 /\ B(m \in messages) = 0
          /\ B(request[m] # None) = 0 /\ B(response[m] # None) = 0 /\ B(response'[m] # None) = 0
      BY <1>1, <1>4, <1>5, BValue
    <3>4. /\ usage[m] \in Nat /\ host[m] \in Nat /\ Posted(m) \in Nat
          /\ usage[m] = host[m] + B(request[m] # None) + B(m \in messages) + Posted(m)
                        + B(response[m] # None)
      BY Sum
    <3>5. usage'[m] = usage[m] + (B(t # None) + 1 + B(url[m] = "xkpr"))
      BY <1>5 DEF InvokeRefs
    <3>6. usage[m] = host[m] + Posted(m)
      BY <3>3, <3>4
    <3>7. usage'[m] = host[m] + B(t # None) + 1 + CountedIn(shellQ', m) + 0
      BY <3>1, <3>2, <3>4, <3>5, <3>6
    <3> QED
      BY <1>1, <3>3, <3>7
  <2> QED
    BY <2>1, <2>3, <2>4, Recount
<1>7. InvLive'
  <2>1. alive[m] = "live"
    BY Unallocated
  <2> QED
    BY <1>1, <1>5, <2>1 DEF Core, InvLive
<1>8. InvLinked'
  <2>1. \A n \in Message : request'[n] # n
    BY <1>2, <1>5 DEF Core, InvLinked
  <2>2. \A f \in Message : response'[f] \in Message =>
          request'[response'[f]] = f /\ response'[f] \in messages'
    BY <1>1, <1>4, <1>5 DEF Core, InvLinked
  <2>3. \A n \in messages' : request'[n] \in Message => response'[request'[n]] = n
    BY <1>1, <1>2, <1>5 DEF Core, InvLinked, TypeOK
  <2>4. \A f \in Message : response'[f] # None =>
          f \in messages' \/ (stack' # <<>> /\ Top'.at = "cancel" /\ Top'.m = f)
    BY <1>1 DEF Core, InvLinked
  <2> QED
    BY <2>1, <2>2, <2>3, <2>4 DEF InvLinked
<1> QED
  BY <1>3, <1>6, <1>7, <1>8 DEF Safe

LEMMA ScriptInvokeSafe ==
  ASSUME Careful, Core, NEW m \in Message,
         \/ KPR_invoke_only(m) \/ KPR_message_invoke(m)
         \/ \E c \in Content : KPR_content_invoke(c, m)
  PROVE  Safe'
<1>1. MayInvoke(m) => Quiet(m)
  BY DEF MayInvoke, Careful, Careless
<1>2. PICK t \in Content \union {None, Promise} :
        /\ MayInvoke(m) /\ host[m] > 0 /\ url[m] \in Accepted /\ KprMessageInvoke(m, t)
        /\ UNCHANGED <<alive, host, url, location, response, held, stack, walk>>
  <2>1. CASE KPR_invoke_only(m)
    <3>1. None \in Content \union {None, Promise}
      OBVIOUS
    <3> QED
      BY <2>1, <3>1 DEF KPR_invoke_only, content
  <2>2. CASE KPR_message_invoke(m)
    <3>1. Promise \in Content \union {None, Promise}
      OBVIOUS
    <3> QED
      BY <2>2, <3>1 DEF KPR_message_invoke, content
  <2>3. CASE \E c \in Content : KPR_content_invoke(c, m)
    BY <2>3 DEF KPR_content_invoke
  <2> QED
    BY <2>1, <2>2, <2>3
<1> QED
  BY <1>1, <1>2, InvokeSafe

(* handler.invoke suspends the message of the handler on the one it invokes. *)
LEMMA HandlerInvokeSafe ==
  ASSUME Careful, Core, Unnotified, NEW m \in Message, KPR_handler_invoke(m)
  PROVE  Safe'
<1> USE ConstantsAssumption
<1> DEFINE f == Top.handles
<1>1. /\ ScriptRuns /\ HandlerRuns /\ host[m] > 0 /\ m # f /\ response[f] = None
      /\ Invokable(m) /\ Quiet(m)
      /\ response' = [response EXCEPT ![f] = m]
      /\ waiting' = [waiting EXCEPT ![m] = TRUE]
      /\ request' = [request EXCEPT ![m] = f]
      /\ usage' = [usage EXCEPT ![f] = @ + 1, ![m] = @ + InvokeRefs(m, f)]
      /\ messages' = messages \union {m}
      /\ shellQ' = PostShell(shellQ, m, url[m], "invoke")
      /\ serviceQ' = PostService(serviceQ, m, url[m], "invoke")
      /\ alive' = alive /\ host' = host /\ url' = url /\ location' = location
      /\ held' = held /\ stack' = stack /\ walk' = walk /\ Top' = Top
  BY DEF KPR_handler_invoke, Call, MaySuspend, MayInvoke, Careful, Careless, content, Top
<1>2. /\ f \in Message \ WaitMessage /\ f \in messages /\ url[f] = "xkpr"
      /\ \A i \in DOMAIN shellQ : shellQ[i].ev = "invoke" => shellQ[i].m # f
  BY <1>1, HandlerFrame
<1> HIDE DEF f
<1>3. TypeOK /\ messages \subseteq Message /\ f # None /\ m # None
  BY <1>2 DEF Core, TypeOK
<1>4. /\ m \notin messages /\ request[m] = None /\ response[m] = None
      /\ \A n \in Message : response[n] # m
      /\ \A n \in messages : request[n] # m
  BY <1>1, QuietFacts
<1>5. /\ request'[m] = f /\ response'[f] = m
      /\ usage'[m] = usage[m] + InvokeRefs(m, f) /\ usage'[f] = usage[f] + 1
      /\ \A n \in Message : n # m => request'[n] = request[n]
      /\ \A n \in Message : n # f => response'[n] = response[n]
      /\ \A n \in Message : n # m /\ n # f => usage'[n] = usage[n]
  BY <1>1, <1>2, <1>3 DEF TypeOK
<1>6. /\ InvWaiting' /\ InvScript' /\ InvCancel' /\ InvOwed' /\ InvHttp'
      /\ InvWait' /\ InvInvoke' /\ InvFrames'
      /\ \A n \in Message : CountedIn(shellQ', n) = Posted(n) + B(url[m] = "xkpr" /\ n = m)
  <2>1. \A n \in Message :
          \/ response'[n] = response[n]
          \/ /\ n \notin WaitMessage /\ n # m /\ response'[n] = m /\ url[n] = "xkpr"
             /\ \A i \in DOMAIN shellQ : shellQ[i].ev = "invoke" => shellQ[i].m # n
    BY <1>1, <1>2, <1>5
  <2>2. url[m] \in Accepted
    BY <1>1 DEF Invokable
  <2>3. request' = [request EXCEPT ![m] = IF f = None THEN @ ELSE f]
    BY <1>1, <1>3
  <2>4. f \in (Message \ WaitMessage) \union Content \union {None, Promise}
    BY <1>2
  <2> QED
    BY <1>1, <2>1, <2>2, <2>3, <2>4, InvokeRest
<1>7. UsageCounts'
  <2>1. UsageCounts /\ {m, f} \in SUBSET Message
    BY <1>2 DEF Core
  <2>2. \A n \in Message : n # m => CountedIn(shellQ', n) = Posted(n)
    <3> TAKE n \in Message
    <3> HAVE n # m
    <3>1. B(url[m] = "xkpr" /\ n = m) = 0 /\ Posted(n) \in Nat
      BY BValue, Sum
    <3> QED
      BY <1>6, <3>1
  <2>3. \A n \in Message \ {m, f} :
          /\ usage'[n] = usage[n] /\ host'[n] = host[n]
          /\ request'[n] = request[n] /\ response'[n] = response[n]
          /\ n \in messages' <=> n \in messages
          /\ CountedIn(shellQ', n) = Posted(n)
    BY <1>1, <1>5, <2>2
  <2>4. usage'[m] = host'[m] + B(request'[m] # None) + B(m \in messages')
                    + CountedIn(shellQ', m) + B(response'[m] # None)
    <3>1. B(url[m] = "xkpr" /\ m = m) = B(url[m] = "xkpr") /\ B(url[m] = "xkpr") \in {0, 1}
          /\ B(f # None) = 1
      BY <1>3 DEF B
    <3>2. CountedIn(shellQ', m) = Posted(m) + B(url[m] = "xkpr")
      BY <1>6, <3>1
    <3>3. B(request'[m] # None) = 1 /\ B(m \in messages') = 1 /\ B(m \in messages) = 0
          /\ B(request[m] # None) = 0 /\ B(response[m] # None) = 0 /\ B(response'[m] # None) = 0
      BY <1>1, <1>3, <1>4, <1>5, BValue
    <3>4. /\ usage[m] \in Nat /\ host[m] \in Nat /\ Posted(m) \in Nat
          /\ usage[m] = host[m] + B(request[m] # None) + B(m \in messages) + Posted(m)
                        + B(response[m] # None)
      BY Sum
    <3>5. usage'[m] = usage[m] + (B(f # None) + 1 + B(url[m] = "xkpr"))
      BY <1>5 DEF InvokeRefs
    <3>6. usage[m] = host[m] + Posted(m)
      BY <3>3, <3>4
    <3>7. usage'[m] = host[m] + 1 + 1 + CountedIn(shellQ', m) + 0
      BY <3>1, <3>2, <3>4, <3>5, <3>6
    <3> QED
      BY <1>1, <3>3, <3>7
  <2>5. usage'[f] = host'[f] + B(request'[f] # None) + B(f \in messages')
                    + CountedIn(shellQ', f) + B(response'[f] # None)
    <3>1. /\ B(f \in messages') = B(f \in messages) /\ B(response[f] # None) = 0
          /\ B(response'[f] # None) = 1 /\ CountedIn(shellQ', f) = Posted(f)
          /\ host'[f] = host[f] /\ request'[f] = request[f]
      BY <1>1, <1>2, <1>3, <1>5, <2>2, BValue
    <3>2. /\ usage[f] \in Nat /\ host[f] \in Nat /\ Posted(f) \in Nat
          /\ usage[f] = host[f] + B(request[f] # None) + B(f \in messages) + Posted(f)
                        + B(response[f] # None)
          /\ B(request[f] # None) \in {0, 1} /\ B(f \in messages) \in {0, 1}
      BY <1>2, Sum
    <3>3. usage'[f] = host[f] + B(request[f] # None) + B(f \in messages) + Posted(f) + 1
      BY <1>5, <3>1, <3>2
    <3> QED
      BY <3>1, <3>3
  <2>6. \A n \in {m, f} :
          usage'[n] = host'[n] + B(request'[n] # None) + B(n \in messages')
                      + CountedIn(shellQ', n) + B(response'[n] # None)
    BY <2>4, <2>5
  <2> QED
    BY <2>1, <2>3, <2>6, Recount
<1>8. InvLive'
  <2>1. alive[m] = "live" /\ alive[f] = "live"
    BY <1>1, <1>2, Unallocated
  <2> QED
    BY <1>1, <1>5, <2>1 DEF Core, InvLive
<1>9. InvLinked'
  <2>1. \A n \in Message : request'[n] # n
    BY <1>1, <1>5 DEF Core, InvLinked
  <2>2. \A n \in Message : response'[n] \in Message =>
          request'[response'[n]] = n /\ response'[n] \in messages'
    BY <1>1, <1>4, <1>5 DEF Core, InvLinked
  <2>3. \A n \in messages : request[n] # f
    BY <1>1, <1>2, <1>3 DEF Core, InvLinked
  <2>4. \A n \in messages' : request'[n] \in Message => response'[request'[n]] = n
    BY <1>1, <1>3, <1>5, <2>3 DEF Core, InvLinked
  <2>5. \A n \in Message : response'[n] # None =>
          n \in messages' \/ (stack' # <<>> /\ Top'.at = "cancel" /\ Top'.m = n)
    BY <1>1, <1>2, <1>5 DEF Core, InvLinked
  <2> QED
    BY <2>1, <2>2, <2>4, <2>5 DEF InvLinked
<1> QED
  BY <1>6, <1>7, <1>8, <1>9 DEF Safe

(* content.wait: the new message is suspended and its invocation posted. *)
LEMMA ContentWaitSafe ==
  ASSUME Careful, Core, NEW c \in Content, NEW m \in Message, KPR_content_wait(c, m)
  PROVE  Safe'
<1> USE ConstantsAssumption
<1>1. /\ m \in WaitMessage /\ alive[m] # "live"
      /\ alive' = [alive EXCEPT ![m] = "live"]
      /\ waiting' = [waiting EXCEPT ![m] = TRUE]
      /\ request' = [request EXCEPT ![m] = c]
      /\ response' = [response EXCEPT ![m] = ContentWait]
      /\ usage' = [usage EXCEPT ![m] = InvokeRefs(m, c) + 1]
      /\ messages' = messages \union {m}
      /\ shellQ' = Append(shellQ, Event("invoke", m))
      /\ host' = host /\ url' = url /\ location' = location /\ serviceQ' = serviceQ
      /\ held' = held /\ stack' = stack /\ walk' = walk /\ Top' = Top
  BY DEF KPR_content_wait, Top
<1>2. TypeOK /\ messages \subseteq Message
  BY DEF Core, TypeOK
<1>3. /\ usage[m] = 0 /\ host[m] = 0 /\ Posted(m) = 0
      /\ request[m] = None /\ response[m] = None /\ m \notin messages
      /\ \A i \in DOMAIN shellQ : shellQ[i].m = m => shellQ[i].ev \notin Counted
  BY <1>1, Unallocated
<1>4. url[m] = "xkpr"
  BY <1>1 DEF Core, InvWait
<1>5. /\ alive'[m] = "live" /\ waiting'[m] /\ request'[m] = c /\ response'[m] = ContentWait
      /\ usage'[m] = InvokeRefs(m, c) + 1
      /\ \A n \in Message : n # m =>
           /\ alive'[n] = alive[n] /\ waiting'[n] = waiting[n] /\ request'[n] = request[n]
           /\ response'[n] = response[n] /\ usage'[n] = usage[n]
  BY <1>1, <1>2 DEF TypeOK
<1>6. \A i \in DOMAIN shellQ : shellQ[i].m # m
  <2>1. \A i \in DOMAIN shellQ : shellQ[i].ev \in Events
    BY <1>2, EventFields DEF TypeOK
  <2>2. \A i \in DOMAIN shellQ : shellQ[i].ev \in {"complete", "progress"} => shellQ[i].m # m
    BY <1>4 DEF Core, InvHttp
  <2> QED
    BY <1>3, <2>1, <2>2 DEF Counted, Events
<1>7. \A i \in DOMAIN stack :
        /\ stack[i].at \in {"invoke", "complete", "resume"} => stack[i].handles # m
        /\ stack[i].at \in {"complete", "cleanup"} => stack[i].m # m
        /\ stack[i].at = "cancel" => stack[i].m # m
  <2> TAKE i \in DOMAIN stack
  <2>1. InvFrames
    BY DEF Core
  <2>2. CASE stack[i].at = "invoke"
    <3>1. stack[i].handles = stack[i].m /\ alive[stack[i].m] = "live"
      BY <2>1, <2>2, Zenon DEF InvFrames
    <3> QED
      BY <1>1, <2>2, <3>1
  <2>3. CASE stack[i].at = "complete"
    <3>1. /\ request[stack[i].m] # None
          /\ stack[i].handles # None => stack[i].handles \in messages
      BY <2>1, <2>3, Zenon DEF InvFrames
    <3> QED
      BY <1>3, <2>3, <3>1
  <2>4. CASE stack[i].at = "cleanup"
    <3>1. request[stack[i].m] # None
      BY <2>1, <2>4, Zenon DEF InvFrames
    <3> QED
      BY <1>3, <2>4, <3>1
  <2>5. CASE stack[i].at = "resume"
    <3>1. stack[i].m \in messages /\ stack[i].handles = stack[i].m
      BY <2>1, <2>5, Zenon DEF InvFrames
    <3> QED
      BY <1>3, <2>5, <3>1
  <2>6. CASE stack[i].at = "cancel"
    <3>1. response[stack[i].m] # None
      BY <2>1, <2>6, Zenon DEF InvFrames
    <3> QED
      BY <1>3, <2>6, <3>1
  <2> QED
    BY <2>2, <2>3, <2>4, <2>5, <2>6
<1>8. /\ InvCancel' /\ InvInvoke' /\ InvOwed'
      /\ \A i \in DOMAIN shellQ' :
           shellQ'[i].ev \in {"complete", "progress"} => url'[shellQ'[i].m] = "http"
      /\ \A n \in Message : CountedIn(shellQ', n) = Posted(n) + B(url[m] = "xkpr" /\ n = m)
  <2>1. shellQ' = PostShell(shellQ, m, url[m], "invoke")
    BY <1>1, <1>4 DEF PostShell
  <2>2. \A n \in Message :
          /\ response'[n] = None => response[n] = None
          /\ \/ response'[n] = response[n]
             \/ \A i \in DOMAIN shellQ : shellQ[i].ev = "invoke" => shellQ[i].m # n
    BY <1>3, <1>5, <1>6
  <2>3. \A i \in DOMAIN stack : stack[i].at \in {"invoke", "complete", "resume"}
                                => stack[i].handles # m
    BY <1>7
  <2> QED
    BY <1>1, <1>3, <1>6, <2>1, <2>2, <2>3, PostInvoke
<1>9. UsageCounts'
  <2>1. UsageCounts /\ {m} \in SUBSET Message
    BY DEF Core
  <2>2. \A n \in Message \ {m} : CountedIn(shellQ', n) = Posted(n)
    <3> TAKE n \in Message \ {m}
    <3>1. B(url[m] = "xkpr" /\ n = m) = 0 /\ Posted(n) \in Nat
      BY BValue, Sum
    <3> QED
      BY <1>8, <3>1
  <2>3. \A n \in Message \ {m} :
          /\ usage'[n] = usage[n] /\ host'[n] = host[n]
          /\ request'[n] = request[n] /\ response'[n] = response[n]
          /\ n \in messages' <=> n \in messages
          /\ CountedIn(shellQ', n) = Posted(n)
    BY <1>1, <1>5, <2>2
  <2>4. \A n \in {m} :
          usage'[n] = host'[n] + B(request'[n] # None) + B(n \in messages')
                      + CountedIn(shellQ', n) + B(response'[n] # None)
    <3>1. B(url[m] = "xkpr" /\ m = m) = 1 /\ B(url[m] = "xkpr") = 1 /\ B(c # None) = 1
      BY <1>4, BValue
    <3>2. CountedIn(shellQ', m) = 1
      BY <1>3, <1>8, <3>1
    <3>3. B(request'[m] # None) = 1 /\ B(m \in messages') = 1 /\ B(response'[m] # None) = 1
      <4>1. request'[m] # None /\ m \in messages' /\ response'[m] # None
        BY <1>1, <1>5
      <4> QED
        BY <4>1, BValue
    <3>4. usage'[m] = 4
      BY <1>5, <3>1 DEF InvokeRefs
    <3>5. host'[m] = 0
      BY <1>1, <1>3
    <3> QED
      BY <3>2, <3>3, <3>4, <3>5
  <2> QED
    BY <2>1, <2>3, <2>4, Recount
<1>10. InvLive'
  BY <1>5 DEF Core, InvLive
<1>11. InvWaiting'
  BY <1>1, <1>5 DEF Core, InvWaiting, Completing
<1>12. InvScript'
  BY <1>1 DEF Core, InvScript
<1>13. InvHttp'
  BY <1>1, <1>4, <1>5, <1>8 DEF Core, InvHttp
<1>14. InvWait'
  <2>1. \A w \in WaitMessage : \A n \in Message : request'[n] # w
    BY <1>5 DEF Core, InvWait
  <2>2. \A w \in WaitMessage : response'[w] \in {None, ContentWait}
    BY <1>5 DEF Core, InvWait
  <2>3. \A n \in Message \ WaitMessage : response'[n] # ContentWait
    BY <1>1, <1>5 DEF Core, InvWait
  <2> QED
    BY <1>1, <2>1, <2>2, <2>3 DEF Core, InvWait
<1>15. InvLinked'
  <2>1. \A n \in Message : request'[n] # n
    BY <1>5 DEF Core, InvLinked
  <2>2. \A f \in Message : response'[f] \in Message =>
          request'[response'[f]] = f /\ response'[f] \in messages'
    BY <1>1, <1>3, <1>5 DEF Core, InvLinked
  <2>3. \A n \in messages' : request'[n] \in Message => response'[request'[n]] = n
    <3>1. \A n \in Message : request[n] # m
      BY <1>1 DEF Core, InvWait
    <3> QED
      BY <1>1, <1>2, <1>5, <3>1 DEF Core, InvLinked
  <2>4. \A f \in Message : response'[f] # None =>
          f \in messages' \/ (stack' # <<>> /\ Top'.at = "cancel" /\ Top'.m = f)
    BY <1>1, <1>5 DEF Core, InvLinked
  <2> QED
    BY <2>1, <2>2, <2>3, <2>4 DEF InvLinked
<1>16. InvFrames'
  <2>1. \A i \in DOMAIN stack : stack[i].m \in Message /\ stack[i].handles \in Message \union {None}
    BY <1>2, FrameFields
  <2>2. \A n \in Message : /\ request[n] # None => request'[n] # None
                           /\ response[n] # None => response'[n] # None
                           /\ alive[n] = "live" => alive'[n] = "live"
                           /\ n # m /\ n \notin messages => n \notin messages'
                           /\ n \in messages => n \in messages'
    BY <1>1, <1>3, <1>5
  <2> QED
    BY <1>1, <1>7, <2>1, <2>2 DEF Core, InvFrames
<1> QED
  BY <1>8, <1>9, <1>10, <1>11, <1>12, <1>13, <1>14, <1>15, <1>16 DEF Safe

(* A running callback holds the wrapper that is its argument. *)
LEMMA HeldNat ==
  ASSUME TypeOK, NEW m
  PROVE  /\ Held(m) \in Nat
         /\ \A i \in DOMAIN stack : stack[i].wrap = m => Held(m) >= 1
<1> DEFINE S == {i \in DOMAIN stack : stack[i].wrap = m}
<1>1. IsFiniteSet(1 .. Len(stack)) /\ S \in SUBSET (1 .. Len(stack))
  <2>1. Len(stack) \in Nat /\ DOMAIN stack = 1 .. Len(stack)
    BY DEF TypeOK
  <2> QED
    BY <2>1, FS_Interval
<1>2. Held(m) = Cardinality(S)
  BY DEF Held
<1> HIDE DEF S
<1>3. IsFiniteSet(S)
  BY <1>1, FS_Subset
<1>4. Held(m) \in Nat
  BY <1>2, <1>3, FS_CardinalityType
<1>5. S # {} => Held(m) >= 1
  BY <1>2, <1>3, <1>4, FS_EmptySet
<1> QED
  BY <1>4, <1>5 DEF S

LEMMA DestructorSafe ==
  ASSUME Careful, Core, NEW m \in Message, KPR_message_destructor(m)
  PROVE  Safe'
<1> USE ConstantsAssumption
<1>1. /\ Collects /\ host[m] > Held(m)
      /\ host' = [host EXCEPT ![m] = @ - 1]
      /\ usage' = [usage EXCEPT ![m] = @ - 1]
      /\ alive' = [n \in Message |-> IF n \in Disposed(m, 1) THEN "freed" ELSE alive[n]]
      /\ messages' = messages \ Disposed(m, 1)
      /\ waiting' = waiting /\ url' = url /\ location' = location /\ request' = request
      /\ response' = response /\ shellQ' = shellQ /\ serviceQ' = serviceQ
      /\ held' = held /\ stack' = stack /\ walk' = walk /\ Top' = Top
  BY DEF KPR_message_destructor, Free, Careful, Careless, data, target, queues, content, Top
<1>2. TypeOK
  BY DEF Core
<1>3. /\ Held(m) \in Nat /\ \A i \in DOMAIN stack : stack[i].wrap = m => Held(m) >= 1
  BY <1>2, HeldNat
<1>4. /\ usage[m] \in Nat /\ host[m] \in Nat /\ Posted(m) \in Nat
      /\ usage[m] = host[m] + B(request[m] # None) + B(m \in messages) + Posted(m)
                    + B(response[m] # None)
      /\ B(request[m] # None) \in {0, 1} /\ B(m \in messages) \in {0, 1}
      /\ B(response[m] # None) \in {0, 1}
  BY Sum
<1>5. host[m] >= 1
  BY <1>1, <1>3, <1>4
<1>6. messages' = messages
  <2>1. CASE usage[m] = 1
    <3>1. B(m \in messages) = 0
      BY <1>4, <1>5, <2>1
    <3>2. m \notin messages
      BY <3>1 DEF B
    <3> QED
      BY <1>1, <3>2 DEF Disposed
  <2>2. CASE usage[m] # 1
    BY <1>1, <2>2 DEF Disposed
  <2> QED
    BY <2>1, <2>2
<1>7. /\ usage'[m] = usage[m] - 1 /\ host'[m] = host[m] - 1
      /\ usage[m] # 1 => alive'[m] = alive[m]
      /\ \A n \in Message : n # m =>
           usage'[n] = usage[n] /\ host'[n] = host[n] /\ alive'[n] = alive[n]
  BY <1>1, <1>2 DEF TypeOK, Disposed
<1>8. UsageCounts'
  <2>1. UsageCounts /\ {m} \in SUBSET Message
    BY DEF Core
  <2>2. \A n \in Message \ {m} :
          /\ usage'[n] = usage[n] /\ host'[n] = host[n]
          /\ request'[n] = request[n] /\ response'[n] = response[n]
          /\ n \in messages' <=> n \in messages
          /\ CountedIn(shellQ', n) = Posted(n)
    BY <1>1, <1>6, <1>7 DEF Posted
  <2>3. \A n \in {m} :
          usage'[n] = host'[n] + B(request'[n] # None) + B(n \in messages')
                      + CountedIn(shellQ', n) + B(response'[n] # None)
    <3>1. CountedIn(shellQ', m) = Posted(m)
      BY <1>1 DEF Posted
    <3>2. usage'[m] = host'[m] + B(request[m] # None) + B(m \in messages) + Posted(m)
                      + B(response[m] # None)
      BY <1>4, <1>7
    <3> QED
      BY <1>1, <1>6, <3>1, <3>2
  <2> QED
    BY <2>1, <2>2, <2>3, Recount
<1>9. InvLive'
  <2>1. alive[m] = "live"
    BY <1>5, Unallocated
  <2>2. alive'[m] # "live" => usage'[m] = 0
    BY <1>7, <2>1
  <2> QED
    BY <1>7, <2>2 DEF Core, InvLive
<1>10. InvWaiting' /\ InvScript' /\ InvCancel' /\ InvOwed'
  BY <1>1, <1>6 DEF Core, InvWaiting, Completing, InvScript, InvCancel, InvOwed, Has
<1>11. InvHttp' /\ InvWait' /\ InvInvoke' /\ InvLinked'
  BY <1>1, <1>6 DEF Core, InvHttp, InvWait, InvInvoke, InvLinked
<1>12. InvFrames'
  <2>1. \A i \in DOMAIN stack : /\ stack[i].m \in Message
                                /\ stack[i].wrap \in Message \union {None}
    BY <1>2, FrameFields
  <2>2. \A i \in DOMAIN stack : stack[i].wrap # None => host'[stack[i].wrap] > 0
    <3> TAKE i \in DOMAIN stack
    <3> HAVE stack[i].wrap # None
    <3>1. host[stack[i].wrap] > 0
      BY DEF Core, InvFrames
    <3>2. CASE stack[i].wrap = m
      BY <1>1, <1>3, <1>4, <1>7, <3>2
    <3>3. CASE stack[i].wrap # m
      BY <1>7, <2>1, <3>1, <3>3
    <3> QED
      BY <3>2, <3>3
  <2>3. \A i \in DOMAIN stack : stack[i].at = "invoke" => alive'[stack[i].m] = "live"
    <3> TAKE i \in DOMAIN stack
    <3> HAVE stack[i].at = "invoke"
    <3>1. alive[stack[i].m] = "live" /\ InvFrames
      BY DEF Core, InvFrames
    <3>2. CASE stack[i].m # m
      BY <1>7, <2>1, <3>1, <3>2
    <3>3. CASE stack[i].m = m
      <4>1. stack[i].at = "invoke"
        OBVIOUS
      <4>2. Len(stack) = 1 /\ stack # <<>> /\ Len(stack) \in DOMAIN stack /\ Top = stack[Len(stack)]
            /\ DOMAIN stack = 1 .. Len(stack)
        <5>1. Len(stack) = 1
          BY <3>1, <4>1, Zenon DEF InvFrames
        <5>2. stack # <<>>
          BY <5>1
        <5> QED
          BY <1>2, <5>1, <5>2, TopFrame
      <4>3. i = Len(stack)
        BY <4>2
      <4>4. stack[i].script
        BY <1>1, <4>1, <4>2, <4>3 DEF Collects, Notifying
      <4>5. stack[i].wrap = m
        BY <3>1, <3>3, <4>1, <4>4, Zenon DEF InvFrames
      <4>6. host[m] >= 2 /\ usage[m] # 1
        BY <1>1, <1>3, <1>4, <4>5
      <4> QED
        BY <1>7, <3>1, <3>3, <4>6
    <3> QED
      BY <3>2, <3>3
  <2> QED
    BY <1>1, <1>6, <2>2, <2>3 DEF Core, InvFrames
<1> QED
  BY <1>8, <1>9, <1>10, <1>11, <1>12 DEF Safe

(* A wrapper for the argument of a script is counted. *)
LEMMA WrapSafe ==
  ASSUME Core, NEW m \in Message, NEW script \in BOOLEAN,
         host' = [host EXCEPT ![m] = @ + B(script)],
         usage' = [usage EXCEPT ![m] = @ + B(script)],
         UNCHANGED <<alive, request, response, messages>>,
         \A n : CountedIn(shellQ', n) = Posted(n),
         script => alive[m] = "live"
  PROVE  UsageCounts' /\ InvLive' /\ (script => host'[m] > 0)
<1>1. /\ alive' = alive /\ request' = request /\ response' = response /\ messages' = messages
      /\ TypeOK /\ B(script) \in {0, 1} /\ (script => B(script) = 1) /\ (~script => B(script) = 0)
  BY BValue DEF Core
<1>2. /\ usage'[m] = usage[m] + B(script) /\ host'[m] = host[m] + B(script)
      /\ \A n \in Message : n # m => usage'[n] = usage[n] /\ host'[n] = host[n]
  BY <1>1 DEF TypeOK
<1>3. /\ usage[m] \in Nat /\ host[m] \in Nat /\ Posted(m) \in Nat
      /\ usage[m] = host[m] + B(request[m] # None) + B(m \in messages) + Posted(m)
                    + B(response[m] # None)
      /\ B(request[m] # None) \in {0, 1} /\ B(m \in messages) \in {0, 1}
      /\ B(response[m] # None) \in {0, 1}
  BY Sum
<1>4. UsageCounts'
  <2>1. UsageCounts /\ {m} \in SUBSET Message
    BY DEF Core
  <2>2. \A n \in Message \ {m} :
          /\ usage'[n] = usage[n] /\ host'[n] = host[n]
          /\ request'[n] = request[n] /\ response'[n] = response[n]
          /\ n \in messages' <=> n \in messages
          /\ CountedIn(shellQ', n) = Posted(n)
    BY <1>1, <1>2
  <2>3. usage'[m] = host'[m] + B(request[m] # None) + B(m \in messages) + Posted(m)
                    + B(response[m] # None)
    BY <1>1, <1>2, <1>3
  <2>4. \A n \in {m} :
          usage'[n] = host'[n] + B(request'[n] # None) + B(n \in messages')
                      + CountedIn(shellQ', n) + B(response'[n] # None)
    BY <1>1, <2>3
  <2> QED
    BY <2>1, <2>2, <2>4, Recount
<1>5. InvLive'
  <2>1. ~script => usage'[m] = usage[m]
    BY <1>1, <1>2, <1>3
  <2> QED
    BY <1>1, <1>2, <2>1 DEF Core, InvLive
<1>6. ASSUME script
      PROVE  host'[m] > 0
  <2>1. host'[m] = host[m] + 1 /\ host[m] \in Nat
    BY <1>1, <1>2, <1>3, <1>6
  <2> QED
    BY <2>1
<1> QED
  BY <1>4, <1>5, <1>6

(* handler.message has a live message to wrap. *)
LEMMA HandledLives ==
  ASSUME Core, Unnotified, stack # <<>>, Top.handles # None
  PROVE  Top.handles \in Message /\ alive[Top.handles] = "live"
<1>1. TypeOK /\ InvFrames
  BY DEF Core
<1>2. /\ Len(stack) \in DOMAIN stack /\ Top = stack[Len(stack)]
      /\ Top.handles \in Message /\ Top.m \in Message
  BY <1>1, TopFrame
<1>3. Top.at \in {"invoke", "complete", "cleanup", "resume", "cancel", "progress"}
  <2>1. Top \in Frames
    BY <1>1, <1>2 DEF TypeOK
  <2> QED
    BY <1>2, <2>1 DEF Frames, Places, Unnotified
<1>4. CASE Top.at = "invoke"
  BY <1>1, <1>2, <1>4, Zenon DEF InvFrames
<1>5. CASE Top.at = "complete"
  <2>1. Top.handles \in messages
    BY <1>1, <1>2, <1>5, Zenon DEF InvFrames
  <2> QED
    BY <1>2, <2>1, Unallocated
<1>6. CASE Top.at = "cleanup"
  BY <1>1, <1>2, <1>6, Zenon DEF InvFrames
<1>7. CASE Top.at = "resume"
  <2>1. Top.handles \in messages
    BY <1>1, <1>2, <1>7, Zenon DEF InvFrames
  <2> QED
    BY <1>2, <2>1, Unallocated
<1>8. CASE Top.at = "cancel"
  <2>1. response[Top.handles] # None
    BY <1>1, <1>2, <1>8, Zenon DEF InvFrames
  <2> QED
    BY <1>2, <2>1, Unallocated
<1>9. CASE Top.at = "progress"
  <2>1. response[Top.handles] # None
    BY <1>1, <1>2, <1>9, Zenon DEF InvFrames
  <2> QED
    BY <1>2, <2>1, Unallocated
<1> QED
  BY <1>3, <1>4, <1>5, <1>6, <1>7, <1>8, <1>9

LEMMA GetMessageSafe ==
  ASSUME Careful, Core, Unnotified, KPR_handler_get_message
  PROVE  Safe'
<1>1. PICK m : m = Top.handles
  OBVIOUS
<1>2. /\ stack # <<>> /\ m # None
      /\ host' = [host EXCEPT ![m] = @ + 1]
      /\ usage' = [usage EXCEPT ![m] = @ + 1]
      /\ alive' = alive /\ waiting' = waiting /\ url' = url /\ location' = location
      /\ request' = request /\ response' = response /\ messages' = messages
      /\ shellQ' = shellQ /\ serviceQ' = serviceQ /\ held' = held /\ stack' = stack
      /\ walk' = walk
  BY <1>1 DEF KPR_handler_get_message, data, target, list, queues, content
<1>3. m \in Message /\ alive[m] = "live" /\ TypeOK
  BY <1>1, <1>2, HandledLives DEF Core
<1>4. PICK s \in BOOLEAN : s = TRUE
  OBVIOUS
<1>5. B(s) = 1
  BY <1>4, BValue
<1>6. UsageCounts' /\ InvLive'
  <2>1. \A n : CountedIn(shellQ', n) = Posted(n)
    BY <1>2 DEF Posted
  <2>2. host' = [host EXCEPT ![m] = @ + B(s)] /\ usage' = [usage EXCEPT ![m] = @ + B(s)]
    BY <1>2, <1>5
  <2>3. UNCHANGED <<alive, request, response, messages>>
    BY <1>2
  <2> QED
    BY <1>3, <1>4, <2>1, <2>2, <2>3, WrapSafe
<1>7. InvWaiting' /\ InvScript' /\ InvCancel' /\ InvOwed'
  BY <1>2 DEF Core, InvWaiting, Completing, InvScript, InvCancel, InvOwed, Has, Top
<1>8. InvHttp' /\ InvWait' /\ InvInvoke' /\ InvLinked'
  BY <1>2 DEF Core, InvHttp, InvWait, InvInvoke, InvLinked, Top
<1>9. InvFrames'
  <2>1. \A n \in Message : host[n] > 0 => host'[n] > 0
    BY <1>2, <1>3 DEF TypeOK
  <2>2. \A i \in DOMAIN stack : stack[i].wrap \in Message \union {None}
    BY <1>3, FrameFields
  <2>3. \A i \in DOMAIN stack : stack[i].wrap # None => host'[stack[i].wrap] > 0
    BY <2>1, <2>2 DEF Core, InvFrames
  <2> QED
    BY <1>2, <2>3 DEF Core, InvFrames
<1> QED
  BY <1>6, <1>7, <1>8, <1>9 DEF Safe

LEMMA ScriptSafe ==
  ASSUME Careful, Core, Unnotified, ScriptStep
  PROVE  Safe'
<1>1. ASSUME NEW m \in Message,
             \/ KPR_Message(m) \/ KPR_message_destructor(m)
             \/ KPR_invoke_only(m) \/ KPR_message_invoke(m) \/ KPR_handler_invoke(m)
             \/ KPR_message_cancel(m) \/ KprMessageNotify(m)
             \/ \E c \in Content : KPR_content_invoke(c, m) \/ KPR_content_wait(c, m)
      PROVE  Safe'
  <2>1. ~KprMessageNotify(m)
    BY DEF KprMessageNotify, Careful
  <2> QED
    BY <1>1, <2>1, NewSafe, DestructorSafe, ScriptInvokeSafe, HandlerInvokeSafe,
       MessageCancelSafe, ContentWaitSafe
<1>2. ASSUME NEW c \in Content, KprContentCancel(c) \/ KprContentDispose(c)
      PROVE  Safe'
  BY <1>2, ContentWalkSafe
<1>3. ASSUME KPR_handler_wait \/ KPR_handler_get_message
      PROVE  Safe'
  BY <1>3, HandlerWaitSafe, GetMessageSafe
<1>4. ASSUME NEW s \in RedirectTo, KPR_handler_redirect(s)
      PROVE  Safe'
  BY <1>4, RedirectSafe
<1> QED
  BY <1>1, <1>2, <1>3, <1>4 DEF ScriptStep

-----------------------------------------------------------------------------
(* The callbacks of the shell thread.                                       *)

Passing == {"progress"}

(* Callbacks for progress leave the request alone. *)
LEMMA PassingStep ==
  ASSUME Core, NEW m \in Message, NEW k \in {"progress"},
         UNCHANGED <<data, target, messages, serviceQ, held, walk>>,
         shellQ' = shellQ \/ (Deliver(k, m) /\ shellQ' = Tail(shellQ)),
         \A i \in DOMAIN stack : stack[i].at \in Passing,
         \A i \in DOMAIN stack' : stack'[i].at \in Passing /\ stack'[i].handles \notin WaitMessage
  PROVE  /\ InvWaiting' /\ InvScript' /\ InvCancel' /\ InvOwed' /\ InvHttp'
         /\ InvWait' /\ InvInvoke' /\ InvLinked'
         /\ shellQ' = shellQ => \A n : CountedIn(shellQ', n) = Posted(n)
         /\ shellQ' # shellQ => \A n : CountedIn(shellQ', n) = Posted(n) - B(n = m /\ k \in Counted)
<1>1. /\ waiting' = waiting /\ url' = url /\ location' = location /\ request' = request
      /\ response' = response /\ messages' = messages /\ serviceQ' = serviceQ
      /\ held' = held /\ walk' = walk
  BY DEF data, target
<1>2. TypeOK /\ k \in Events /\ k # "invoke" /\ k # "cancel"
  BY DEF Core, Events
<1>3. "complete" \notin Passing /\ "cleanup" \notin Passing /\ "cancel" \notin Passing
      /\ "invoke" \notin Passing /\ "resume" \notin Passing
  BY DEF Passing, Notifying
<1>4. stack # <<>> => Top.at \in Passing
  BY <1>2, TopFrame
<1>5. /\ InvCancel'
      /\ \A i \in DOMAIN shellQ' :
           shellQ'[i].ev \in {"complete", "progress"} => url[shellQ'[i].m] = "http"
      /\ \A i \in DOMAIN shellQ' : shellQ'[i].ev = "invoke" =>
           /\ url[shellQ'[i].m] = "xkpr"
           /\ shellQ'[i].m \notin WaitMessage =>
                shellQ'[i].m \in messages /\ response[shellQ'[i].m] = None
           /\ \A j \in DOMAIN shellQ' : shellQ'[j] = shellQ'[i] => j = i
      /\ \A n : Has("invoke", n) =>
           \E i \in DOMAIN shellQ' : shellQ'[i] = Event("invoke", n)
  <2>1. CASE shellQ' = shellQ
    BY <1>1, <2>1 DEF Core, InvCancel, InvHttp, InvInvoke, Has
  <2>2. CASE Deliver(k, m) /\ shellQ' = Tail(shellQ)
    BY <1>1, <1>2, <2>2, TailQueue
  <2> QED
    BY <2>1, <2>2
<1>6. InvWaiting'
  BY <1>1, <1>3 DEF Core, InvWaiting, Completing
<1>7. InvScript'
  BY <1>1, <1>3 DEF Core, InvScript
<1>8. InvOwed'
  <2>1. \A n \in messages : url[n] = "xkpr" /\ response[n] = None => Has("invoke", n)
    BY <1>3, <1>4 DEF Core, InvOwed
  <2> QED
    BY <1>1, <1>5, <2>1 DEF InvOwed, Has
<1>9. InvHttp'
  BY <1>1, <1>5 DEF Core, InvHttp
<1>10. InvWait'
  BY <1>1 DEF Core, InvWait
<1>11. InvInvoke'
  BY <1>1, <1>3, <1>5 DEF InvInvoke
<1>12. InvLinked'
  BY <1>1, <1>3, <1>4 DEF Core, InvLinked
<1>13. shellQ' = shellQ => \A n : CountedIn(shellQ', n) = Posted(n)
  BY DEF Posted
<1>14. shellQ' # shellQ => \A n : CountedIn(shellQ', n) = Posted(n) - B(n = m /\ k \in Counted)
  BY <1>1, <1>2, TailQueue
<1> QED
  BY <1>5, <1>6, <1>7, <1>8, <1>9, <1>10, <1>11, <1>12, <1>13, <1>14

(* The frames of such a callback. *)
LEMMA PassingFrame ==
  ASSUME NEW m \in Message, NEW at \in Passing, NEW handles, NEW script, NEW wrap,
         stack' = <<Frame(at, m, handles, script, wrap)>>,
         at = "progress" /\ handles # None => response'[handles] # None,
         wrap # None => host'[wrap] > 0
  PROVE  InvFrames' /\ \A i \in DOMAIN stack' : stack'[i].at = at /\ stack'[i].handles = handles
<1>1. /\ DOMAIN stack' = {1} /\ Len(stack') = 1 /\ stack'[1].at = at /\ stack'[1].m = m
      /\ stack'[1].handles = handles /\ stack'[1].wrap = wrap
  BY OneFrame
<1>2. "complete" # at /\ "cleanup" # at /\ "cancel" # at /\ "invoke" # at /\ "resume" # at
  BY DEF Passing, Notifying
<1> QED
  BY <1>1, <1>2 DEF InvFrames

LEMMA NoFrames ==
  ASSUME stack' = <<>>
  PROVE  InvFrames' /\ DOMAIN stack' = {}
<1>1. DOMAIN stack' = {}
  OBVIOUS
<1> QED
  BY <1>1 DEF InvFrames

(* The one frame of a progress callback. *)
LEMMA PassingTop ==
  ASSUME Core, stack # <<>>, Top.at \in Passing
  PROVE  /\ \A i \in DOMAIN stack : stack[i].at \in Passing
         /\ Pop(stack) = <<>> /\ Top.m \in Message
<1>1. TypeOK /\ InvFrames
  BY DEF Core
<1>2. Top.at \notin {"complete", "cleanup"}
  BY DEF Passing, Notifying
<1>3. DOMAIN stack = {1} /\ Top = stack[1] /\ Pop(stack) = <<>>
  BY <1>1, <1>2, SingleFrame
<1> QED
  BY <1>1, <1>3, TopFrame

LEMMA ReturnProgressSafe ==
  ASSUME Careful, Core, ReturnProgress
  PROVE  Safe'
<1> USE ConstantsAssumption
<1>1. /\ stack # <<>> /\ Top.at = "progress" /\ "progress" \in Passing /\ stack' = Pop(stack)
      /\ UNCHANGED <<data, target, messages, serviceQ, held, walk>>
      /\ alive' = alive /\ usage' = usage /\ host' = host /\ request' = request
      /\ response' = response /\ shellQ' = shellQ /\ messages' = messages
  BY DEF ReturnProgress, At, life, data, target, list, queues, content, Passing
<1>2. /\ \A i \in DOMAIN stack : stack[i].at \in Passing
      /\ stack' = <<>> /\ Top.m \in Message
  BY <1>1, PassingTop
<1>4. InvFrames' /\ DOMAIN stack' = {}
  BY <1>2, NoFrames
<1>5. /\ InvWaiting' /\ InvScript' /\ InvCancel' /\ InvOwed' /\ InvHttp'
      /\ InvWait' /\ InvInvoke' /\ InvLinked'
  <2>1. "progress" \in {"progress"}
    OBVIOUS
  <2> QED
    BY <1>1, <1>2, <1>4, <2>1, PassingStep
<1>6. UsageCounts'
  BY <1>1 DEF Core, UsageCounts, Posted
<1>7. InvLive'
  BY <1>1 DEF Core, InvLive
<1> QED
  BY <1>4, <1>5, <1>6, <1>7 DEF Safe

LEMMA DeliverProgressSafe ==
  ASSUME Careful, Core, NEW m \in Message, DeliverProgress(m)
  PROVE  Safe'
<1> USE ConstantsAssumption
<1>1. PICK script \in BOOLEAN :
        /\ script => request[m] \in Message
        /\ host' = [host EXCEPT ![m] = @ + B(script)]
        /\ usage' = [usage EXCEPT ![m] = @ + B(script)]
        /\ stack' = <<Frame("progress", m, IF script THEN request[m] ELSE None,
                            script, IF script THEN m ELSE None)>>
  BY DEF DeliverProgress
<1>2. /\ Deliver("progress", m) /\ shellQ' = Tail(shellQ)
      /\ UNCHANGED <<data, target, messages, serviceQ, held, walk>>
      /\ UNCHANGED <<alive, request, response, messages>>
      /\ alive' = alive /\ request' = request /\ response' = response /\ messages' = messages
  BY DEF DeliverProgress, target, list, content
<1>3. TypeOK /\ "progress" \in Events /\ "progress" \notin Counted /\ "progress" \in Passing
      /\ "progress" \in {"progress"}
  BY DEF Core, Events, Counted, Passing
<1>4. stack = <<>> /\ DOMAIN stack = {}
  BY <1>2, <1>3, Delivery
<1>5. script => /\ m \in messages /\ alive[m] = "live" /\ response[request[m]] = m
                /\ request[m] \notin WaitMessage
  <2> HAVE script
  <2>1. request[m] \in Message /\ request[m] # None /\ ~Completing(m)
    BY <1>1, <1>4 DEF Completing
  <2>2. m \in messages
    BY <2>1 DEF Core, InvWaiting
  <2>3. response[request[m]] = m /\ request[m] \notin WaitMessage
    BY <2>1, <2>2 DEF Core, InvLinked, InvWait
  <2> QED
    BY <2>2, <2>3, Unallocated
<1>6. \A n : CountedIn(shellQ', n) = Posted(n)
  <2> SUFFICES ASSUME NEW n
               PROVE  CountedIn(shellQ', n) = Posted(n)
    OBVIOUS
  <2>1. CountedIn(shellQ', n) = Posted(n) - B(n = m /\ "progress" \in Counted)
    BY <1>2, <1>3, Delivery
  <2>2. B(n = m /\ "progress" \in Counted) = 0
    BY <1>3, BValue
  <2>3. Posted(n) \in Nat
    BY <1>3, CountNat DEF TypeOK, Posted
  <2> QED
    BY <2>1, <2>2, <2>3
<1>7. UsageCounts' /\ InvLive' /\ (script => host'[m] > 0)
  BY <1>1, <1>2, <1>5, <1>6, WrapSafe
<1> DEFINE handles == IF script THEN request[m] ELSE None
           wrap == IF script THEN m ELSE None
<1>8. /\ stack' = <<Frame("progress", m, handles, script, wrap)>>
      /\ wrap # None => host'[wrap] > 0
      /\ handles # None => response'[handles] # None
      /\ handles \notin WaitMessage
  BY <1>1, <1>2, <1>5, <1>7
<1> HIDE DEF handles, wrap
<1>9. InvFrames' /\ \A i \in DOMAIN stack' : stack'[i].at = "progress" /\ stack'[i].handles = handles
  BY <1>3, <1>8, PassingFrame
<1>10. /\ InvWaiting' /\ InvScript' /\ InvCancel' /\ InvOwed' /\ InvHttp'
       /\ InvWait' /\ InvInvoke' /\ InvLinked'
  <2>1. \A i \in DOMAIN stack' : stack'[i].at \in Passing /\ stack'[i].handles \notin WaitMessage
    BY <1>3, <1>8, <1>9
  <2>2. \A i \in DOMAIN stack : stack[i].at \in Passing
    BY <1>4
  <2> QED
    BY <1>2, <1>3, <2>1, <2>2, PassingStep
<1> QED
  BY <1>7, <1>9, <1>10 DEF Safe

(* The timer of handler.wait ends the suspension. *)
LEMMA WaitCompleteSafe ==
  ASSUME Careful, Core, NEW m \in Message, KPR_handler_waitComplete(m)
  PROVE  Safe'
<1> USE ConstantsAssumption
<1>1. PICK script \in BOOLEAN : stack' = <<Frame("resume", m, m, script, None)>>
  BY DEF KPR_handler_waitComplete
<1>2. /\ stack = <<>> /\ walk = None /\ response[m] = HandlerWait
      /\ response' = [response EXCEPT ![m] = None]
      /\ usage' = [usage EXCEPT ![m] = @ - 1]
      /\ alive' = alive /\ host' = host /\ waiting' = waiting /\ url' = url
      /\ location' = location /\ request' = request /\ messages' = messages
      /\ shellQ' = shellQ /\ serviceQ' = serviceQ /\ held' = held /\ walk' = walk
  BY DEF KPR_handler_waitComplete, Idle, data, list, queues, content
<1>3. TypeOK /\ DOMAIN stack = {}
  BY <1>2 DEF Core
<1>4. /\ m \in messages /\ url[m] = "xkpr" /\ m \notin WaitMessage /\ response[m] # None
  BY <1>2 DEF Core, InvLinked, InvHttp, InvWait
<1>5. /\ DOMAIN stack' = {1} /\ Len(stack') = 1 /\ stack' # <<>> /\ Top' = stack'[1]
      /\ stack'[1].at = "resume" /\ stack'[1].m = m /\ stack'[1].handles = m
      /\ stack'[1].wrap = None
  BY <1>1, OneFrame
<1>6. /\ response'[m] = None /\ usage'[m] = usage[m] - 1
      /\ \A n \in Message : n # m => response'[n] = response[n] /\ usage'[n] = usage[n]
  BY <1>2, <1>3 DEF TypeOK
<1>7. UsageCounts'
  <2>1. UsageCounts /\ {m} \in SUBSET Message
    BY DEF Core
  <2>2. \A n \in Message \ {m} :
          /\ usage'[n] = usage[n] /\ host'[n] = host[n]
          /\ request'[n] = request[n] /\ response'[n] = response[n]
          /\ n \in messages' <=> n \in messages
          /\ CountedIn(shellQ', n) = Posted(n)
    BY <1>2, <1>6 DEF Posted
  <2>3. \A n \in {m} :
          usage'[n] = host'[n] + B(request'[n] # None) + B(n \in messages')
                      + CountedIn(shellQ', n) + B(response'[n] # None)
    <3>1. CountedIn(shellQ', m) = Posted(m)
      BY <1>2 DEF Posted
    <3>2. B(response[m] # None) = 1 /\ B(response'[m] # None) = 0
      BY <1>4, <1>6, BValue
    <3>3. /\ usage[m] \in Nat /\ host[m] \in Nat /\ Posted(m) \in Nat
          /\ usage[m] = host[m] + B(request[m] # None) + B(m \in messages) + Posted(m)
                        + B(response[m] # None)
          /\ B(request[m] # None) \in {0, 1} /\ B(m \in messages) \in {0, 1}
      BY Sum
    <3>4. usage'[m] = host[m] + B(request[m] # None) + B(m \in messages) + Posted(m) + 0
      BY <1>6, <3>2, <3>3
    <3> QED
      BY <1>2, <3>1, <3>2, <3>4
  <2> QED
    BY <2>1, <2>2, <2>3, Recount
<1>8. InvLive'
  <2>1. alive[m] = "live"
    BY <1>4, Unallocated
  <2> QED
    BY <1>2, <1>6, <2>1 DEF Core, InvLive
<1>9. InvWaiting' /\ InvCancel'
  BY <1>2, <1>3 DEF Core, InvWaiting, Completing, InvCancel
<1>10. InvScript'
  BY <1>2, <1>5 DEF Core, InvScript
<1>11. InvOwed'
  <2>1. \A n \in messages : n \in Message
    BY <1>3 DEF TypeOK
  <2> QED
    BY <1>2, <1>5, <1>6, <2>1 DEF Core, InvOwed, Has
<1>12. InvHttp'
  BY <1>2, <1>6 DEF Core, InvHttp
<1>13. InvWait'
  BY <1>2, <1>4, <1>5, <1>6 DEF Core, InvWait
<1>14. InvInvoke'
  <2>1. \A i \in DOMAIN shellQ : shellQ[i].ev = "invoke" => shellQ[i].m # m
    BY <1>4 DEF Core, InvInvoke
  <2>2. \A i \in DOMAIN shellQ : shellQ[i].m \in Message
    BY <1>3, EventFields DEF TypeOK
  <2> QED
    BY <1>2, <1>5, <1>6, <2>1, <2>2 DEF Core, InvInvoke
<1>15. InvLinked'
  <2>1. \A n \in messages : n \in Message /\ request[n] # m
    BY <1>2, <1>3 DEF Core, InvLinked, TypeOK
  <2> QED
    BY <1>2, <1>5, <1>6, <2>1 DEF Core, InvLinked
<1>16. InvFrames'
  BY <1>2, <1>4, <1>5 DEF InvFrames, Notifying
<1> QED
  BY <1>7, <1>8, <1>9, <1>10, <1>11, <1>12, <1>13, <1>14, <1>15, <1>16 DEF Safe

(* The end of KprMessageComplete gives the request reference back. *)
LEMMA CleanupSafe ==
  ASSUME Careful, Core, Cleanup
  PROVE  Safe'
<1> USE ConstantsAssumption
<1> DEFINE m == Top.m
<1>1. /\ stack # <<>> /\ walk = None /\ Top.at = "cleanup"
      /\ request' = [request EXCEPT ![m] = None]
      /\ usage' = [usage EXCEPT ![m] = @ - 1]
      /\ alive' = [n \in Message |-> IF n \in Disposed(m, 1) THEN "freed" ELSE alive[n]]
      /\ messages' = messages \ Disposed(m, 1)
      /\ stack' = Pop(stack)
      /\ host' = host /\ waiting' = waiting /\ url' = url /\ location' = location
      /\ response' = response /\ shellQ' = shellQ /\ serviceQ' = serviceQ
      /\ held' = held /\ walk' = walk
  BY DEF Cleanup, At, Free, data, queues, content
<1>2. TypeOK /\ InvFrames
  BY DEF Core
<1>3. /\ Len(stack) \in DOMAIN stack /\ Len(stack) \in Nat /\ DOMAIN stack = 1 .. Len(stack)
      /\ Top = stack[Len(stack)] /\ m \in Message
  BY <1>1, <1>2, TopFrame
<1>4. request[m] # None /\ m \notin messages
  BY <1>1, <1>2, <1>3, Zenon DEF InvFrames
<1>5. /\ DOMAIN stack' = 1 .. Len(stack) - 1 /\ Len(stack') = Len(stack) - 1
      /\ \A i \in DOMAIN stack' : i \in DOMAIN stack /\ stack'[i] = stack[i] /\ i < Len(stack)
  <2>1. /\ stack' \in Seq(Frames) /\ Len(stack') = Len(stack) - 1
        /\ \A i \in 1 .. Len(stack) - 1 : stack'[i] = stack[i]
    BY <1>1, <1>2, PopSeq DEF TypeOK
  <2>2. DOMAIN stack' = 1 .. Len(stack) - 1
    BY <2>1
  <2> QED
    BY <1>3, <2>1, <2>2
<1>6. \A i \in DOMAIN stack' : stack'[i].at = "cleanup" /\ stack'[i].m # m /\ stack'[i].m \in Message
  <2> TAKE i \in DOMAIN stack'
  <2>1. i \in DOMAIN stack /\ stack'[i] = stack[i] /\ i < Len(stack) /\ i # Len(stack)
    BY <1>3, <1>5
  <2>2. stack[i].at = "cleanup"
    BY <1>2, <2>1, Zenon DEF InvFrames
  <2>3. stack[i].m # m
    BY <1>2, <1>3, <2>1, Zenon DEF InvFrames
  <2> QED
    BY <1>2, <2>1, <2>2, <2>3, FrameFields
<1>7. stack' # <<>> => Top' = stack'[Len(stack')] /\ Len(stack') \in DOMAIN stack'
  <2> HAVE stack' # <<>>
  <2>1. Top' = stack'[Len(stack')]
    BY DEF Top
  <2>2. stack' \in Seq(Frames)
    BY <1>1, <1>2, PopSeq DEF TypeOK
  <2> QED
    BY <2>1, <2>2
<1> HIDE DEF m
<1>8. messages' = messages
  BY <1>1, <1>4 DEF Disposed
<1>9. /\ request'[m] = None /\ usage'[m] = usage[m] - 1
      /\ usage[m] # 1 => alive'[m] = alive[m]
      /\ \A n \in Message : n # m =>
           request'[n] = request[n] /\ usage'[n] = usage[n] /\ alive'[n] = alive[n]
  BY <1>1, <1>2, <1>3 DEF TypeOK, Disposed
<1>10. UsageCounts'
  <2>1. UsageCounts /\ {m} \in SUBSET Message
    BY <1>3 DEF Core
  <2>2. \A n \in Message \ {m} :
          /\ usage'[n] = usage[n] /\ host'[n] = host[n]
          /\ request'[n] = request[n] /\ response'[n] = response[n]
          /\ n \in messages' <=> n \in messages
          /\ CountedIn(shellQ', n) = Posted(n)
    BY <1>1, <1>8, <1>9 DEF Posted
  <2>3. \A n \in {m} :
          usage'[n] = host'[n] + B(request'[n] # None) + B(n \in messages')
                      + CountedIn(shellQ', n) + B(response'[n] # None)
    <3>1. CountedIn(shellQ', m) = Posted(m)
      BY <1>1 DEF Posted
    <3>2. B(request[m] # None) = 1 /\ B(request'[m] # None) = 0
      BY <1>4, <1>9, BValue
    <3>3. /\ usage[m] \in Nat /\ host[m] \in Nat /\ Posted(m) \in Nat
          /\ usage[m] = host[m] + B(request[m] # None) + B(m \in messages) + Posted(m)
                        + B(response[m] # None)
          /\ B(response[m] # None) \in {0, 1} /\ B(m \in messages) \in {0, 1}
      BY <1>3, Sum
    <3>4. usage'[m] = host[m] + 0 + B(m \in messages) + Posted(m) + B(response[m] # None)
      BY <1>9, <3>2, <3>3
    <3> QED
      BY <1>1, <1>8, <3>1, <3>2, <3>4
  <2> QED
    BY <2>1, <2>2, <2>3, Recount
<1>11. InvLive'
  <2>1. alive[m] = "live" /\ usage[m] \in Nat
    BY <1>3, <1>4, Unallocated, Sum
  <2>2. alive'[m] # "live" => usage'[m] = 0
    BY <1>9, <2>1
  <2> QED
    BY <1>9, <2>2 DEF Core, InvLive
<1>12. InvWaiting'
  <2>1. \A n \in Message : n # m /\ Completing(n) => Completing(n)'
    <3> SUFFICES ASSUME NEW n \in Message, n # m, NEW i \in DOMAIN stack,
                        stack[i].at \in {"complete", "cleanup"}, stack[i].m = n
                 PROVE  \E j \in DOMAIN stack' :
                          stack'[j].at \in {"complete", "cleanup"} /\ stack'[j].m = n
      BY DEF Completing
    <3>1. i # Len(stack)
      BY <1>3 DEF m
    <3>2. i \in DOMAIN stack'
      BY <1>3, <1>5, <3>1
    <3> QED
      BY <1>5, <3>2
  <2> QED
    BY <1>1, <1>8, <1>9, <2>1 DEF Core, InvWaiting
<1>13. InvScript' /\ InvCancel'
  BY <1>1, <1>5 DEF Core, InvScript, InvCancel
<1>14. InvOwed'
  BY <1>1, <1>8 DEF Core, InvOwed, Has
<1>15. InvHttp'
  BY <1>1 DEF Core, InvHttp
<1>16. InvWait'
  <2>1. \A w \in WaitMessage : \A n \in Message : request'[n] # w
    BY <1>9 DEF Core, InvWait
  <2> QED
    BY <1>1, <1>5, <2>1 DEF Core, InvWait
<1>17. InvInvoke'
  BY <1>1, <1>5, <1>8 DEF Core, InvInvoke
<1>18. InvLinked'
  <2>1. \A n \in Message : request'[n] # n
    BY <1>3, <1>9 DEF Core, InvLinked
  <2>2. \A f \in Message : response'[f] \in Message =>
          request'[response'[f]] = f /\ response'[f] \in messages'
    BY <1>1, <1>4, <1>8, <1>9 DEF Core, InvLinked
  <2>3. \A n \in messages' : request'[n] \in Message => response'[request'[n]] = n
    <3>1. messages \subseteq Message
      BY <1>2 DEF TypeOK
    <3> QED
      BY <1>1, <1>4, <1>8, <1>9, <3>1 DEF Core, InvLinked
  <2>4. \A f \in Message : response'[f] # None => f \in messages'
    BY <1>1, <1>8 DEF Core, InvLinked
  <2> QED
    BY <2>1, <2>2, <2>3, <2>4 DEF InvLinked
<1>19. InvFrames'
  <2>1. \A i \in DOMAIN stack' :
          /\ stack'[i].at = "cleanup" /\ request'[stack'[i].m] # None /\ stack'[i].m \notin messages'
          /\ stack'[i].handles = None /\ ~stack'[i].script /\ stack'[i].wrap = None
    <3> TAKE i \in DOMAIN stack'
    <3>1. i \in DOMAIN stack /\ stack'[i] = stack[i] /\ stack[i].at = "cleanup"
          /\ stack[i].m # m /\ stack[i].m \in Message
      BY <1>5, <1>6
    <3>2. /\ request[stack[i].m] # None /\ stack[i].m \notin messages
          /\ stack[i].handles = None /\ ~stack[i].script /\ stack[i].wrap = None
      BY <1>2, <3>1, Zenon DEF InvFrames
    <3> QED
      BY <1>8, <1>9, <3>1, <3>2
  <2>2. \A i, j \in DOMAIN stack' : i # j => stack'[i].m # stack'[j].m
    BY <1>2, <1>5 DEF InvFrames
  <2> QED
    BY <2>1, <2>2 DEF InvFrames, Notifying
<1> QED
  BY <1>10, <1>11, <1>12, <1>13, <1>14, <1>15, <1>16, <1>17, <1>18, <1>19 DEF Safe

(* KprXKPRServiceCancel of a message that is still in the list: it was        *)
(* suspended, and its request is gone.                                        *)
LEMMA CancelPending ==
  ASSUME Core, NEW m \in Message, Deliver("cancel", m), m \in messages
  PROVE  /\ ~waiting[m] /\ Cancels # {} /\ request[m] = None /\ response[m] # None
         /\ \A n \in Message : response[n] # m
<1> USE ConstantsAssumption
<1>1. TypeOK /\ "cancel" \in Events
  BY DEF Core, Events
<1>2. 1 \in DOMAIN shellQ /\ shellQ[1].ev = "cancel" /\ shellQ[1].m = m /\ stack = <<>>
      /\ DOMAIN shellQ \subseteq Nat /\ DOMAIN stack = {}
  BY <1>1, Delivery DEF TypeOK
<1>3. /\ ~waiting[m] /\ Cancels # {} /\ url[m] = "xkpr"
      /\ \A j \in DOMAIN shellQ : shellQ[j] = Event("invoke", m) => j < 1
  BY <1>2 DEF Core, InvCancel
<1>4. request[m] = None
  BY <1>2, <1>3 DEF Core, InvWaiting, Completing
<1>5. ~Has("invoke", m)
  <2>1. \A j \in DOMAIN shellQ : j >= 1
    BY <1>1 DEF TypeOK
  <2> QED
    BY <1>2, <1>3, <2>1 DEF Has
<1>6. response[m] # None
  BY <1>2, <1>3, <1>5 DEF Core, InvOwed
<1>7. \A n \in Message : response[n] # m
  BY <1>4 DEF Core, InvLinked
<1> QED
  BY <1>3, <1>4, <1>6, <1>7

LEMMA ServiceCancelPending ==
  ASSUME Careful, Core, NEW m \in Message, KprXKPRServiceCancel(m), m \in messages
  PROVE  Safe'
<1> USE ConstantsAssumption
<1> DEFINE r == response[m]
<1>1. PICK script \in BOOLEAN :
        /\ messages' = messages \ {m}
        /\ host' = [x \in Message |-> host[x] + B(script /\ x = r)]
        /\ usage' = [x \in Message |->
                       usage[x] - (IF x = m THEN 2 ELSE 0) + B(script /\ x = r)]
        /\ stack' = <<Frame("cancel", m, m, script, IF script /\ r \in Message THEN r ELSE None)>>
  BY DEF KprXKPRServiceCancel
<1>2. /\ Deliver("cancel", m) /\ shellQ' = Tail(shellQ)
      /\ alive' = alive /\ waiting' = waiting /\ url' = url /\ location' = location
      /\ request' = request /\ response' = response
      /\ serviceQ' = serviceQ /\ held' = held /\ walk' = walk
  BY DEF KprXKPRServiceCancel, data, target, content
<1>3. TypeOK /\ "cancel" \in Events /\ "cancel" \in Counted /\ messages \subseteq Message
  BY DEF Core, Events, Counted, TypeOK
<1>4. /\ ~waiting[m] /\ Cancels # {} /\ request[m] = None /\ response[m] # None
      /\ \A n \in Message : response[n] # m
  BY <1>2, CancelPending
<1>5. /\ InvCancel'
      /\ \A i \in DOMAIN shellQ' :
           shellQ'[i].ev \in {"complete", "progress"} => url[shellQ'[i].m] = "http"
      /\ \A i \in DOMAIN shellQ' : shellQ'[i].ev = "invoke" =>
           /\ url[shellQ'[i].m] = "xkpr"
           /\ shellQ'[i].m \notin WaitMessage =>
                shellQ'[i].m \in messages /\ response[shellQ'[i].m] = None
           /\ \A j \in DOMAIN shellQ' : shellQ'[j] = shellQ'[i] => j = i
      /\ \A n : Has("invoke", n) =>
           \E i \in DOMAIN shellQ' : shellQ'[i] = Event("invoke", n)
      /\ \A n : CountedIn(shellQ', n) = Posted(n) - B(n = m /\ "cancel" \in Counted)
      /\ stack = <<>> /\ walk = None /\ DOMAIN stack = {}
  BY <1>2, <1>3, TailQueue
<1>6. /\ DOMAIN stack' = {1} /\ Len(stack') = 1 /\ stack' # <<>> /\ Top' = stack'[1]
      /\ stack'[1].at = "cancel" /\ stack'[1].m = m /\ stack'[1].handles = m
      /\ stack'[1].wrap = (IF script /\ r \in Message THEN r ELSE None)
  BY <1>1, OneFrame
<1>7. r # m /\ r # None /\ (r \in Message => r \in messages)
  BY <1>4 DEF Core, InvLinked
<1> HIDE DEF r
<1>8. UsageCounts'
  <2> SUFFICES ASSUME NEW n \in Message
               PROVE  usage'[n] = host'[n] + B(request'[n] # None) + B(n \in messages')
                                  + CountedIn(shellQ', n) + B(response'[n] # None)
    BY DEF UsageCounts, Posted
  <2>1. /\ usage[n] \in Nat /\ host[n] \in Nat /\ Posted(n) \in Nat
        /\ usage[n] = host[n] + B(request[n] # None) + B(n \in messages) + Posted(n)
                      + B(response[n] # None)
        /\ B(request[n] # None) \in {0, 1} /\ B(n \in messages) \in {0, 1}
        /\ B(response[n] # None) \in {0, 1}
    BY Sum
  <2>2. CountedIn(shellQ', n) = Posted(n) - B(n = m /\ "cancel" \in Counted)
        /\ B(script /\ n = r) \in {0, 1} /\ host'[n] = host[n] + B(script /\ n = r)
    BY <1>1, <1>5, BValue
  <2>3. CASE n = m
    <3>1. /\ B(script /\ n = r) = 0 /\ B(n = m /\ "cancel" \in Counted) = 1
          /\ B(n \in messages) = 1 /\ B(n \in messages') = 0
      BY <1>1, <1>3, <1>7, <2>3, BValue
    <3>2. usage'[n] = usage[n] - 2 + B(script /\ n = r)
      BY <1>1, <2>3
    <3>3. usage'[n] = host'[n] + B(request[n] # None) + 0 + CountedIn(shellQ', n)
                      + B(response[n] # None)
      BY <2>1, <2>2, <3>1, <3>2
    <3> QED
      BY <1>2, <3>1, <3>3
  <2>4. CASE n # m
    <3>1. /\ B(n = m /\ "cancel" \in Counted) = 0 /\ B(n \in messages') = B(n \in messages)
      BY <1>1, <2>4 DEF B
    <3>2. usage'[n] = usage[n] - 0 + B(script /\ n = r)
      BY <1>1, <2>4
    <3>3. usage'[n] = host'[n] + B(request[n] # None) + B(n \in messages) + CountedIn(shellQ', n)
                      + B(response[n] # None)
      BY <2>1, <2>2, <3>1, <3>2
    <3> QED
      BY <1>2, <3>1, <3>3
  <2> QED
    BY <2>3, <2>4
<1>9. InvLive'
  <2> SUFFICES ASSUME NEW n \in Message, alive[n] # "live"
               PROVE  usage'[n] = 0
    BY <1>2 DEF InvLive
  <2>1. n \notin messages /\ usage[n] = 0
    BY Unallocated
  <2>2. n # m /\ n # r
    BY <1>7, <2>1
  <2>3. B(script /\ n = r) = 0
    BY <2>2, BValue
  <2>4. usage'[n] = usage[n] - 0 + B(script /\ n = r)
    BY <1>1, <2>2
  <2> QED
    BY <2>1, <2>3, <2>4
<1>10. InvWaiting'
  BY <1>1, <1>2, <1>4, <1>5 DEF Core, InvWaiting, Completing
<1>11. InvScript'
  BY <1>2, <1>4 DEF Core, InvScript
<1>12. InvOwed'
  <2>1. \A n \in messages : url[n] = "xkpr" /\ response[n] = None => Has("invoke", n)
    BY <1>5 DEF Core, InvOwed
  <2> QED
    BY <1>1, <1>2, <1>5, <2>1 DEF InvOwed, Has
<1>13. InvHttp'
  BY <1>2, <1>5 DEF Core, InvHttp
<1>14. InvWait'
  BY <1>2, <1>6 DEF Core, InvWait
<1>15. InvInvoke'
  BY <1>1, <1>2, <1>4, <1>5, <1>6 DEF InvInvoke
<1>16. InvLinked'
  <2>1. \A f \in Message : response'[f] \in Message =>
          request'[response'[f]] = f /\ response'[f] \in messages'
    BY <1>1, <1>2, <1>4 DEF Core, InvLinked
  <2>2. \A f \in Message : response'[f] # None =>
          f \in messages' \/ (stack' # <<>> /\ Top'.at = "cancel" /\ Top'.m = f)
    BY <1>1, <1>2, <1>5, <1>6 DEF Core, InvLinked
  <2> QED
    BY <1>1, <1>2, <2>1, <2>2 DEF Core, InvLinked
<1>17. InvFrames'
  <2>1. stack'[1].wrap # None => host'[stack'[1].wrap] > 0
    <3> HAVE stack'[1].wrap # None
    <3>1. script /\ r \in Message /\ stack'[1].wrap = r
      BY <1>6
    <3>2. host'[r] = host[r] + 1 /\ host[r] \in Nat
      BY <1>1, <1>3, <3>1 DEF B, TypeOK
    <3> QED
      BY <3>1, <3>2
  <2> QED
    BY <1>1, <1>2, <1>4, <1>6, <2>1 DEF InvFrames, Notifying
<1> QED
  BY <1>5, <1>8, <1>9, <1>10, <1>11, <1>12, <1>13, <1>14, <1>15, <1>16, <1>17 DEF Safe

LEMMA ServiceCancelLate ==
  ASSUME Careful, Core, NEW m \in Message, KprXKPRServiceCancel(m), m \notin messages
  PROVE  Safe'
<1> USE ConstantsAssumption
<1>1. /\ Deliver("cancel", m) /\ shellQ' = Tail(shellQ)
      /\ usage' = [usage EXCEPT ![m] = @ - 1]
      /\ alive' = [n \in Message |-> IF n \in Disposed(m, 1) THEN "freed" ELSE alive[n]]
      /\ host' = host /\ messages' = messages /\ stack' = stack
      /\ waiting' = waiting /\ url' = url /\ location' = location
      /\ request' = request /\ response' = response
      /\ serviceQ' = serviceQ /\ held' = held /\ walk' = walk
  BY DEF KprXKPRServiceCancel, Free, data, target, content
<1>2. TypeOK /\ "cancel" \in Events /\ "cancel" \in Counted
  BY DEF Core, Events, Counted
<1>3. /\ InvCancel'
      /\ \A i \in DOMAIN shellQ' :
           shellQ'[i].ev \in {"complete", "progress"} => url[shellQ'[i].m] = "http"
      /\ \A i \in DOMAIN shellQ' : shellQ'[i].ev = "invoke" =>
           /\ url[shellQ'[i].m] = "xkpr"
           /\ shellQ'[i].m \notin WaitMessage =>
                shellQ'[i].m \in messages /\ response[shellQ'[i].m] = None
           /\ \A j \in DOMAIN shellQ' : shellQ'[j] = shellQ'[i] => j = i
      /\ \A n : Has("invoke", n) =>
           \E i \in DOMAIN shellQ' : shellQ'[i] = Event("invoke", n)
      /\ \A n : CountedIn(shellQ', n) = Posted(n) - B(n = m /\ "cancel" \in Counted)
      /\ stack = <<>> /\ walk = None /\ DOMAIN stack = {}
  BY <1>1, <1>2, TailQueue
<1>4. InvFrames' /\ DOMAIN stack' = {}
  BY <1>1, <1>3, NoFrames
<1>5. /\ usage'[m] = usage[m] - 1 /\ (usage[m] # 1 => alive'[m] = alive[m])
      /\ \A n \in Message : n # m => usage'[n] = usage[n] /\ alive'[n] = alive[n]
  BY <1>1, <1>2 DEF TypeOK, Disposed
<1>6. UsageCounts'
  <2>1. UsageCounts /\ {m} \in SUBSET Message
    BY DEF Core
  <2>2. \A n \in Message \ {m} : CountedIn(shellQ', n) = Posted(n)
    <3> TAKE n \in Message \ {m}
    <3>1. B(n = m /\ "cancel" \in Counted) = 0 /\ Posted(n) \in Nat
      BY BValue, Sum
    <3> QED
      BY <1>3, <3>1
  <2>3. \A n \in Message \ {m} :
          /\ usage'[n] = usage[n] /\ host'[n] = host[n]
          /\ request'[n] = request[n] /\ response'[n] = response[n]
          /\ n \in messages' <=> n \in messages
          /\ CountedIn(shellQ', n) = Posted(n)
    BY <1>1, <1>5, <2>2
  <2>4. \A n \in {m} :
          usage'[n] = host'[n] + B(request'[n] # None) + B(n \in messages')
                      + CountedIn(shellQ', n) + B(response'[n] # None)
    <3>1. CountedIn(shellQ', m) = Posted(m) - 1
      <4>1. B(m = m /\ "cancel" \in Counted) = 1
        BY <1>2, BValue
      <4> QED
        BY <1>3, <4>1
    <3>2. /\ usage[m] \in Nat /\ host[m] \in Nat /\ Posted(m) \in Nat
          /\ usage[m] = host[m] + B(request[m] # None) + B(m \in messages) + Posted(m)
                        + B(response[m] # None)
          /\ B(request[m] # None) \in {0, 1} /\ B(m \in messages) \in {0, 1}
          /\ B(response[m] # None) \in {0, 1}
      BY Sum
    <3>3. usage'[m] = host[m] + B(request[m] # None) + B(m \in messages) + CountedIn(shellQ', m)
                      + B(response[m] # None)
      BY <1>5, <3>1, <3>2
    <3> QED
      BY <1>1, <3>3
  <2> QED
    BY <2>1, <2>3, <2>4, Recount
<1>7. InvLive'
  <2>1. alive[m] = "live" /\ usage[m] \in Nat
    <3>1. 1 \in DOMAIN shellQ /\ shellQ[1].ev = "cancel" /\ shellQ[1].m = m
      BY <1>1, <1>2, Delivery
    <3> QED
      BY <1>2, <3>1, Unallocated, Sum
  <2>2. alive'[m] # "live" => usage'[m] = 0
    BY <1>5, <2>1
  <2> QED
    BY <1>5, <2>2 DEF Core, InvLive
<1>8. InvWaiting' /\ InvScript' /\ InvWait' /\ InvLinked'
  BY <1>1, <1>3, <1>4 DEF Core, InvWaiting, Completing, InvScript, InvWait, InvLinked
<1>9. InvOwed'
  <2>1. \A n \in messages : url[n] = "xkpr" /\ response[n] = None => Has("invoke", n)
    BY <1>3 DEF Core, InvOwed
  <2> QED
    BY <1>1, <1>3, <2>1 DEF InvOwed, Has
<1>10. InvHttp' /\ InvInvoke'
  BY <1>1, <1>3, <1>4 DEF Core, InvHttp, InvInvoke
<1> QED
  BY <1>3, <1>4, <1>6, <1>7, <1>8, <1>9, <1>10 DEF Safe

(* After onCancel: the invoked message, if any, is cancelled in turn. *)
LEMMA ReturnCancelSafe ==
  ASSUME Careful, Core, ReturnCancel
  PROVE  Safe'
<1> USE ConstantsAssumption
<1> DEFINE m == Top.m
           n == response[m]
           left == [usage EXCEPT ![m] = @ - 1]
           s == IF n \in Message THEN url[n] ELSE "nil"
<1>1. /\ stack # <<>> /\ walk = None /\ Top.at = "cancel" /\ stack' = Pop(stack)
      /\ IF n \in Message
         THEN KprMessageCancel(n, left, shellQ)
         ELSE usage' = left /\ UNCHANGED <<waiting, request, queues>>
      /\ response' = [response EXCEPT ![m] = None]
      /\ alive' = [x \in Message |-> IF x \in (IF left[m] = 0 THEN {m} ELSE {})
                                     THEN "freed" ELSE alive[x]]
      /\ messages' = messages \ (IF left[m] = 0 THEN {m} ELSE {})
      /\ host' = host /\ url' = url /\ location' = location /\ held' = held /\ walk' = walk
  BY DEF ReturnCancel, At, Free, content
<1>2. TypeOK /\ InvFrames /\ Top.at \notin {"complete", "cleanup"}
  BY <1>1 DEF Core
<1>3. /\ DOMAIN stack = {1} /\ Len(stack) = 1 /\ Top = stack[1] /\ stack' = <<>>
      /\ m \in Message
  BY <1>1, <1>2, SingleFrame, TopFrame
<1>4. n # None /\ m \notin messages /\ Cancels # {}
  <2>1. n # None /\ m \notin messages
    BY <1>1, <1>2, <1>3, Zenon DEF InvFrames
  <2> QED
    BY <1>1, <1>3, <2>1 DEF Core, InvScript
<1>5. n \in Message => request[n] = m /\ n \in messages /\ waiting[n] /\ n # m
  <2> HAVE n \in Message
  <2>1. request[n] = m /\ n \in messages /\ request[n] # None
    BY <1>3 DEF Core, InvLinked
  <2>2. ~Completing(n)
    BY <1>1, <1>3 DEF Completing
  <2>3. waiting[n]
    BY <2>1, <2>2 DEF Core, InvWaiting
  <2>4. n # m
    BY <1>4, <2>1
  <2> QED
    BY <2>1, <2>3, <2>4
<1>6. DOMAIN stack' = {} /\ InvFrames'
  BY <1>3, NoFrames
<1>7. /\ messages' = messages /\ messages \subseteq Message
      /\ left[m] = usage[m] - 1
      /\ usage[m] # 1 => alive'[m] = alive[m]
      /\ response'[m] = None
      /\ \A x \in Message : x # m => alive'[x] = alive[x] /\ response'[x] = response[x]
                                     /\ left[x] = usage[x]
  <2> HIDE DEF m
  <2>1. left[m] = usage[m] - 1 /\ \A x \in Message : x # m => left[x] = usage[x]
    BY <1>2, <1>3 DEF TypeOK
  <2>2. usage[m] \in Nat
    BY <1>3, Sum
  <2> HIDE DEF left
  <2>3. messages' = messages /\ messages \subseteq Message
    BY <1>1, <1>2, <1>4 DEF TypeOK
  <2>4. usage[m] # 1 => left[m] # 0
    BY <2>1, <2>2
  <2> QED
    BY <1>1, <1>2, <1>3, <2>1, <2>3, <2>4 DEF TypeOK
<1>8. /\ n \in Message =>
           /\ ~waiting'[n] /\ request'[n] = None
           /\ usage'[n] = usage[n] - 1 + B(url[n] = "xkpr")
           /\ serviceQ' = PostService(serviceQ, n, url[n], "cancel")
           /\ shellQ' = PostShell(shellQ, n, s, "cancel")
      /\ n \notin Message => serviceQ' = serviceQ /\ shellQ' = PostShell(shellQ, m, s, "cancel")
      /\ usage'[m] = usage[m] - 1
      /\ \A x \in Message : x # n => waiting'[x] = waiting[x] /\ request'[x] = request[x]
      /\ \A x \in Message : x # n /\ x # m => usage'[x] = usage[x]
  <2>1. CASE n \in Message
    <3> HIDE DEF m, n
    <3>1. /\ waiting' = [waiting EXCEPT ![n] = FALSE]
          /\ request' = [request EXCEPT ![n] = None]
          /\ usage' = [left EXCEPT ![n] = @ - B(request[n] # None) + B(url[n] = "xkpr")]
          /\ shellQ' = PostShell(shellQ, n, url[n], "cancel")
          /\ serviceQ' = PostService(serviceQ, n, url[n], "cancel")
      BY <1>1, <1>5, <2>1 DEF KprMessageCancel, Detached
    <3>2. B(request[n] # None) = 1
      BY <1>3, <1>5, <2>1, BValue
    <3>3. left \in [Message -> Int] /\ s = url[n]
      BY <1>2, <1>3, <2>1 DEF TypeOK
    <3> HIDE DEF left, s
    <3>4. /\ ~waiting'[n] /\ request'[n] = None
          /\ \A x \in Message : x # n => waiting'[x] = waiting[x] /\ request'[x] = request[x]
      BY <1>2, <2>1, <3>1 DEF TypeOK
    <3>5. /\ usage'[n] = left[n] - B(request[n] # None) + B(url[n] = "xkpr")
          /\ \A x \in Message : x # n => usage'[x] = left[x]
      BY <2>1, <3>1, <3>3
    <3>6. usage'[n] = usage[n] - 1 + B(url[n] = "xkpr")
      BY <1>5, <1>7, <2>1, <3>2, <3>5
    <3> QED
      BY <1>3, <1>5, <1>7, <2>1, <3>1, <3>3, <3>4, <3>5, <3>6
  <2>2. CASE n \notin Message
    <3>1. /\ usage' = left /\ waiting' = waiting /\ request' = request
          /\ shellQ' = shellQ /\ serviceQ' = serviceQ /\ s = "nil"
      BY <1>1, <2>2 DEF queues
    <3>2. PostShell(shellQ, m, s, "cancel") = shellQ
      BY <3>1 DEF PostShell
    <3> HIDE DEF m, n, left
    <3> QED
      BY <1>7, <2>2, <3>1, <3>2
  <2> QED
    BY <2>1, <2>2
<1>9. /\ InvCancel' /\ InvInvoke' /\ InvOwed'
      /\ \A i \in DOMAIN shellQ' :
           shellQ'[i].ev \in {"complete", "progress"} => url'[shellQ'[i].m] = "http"
      /\ \A x \in Message : CountedIn(shellQ', x) = Posted(x) + B(s = "xkpr" /\ x = n)
  <2> HIDE DEF m, n
  <2>1. \A x \in Message : response'[x] = response[x] \/ (response'[x] = None /\ x \notin messages)
    BY <1>4, <1>7
  <2>2. \A x \in Message : waiting'[x] => waiting[x]
    BY <1>8
  <2>3. UNCHANGED <<url, messages>>
    BY <1>1, <1>7
  <2>4. CASE n \in Message
    <3>1. s = url[n]
      BY <2>4
    <3> HIDE DEF s
    <3>2. "cancel" = "cancel" /\ s = "xkpr" => Cancels # {} /\ ~waiting'[n] /\ url[n] = "xkpr"
      BY <1>4, <1>8, <2>4, <3>1
    <3> QED
      BY <1>1, <1>3, <1>8, <2>1, <2>2, <2>3, <2>4, <3>2, PostOther
  <2>5. CASE n \notin Message
    <3>1. s = "nil" /\ s # "xkpr"
      BY <2>5
    <3> HIDE DEF s
    <3>2. /\ InvCancel' /\ InvInvoke' /\ InvOwed'
          /\ \A i \in DOMAIN shellQ' :
               shellQ'[i].ev \in {"complete", "progress"} => url'[shellQ'[i].m] = "http"
          /\ \A x \in Message : CountedIn(shellQ', x) = Posted(x) + B(s = "xkpr" /\ x = m)
      BY <1>1, <1>3, <1>8, <2>1, <2>2, <2>3, <2>5, <3>1, PostOther
    <3>3. \A x : B(s = "xkpr" /\ x = m) = B(s = "xkpr" /\ x = n)
      BY <3>1 DEF B
    <3> QED
      BY <3>2, <3>3
  <2> QED
    BY <2>4, <2>5
<1>10. n \in Message => s = url[n]
  OBVIOUS
<1> HIDE DEF m, n, left, s
<1>11. UsageCounts'
  <2> SUFFICES ASSUME NEW x \in Message
               PROVE  usage'[x] = host'[x] + B(request'[x] # None) + B(x \in messages')
                                  + CountedIn(shellQ', x) + B(response'[x] # None)
    BY DEF UsageCounts, Posted
  <2>1. /\ usage[x] \in Nat /\ host[x] \in Nat /\ Posted(x) \in Nat
        /\ usage[x] = host[x] + B(request[x] # None) + B(x \in messages) + Posted(x)
                      + B(response[x] # None)
        /\ B(request[x] # None) \in {0, 1} /\ B(x \in messages) \in {0, 1}
        /\ B(response[x] # None) \in {0, 1}
    BY Sum
  <2>2. CountedIn(shellQ', x) = Posted(x) + B(s = "xkpr" /\ x = n)
    BY <1>9
  <2>3. CASE x = m
    <3>1. /\ B(s = "xkpr" /\ x = n) = 0 /\ B(response[x] # None) = 1 /\ B(response'[x] # None) = 0
      BY <1>3, <1>4, <1>5, <1>7, <2>3, BValue DEF n
    <3>2. request'[x] = request[x] /\ usage'[x] = usage[x] - 1
      BY <1>3, <1>5, <1>8, <2>3
    <3>3. usage'[x] = host[x] + B(request[x] # None) + B(x \in messages) + CountedIn(shellQ', x) + 0
      BY <2>1, <2>2, <3>1, <3>2
    <3> QED
      BY <1>1, <1>7, <3>1, <3>2, <3>3
  <2>4. CASE x = n
    <3>1. n \in Message /\ request[n] # None /\ request'[n] = None /\ response'[n] = response[n]
      BY <1>3, <1>5, <1>7, <1>8, <2>4
    <3>2. /\ B(s = "xkpr" /\ x = n) = B(url[n] = "xkpr") /\ B(url[n] = "xkpr") \in {0, 1}
      BY <1>10, <2>4, <3>1 DEF B
    <3>3. B(request[x] # None) = 1 /\ B(request'[x] # None) = 0
      BY <2>4, <3>1, BValue
    <3>4. usage'[x] = usage[x] - 1 + B(url[n] = "xkpr")
      BY <1>8, <2>4, <3>1
    <3>5. usage'[x] = host[x] + 0 + B(x \in messages) + CountedIn(shellQ', x) + B(response[x] # None)
      BY <2>1, <2>2, <3>2, <3>3, <3>4
    <3> QED
      BY <1>1, <1>7, <2>4, <3>1, <3>3, <3>5
  <2>5. CASE x # m /\ x # n
    <3>1. B(s = "xkpr" /\ x = n) = 0
      BY <2>5, BValue
    <3>2. CountedIn(shellQ', x) = Posted(x)
      BY <2>1, <2>2, <3>1
    <3> QED
      BY <1>1, <1>7, <1>8, <2>1, <2>5, <3>2
  <2> QED
    BY <2>3, <2>4, <2>5
<1>12. InvLive'
  <2>1. alive[m] = "live" /\ usage[m] \in Nat
    BY <1>3, <1>4, Unallocated, Sum DEF n
  <2>2. alive'[m] # "live" => usage'[m] = 0
    BY <1>7, <1>8, <2>1
  <2>3. n \in Message => alive[n] = "live"
    BY <1>5, Unallocated
  <2> QED
    BY <1>7, <1>8, <2>2, <2>3 DEF Core, InvLive
<1>13. InvWaiting'
  <2>1. \A x \in Message : ~Completing(x)
    BY <1>1, <1>3 DEF Completing
  <2> QED
    BY <1>7, <1>8, <2>1 DEF Core, InvWaiting
<1>14. InvScript'
  BY <1>1, <1>6 DEF Core, InvScript
<1>15. InvHttp'
  <2>1. "cancel" \in Events
    BY DEF Events
  <2>2. \A i \in DOMAIN serviceQ' : url'[serviceQ'[i].m] = "http"
    <3>1. CASE n \in Message
      BY <1>1, <1>8, <2>1, <3>1, PostServiceHttp
    <3>2. CASE n \notin Message
      BY <1>1, <1>8, <3>2 DEF Core, InvHttp
    <3> QED
      BY <3>1, <3>2
  <2>3. \A x \in Message : response'[x] # None => url'[x] = "xkpr"
    BY <1>1, <1>7 DEF Core, InvHttp
  <2> QED
    BY <1>1, <1>9, <2>2, <2>3 DEF Core, InvHttp
<1>16. InvWait'
  <2>1. \A w \in WaitMessage : /\ \A x \in Message : request'[x] # w
                               /\ response'[w] \in {None, ContentWait}
    BY <1>7, <1>8 DEF Core, InvWait
  <2>2. \A x \in Message \ WaitMessage : response'[x] # ContentWait
    BY <1>7 DEF Core, InvWait
  <2> QED
    BY <1>1, <1>6, <2>1, <2>2 DEF Core, InvWait
<1>17. InvLinked'
  <2>1. \A x \in Message : request'[x] # x
    BY <1>8 DEF Core, InvLinked
  <2>2. \A f \in Message : response'[f] \in Message =>
          request'[response'[f]] = f /\ response'[f] \in messages'
    <3> SUFFICES ASSUME NEW f \in Message, response'[f] \in Message
                 PROVE  request'[response'[f]] = f /\ response'[f] \in messages'
      OBVIOUS
    <3>1. f # m /\ response'[f] = response[f]
      BY <1>3, <1>7
    <3>2. request[response[f]] = f /\ response[f] \in messages
      BY <3>1 DEF Core, InvLinked
    <3>3. response[f] # n
      BY <1>5, <3>1, <3>2
    <3> QED
      BY <1>7, <1>8, <3>1, <3>2, <3>3
  <2>3. \A x \in messages' : request'[x] \in Message => response'[request'[x]] = x
    <3> SUFFICES ASSUME NEW x \in messages, request'[x] \in Message
                 PROVE  response'[request'[x]] = x
      BY <1>7
    <3>1. x \in Message /\ x # n /\ request'[x] = request[x]
      BY <1>7, <1>8
    <3>2. response[request[x]] = x
      BY <3>1 DEF Core, InvLinked
    <3>3. request[x] # m
      BY <3>1, <3>2 DEF n
    <3> QED
      BY <1>7, <3>1, <3>2, <3>3
  <2>4. \A f \in Message : response'[f] # None => f \in messages'
    <3>1. \A f \in Message : response[f] # None /\ f # m => f \in messages
      BY DEF Core, InvLinked, m
    <3> QED
      BY <1>7, <3>1
  <2> QED
    BY <2>1, <2>2, <2>3, <2>4 DEF InvLinked
<1> QED
  BY <1>6, <1>9, <1>11, <1>12, <1>13, <1>14, <1>15, <1>16, <1>17 DEF Safe

(* No notification is under way. *)
LEMMA NotNotifying ==
  ASSUME Core, Unnotified
  PROVE  /\ \A m \in Message : ~KprMessageNotifyCallback(m)
         /\ ~NotifyContext /\ ~ReturnShell /\ ~ReturnNotify
<1>1. TypeOK /\ "notify" \in Events
  BY DEF Core, Events
<1>2. ASSUME NEW m \in Message, KprMessageNotifyCallback(m)
      PROVE  FALSE
  <2>1. Deliver("notify", m)
    BY <1>2 DEF KprMessageNotifyCallback
  <2>2. 1 \in DOMAIN shellQ /\ shellQ[1].ev = "notify"
    BY <1>1, <2>1, Delivery
  <2> QED
    BY <2>2 DEF Unnotified
<1>3. ASSUME stack # <<>>
      PROVE  Top.at \notin Notifying
  BY <1>1, <1>3, TopFrame DEF Unnotified
<1> QED
  BY <1>2, <1>3 DEF NotifyContext, ReturnShell, ReturnNotify, At, Notifying

LEMMA ShellSafe ==
  ASSUME Careful, Core, Unnotified, ShellStep
  PROVE  Safe'
<1>1. ASSUME NEW m \in Message,
             \/ KprXKPRServiceInvoke(m) \/ KprXKPRServiceCancel(m)
             \/ DeliverComplete(m) \/ KprMessageNotifyCallback(m) \/ DeliverProgress(m)
             \/ KPR_handler_waitComplete(m) \/ KPR_content_waitComplete(m)
             \/ WalkCancel(m)
      PROVE  Safe'
  BY <1>1, XKPRInvokeSafe, ServiceCancelPending, ServiceCancelLate, DeliverCompleteSafe,
     NotNotifying, DeliverProgressSafe, WaitCompleteSafe, ContentWaitCompleteSafe,
     WalkCancelSafe
<1>2. ASSUME ReturnInvoke \/ ReturnCancel \/ ReturnComplete \/ Cleanup \/ ReturnResume
      PROVE  Safe'
  BY <1>2, ReturnHandlerSafe, ReturnCancelSafe, ReturnCompleteSafe, CleanupSafe
<1>3. ASSUME NotifyContext \/ ReturnShell \/ ReturnNotify \/ ReturnProgress
      PROVE  Safe'
  BY <1>3, NotNotifying, ReturnProgressSafe
<1>4. ASSUME WalkEnd
      PROVE  Safe'
  <2>1. UNCHANGED <<life, data, target, list, queues, held, stack>> /\ walk' = None
    BY <1>4 DEF WalkEnd
  <2> QED
    BY <2>1, WalkSafe
<1> QED
  BY <1>1, <1>2, <1>3, <1>4 DEF ShellStep

-----------------------------------------------------------------------------
LEMMA InitSafe == Init => Core
<1> SUFFICES ASSUME Init
             PROVE  Core
  OBVIOUS
<1> USE ConstantsAssumption
<1>1. TypeOK
  BY InitTypes
<1>2. /\ alive = [m \in Message |-> "none"] /\ usage = [m \in Message |-> 0]
      /\ host = [m \in Message |-> 0] /\ waiting = [m \in Message |-> FALSE]
      /\ url = Scheme /\ location = [m \in Message |-> "nil"]
      /\ request = [m \in Message |-> None] /\ response = [m \in Message |-> None]
      /\ messages = {} /\ shellQ = <<>> /\ serviceQ = <<>> /\ held = {} /\ stack = <<>>
      /\ walk = None /\ DOMAIN shellQ = {} /\ DOMAIN serviceQ = {} /\ DOMAIN stack = {}
  BY DEF Init
<1>3. UsageCounts
  <2> SUFFICES ASSUME NEW m \in Message
               PROVE  usage[m] = host[m] + B(request[m] # None) + B(m \in messages) + Posted(m)
                                 + B(response[m] # None)
    BY DEF UsageCounts
  <2>1. usage[m] = 0 /\ host[m] = 0
    BY <1>2
  <2>2. B(request[m] # None) = 0 /\ B(m \in messages) = 0 /\ B(response[m] # None) = 0
    BY <1>2, BValue
  <2>3. Posted(m) = 0
    BY <1>2, CountEmpty DEF Posted
  <2> QED
    BY <2>1, <2>2, <2>3
<1>4. InvLive /\ InvWaiting /\ InvScript /\ InvCancel /\ InvOwed
  BY <1>2 DEF InvLive, InvWaiting, InvScript, InvCancel, InvOwed
<1>5. InvHttp /\ InvWait /\ InvInvoke /\ InvLinked
  BY <1>2 DEF InvHttp, InvWait, InvInvoke, InvLinked
<1>6. InvFrames
  BY <1>2 DEF InvFrames
<1> QED
  BY <1>1, <1>3, <1>4, <1>5, <1>6 DEF Core

LEMMA StutterSafe ==
  ASSUME Careful, Core, UNCHANGED vars
  PROVE  Safe'
<1>1. /\ UNCHANGED <<life, data, target, list, queues, held, stack>>
      /\ walk' = walk
  BY DEF vars, content
<1>2. walk' # None => Cancels # {}
  BY <1>1 DEF Core, InvScript
<1> QED
  BY <1>1, <1>2, WalkSafe

(* Nothing but Message.notify posts a notification, and nothing but its      *)
(* callback has one of its frames.                                           *)
QuietQueue(q) == \A i \in DOMAIN q : q[i].ev # "notify"
QuietFrames(s) == \A i \in DOMAIN s : s[i].at \notin Notifying

LEMMA QuietPost ==
  ASSUME NEW q \in Seq(EventRecords), QuietQueue(q), NEW m \in Message, NEW s,
         NEW k \in Events, k # "notify"
  PROVE  QuietQueue(Append(q, Event(k, m))) /\ QuietQueue(PostShell(q, m, s, k))
<1>0. Event(k, m) \in EventRecords /\ Event(k, m).ev = k
  BY DEF Event, EventRecords
<1>1. PICK e \in EventRecords : e = Event(k, m) /\ e.ev = k
  BY <1>0
<1>2. PICK r : r = Append(q, e)
  OBVIOUS
<1>3. /\ r \in Seq(EventRecords) /\ Len(r) = Len(q) + 1
      /\ \A i \in 1 .. Len(q) : r[i] = q[i]
      /\ r[Len(q) + 1] = e
  BY <1>2, AppendSeq
<1>4. DOMAIN r = 1 .. Len(q) + 1 /\ Len(q) \in Nat /\ DOMAIN q = 1 .. Len(q)
  BY <1>3
<1>5. \A i \in DOMAIN r : r[i].ev # "notify"
  BY <1>1, <1>3, <1>4 DEF QuietQueue
<1> QED
  BY <1>1, <1>2, <1>5 DEF QuietQueue, PostShell

LEMMA QuietTail ==
  ASSUME NEW q \in Seq(EventRecords), QuietQueue(q), q # <<>>
  PROVE  QuietQueue(Tail(q)) /\ Tail(q) \in Seq(EventRecords)
<1>1. PICK r : r = Tail(q)
  OBVIOUS
<1>2. /\ r \in Seq(EventRecords) /\ Len(r) = Len(q) - 1
      /\ \A i \in 1 .. Len(r) : r[i] = q[i + 1]
  BY <1>1
<1>3. /\ DOMAIN r = 1 .. Len(r) /\ Len(r) \in Nat /\ DOMAIN q = 1 .. Len(q) /\ Len(q) \in Nat
  BY <1>2
<1>4. \A i \in DOMAIN r : i + 1 \in DOMAIN q
  BY <1>2, <1>3
<1> QED
  BY <1>1, <1>2, <1>3, <1>4 DEF QuietQueue

LEMMA QuietPush ==
  ASSUME NEW s \in Seq(Frames), QuietFrames(s), NEW f \in Frames, f.at \notin Notifying
  PROVE  QuietFrames(Push(s, f)) /\ Push(s, f) \in Seq(Frames)
<1>1. PICK r : r = Append(s, f)
  OBVIOUS
<1>2. /\ r \in Seq(Frames) /\ Len(r) = Len(s) + 1
      /\ \A i \in 1 .. Len(s) : r[i] = s[i]
      /\ r[Len(s) + 1] = f
  BY <1>1, AppendSeq
<1>3. DOMAIN r = 1 .. Len(s) + 1 /\ Len(s) \in Nat /\ DOMAIN s = 1 .. Len(s)
  BY <1>2
<1>4. \A i \in DOMAIN r : r[i].at \notin Notifying
  BY <1>2, <1>3 DEF QuietFrames
<1> QED
  BY <1>1, <1>2, <1>4 DEF QuietFrames, Push

LEMMA QuietPop ==
  ASSUME TypeOK, QuietFrames(stack), stack # <<>>
  PROVE  QuietFrames(Pop(stack)) /\ Pop(stack) \in Seq(Frames)
<1>1. PICK r : r = Pop(stack)
  OBVIOUS
<1>2. /\ r \in Seq(Frames) /\ Len(r) = Len(stack) - 1
      /\ \A i \in 1 .. Len(stack) - 1 : r[i] = stack[i]
  BY <1>1, PopSeq DEF TypeOK
<1>3. /\ DOMAIN r = 1 .. Len(stack) - 1 /\ DOMAIN stack = 1 .. Len(stack) /\ Len(stack) \in Nat
  BY <1>2 DEF TypeOK
<1>4. \A i \in DOMAIN r : i \in DOMAIN stack /\ r[i] = stack[i]
  BY <1>2, <1>3
<1> QED
  BY <1>1, <1>2, <1>4 DEF QuietFrames

LEMMA QuietOne ==
  ASSUME NEW at, NEW m, NEW h, NEW s, NEW w, at \notin Notifying,
         stack' = <<Frame(at, m, h, s, w)>>
  PROVE  QuietFrames(stack')
<1>1. DOMAIN stack' = {1} /\ stack'[1].at = at
  BY OneFrame
<1> QED
  BY <1>1 DEF QuietFrames

LEMMA QuietComplete ==
  ASSUME TypeOK, NEW m \in Message, NEW u, NEW r, NEW q \in Seq(EventRecords), QuietQueue(q),
         NEW below \in Seq(Frames), QuietFrames(below), KprMessageComplete(m, u, r, q, below)
  PROVE  QuietQueue(shellQ') /\ QuietFrames(stack')
<1>1. CASE Absent(m, u, r, q, below)
  BY <1>1 DEF Absent
<1>2. CASE Reinvoked(m, u, r, q, below)
  <2>1. "invoke" \in Events /\ "invoke" # "notify"
    BY DEF Events
  <2> QED
    BY <1>2, <2>1, QuietPost DEF Reinvoked
<1>3. CASE Delivered(m, u, r, q, below)
  <2>1. shellQ' = q
    BY <1>3 DEF Delivered
  <2>2. CASE request[m] = None
    BY <1>3, <2>1, <2>2 DEF Delivered
  <2>3. CASE request[m] # None
    <3>1. PICK h \in Message \union {None}, s \in BOOLEAN, w \in Message \union {None} :
            stack' = Push(below, Frame("complete", m, h, s, w))
      <4>1. PICK script \in BOOLEAN :
              stack' = Push(below, Frame("complete", m,
                              IF request[m] \in Message THEN request[m] ELSE None,
                              script /\ request[m] # Promise,
                              IF script /\ request[m] # Promise THEN m ELSE None))
        BY <1>3, <2>3 DEF Delivered
      <4>2. PICK h \in Message \union {None} :
              h = IF request[m] \in Message THEN request[m] ELSE None
        OBVIOUS
      <4>3. PICK s \in BOOLEAN : s = (script /\ request[m] # Promise)
        OBVIOUS
      <4>4. PICK w \in Message \union {None} :
              w = IF script /\ request[m] # Promise THEN m ELSE None
        OBVIOUS
      <4> QED
        BY <4>1, <4>2, <4>3, <4>4
    <3>a. /\ Frame("complete", m, h, s, w) \in Frames
          /\ Frame("complete", m, h, s, w).at = "complete"
      BY DEF Frame, Frames, Places
    <3>2. PICK f \in Frames : f = Frame("complete", m, h, s, w) /\ f.at = "complete"
      BY <3>a
    <3>3. f.at \notin Notifying
      BY <3>2 DEF Notifying
    <3> QED
      BY <2>1, <3>1, <3>2, <3>3, QuietPush
  <2> QED
    BY <2>2, <2>3
<1> QED
  BY <1>1, <1>2, <1>3 DEF KprMessageComplete

LEMMA ScriptUnnotified ==
  ASSUME Careful, TypeOK, QuietQueue(shellQ), ScriptStep
  PROVE  QuietQueue(shellQ') /\ stack' = stack
<1> USE ConstantsAssumption
<1>0. shellQ \in Seq(EventRecords) /\ {"invoke", "cancel"} \subseteq Events
      /\ "invoke" # "notify" /\ "cancel" # "notify"
  BY DEF TypeOK, Events
<1>1. ASSUME NEW m \in Message, KPR_Message(m) \/ KPR_message_destructor(m)
      PROVE  shellQ' = shellQ /\ stack' = stack
  BY <1>1 DEF KPR_Message, KPR_message_destructor, queues
<1>2. ASSUME NEW m \in Message,
             \/ KPR_invoke_only(m) \/ KPR_message_invoke(m)
             \/ \E c \in Content : KPR_content_invoke(c, m)
      PROVE  shellQ' = PostShell(shellQ, m, url[m], "invoke") /\ stack' = stack
  BY <1>2 DEF KPR_invoke_only, KPR_message_invoke, KPR_content_invoke, KprMessageInvoke
<1>3. ASSUME NEW m \in Message, KPR_handler_invoke(m)
      PROVE  (shellQ' = PostShell(shellQ, m, url[m], "invoke") \/ shellQ' = shellQ)
             /\ stack' = stack
  BY <1>3 DEF KPR_handler_invoke, queues
<1>4. ASSUME NEW m \in Message, KPR_message_cancel(m)
      PROVE  (shellQ' = PostShell(shellQ, m, url[m], "cancel") \/ shellQ' = shellQ)
             /\ stack' = stack
  BY <1>4 DEF KPR_message_cancel, KprMessageCancel
<1>5. ASSUME NEW m \in Message, NEW c \in Content, KPR_content_wait(c, m)
      PROVE  shellQ' = Append(shellQ, Event("invoke", m)) /\ stack' = stack
  BY <1>5 DEF KPR_content_wait
<1>6. ASSUME NEW c \in Content, KprContentCancel(c) \/ KprContentDispose(c)
      PROVE  shellQ' = shellQ /\ stack' = stack
  BY <1>6 DEF KprContentCancel, KprContentDispose, queues
<1>7. ASSUME KPR_handler_get_message \/ KPR_handler_wait \/ \E s \in RedirectTo : KPR_handler_redirect(s)
      PROVE  shellQ' = shellQ /\ stack' = stack
  BY <1>7 DEF KPR_handler_get_message, KPR_handler_wait, KPR_handler_redirect, queues
<1>8. \A m \in Message : ~KprMessageNotify(m)
  BY DEF KprMessageNotify, Careful
<1>9. \A m \in Message : /\ QuietQueue(PostShell(shellQ, m, url[m], "invoke"))
                         /\ QuietQueue(PostShell(shellQ, m, url[m], "cancel"))
                         /\ QuietQueue(Append(shellQ, Event("invoke", m)))
  BY <1>0, QuietPost
<1> QED
  BY <1>1, <1>2, <1>3, <1>4, <1>5, <1>6, <1>7, <1>8, <1>9 DEF ScriptStep

LEMMA ServiceUnnotified ==
  ASSUME TypeOK, QuietQueue(shellQ), ServiceStep
  PROVE  QuietQueue(shellQ') /\ stack' = stack
<1>1. shellQ \in Seq(EventRecords) /\ {"complete", "progress"} \subseteq Events
      /\ "complete" # "notify" /\ "progress" # "notify"
  BY DEF TypeOK, Events
<1>2. \A m \in Message : /\ QuietQueue(Append(shellQ, Event("complete", m)))
                         /\ QuietQueue(Append(shellQ, Event("progress", m)))
  BY <1>1, QuietPost
<1>3. /\ stack' = stack
      /\ \/ shellQ' = shellQ
         \/ \E m \in Message : \/ shellQ' = Append(shellQ, Event("complete", m))
                               \/ shellQ' = Append(shellQ, Event("progress", m))
  BY DEF ServiceStep, ServiceCancel, ServiceInvoke, ServiceProgress, ServiceFinish
<1> QED
  BY <1>2, <1>3

LEMMA ShellUnnotified ==
  ASSUME Core, Unnotified, ShellStep
  PROVE  QuietQueue(shellQ') /\ QuietFrames(stack')
<1> USE ConstantsAssumption
<1>0. /\ TypeOK /\ shellQ \in Seq(EventRecords) /\ QuietQueue(shellQ) /\ QuietFrames(stack)
      /\ "cancel" \in Events /\ "cancel" # "notify" /\ stack \in Seq(Frames)
  BY DEF Core, TypeOK, Unnotified, QuietQueue, QuietFrames, Events
<1>a. \A m \in Message : QuietQueue(PostShell(shellQ, m, url[m], "cancel"))
  BY <1>0, QuietPost
<1>b. <<>> \in Seq(Frames) /\ QuietFrames(<<>>)
  BY DEF QuietFrames
<1>c. {"invoke", "cancel", "progress", "resume", "cleanup"} \intersect Notifying = {}
  BY DEF Notifying
<1>1. ASSUME NEW m \in Message,
             \/ KprXKPRServiceInvoke(m) \/ KprXKPRServiceCancel(m) \/ DeliverProgress(m)
      PROVE  QuietQueue(shellQ') /\ QuietFrames(stack')
  <2>1. shellQ' = Tail(shellQ) /\ shellQ # <<>>
    BY <1>1 DEF KprXKPRServiceInvoke, KprXKPRServiceCancel, DeliverProgress, Deliver
  <2>2. CASE KprXKPRServiceInvoke(m)
    <3>1. PICK h, s, w : stack' = <<Frame("invoke", m, h, s, w)>>
      BY <2>2 DEF KprXKPRServiceInvoke
    <3> QED
      BY <1>0, <1>c, <2>1, <3>1, QuietTail, QuietOne
  <2>3. CASE KprXKPRServiceCancel(m)
    <3>1. CASE stack' = stack
      BY <1>0, <2>1, <3>1, QuietTail
    <3>2. CASE stack' # stack
      <4>1. PICK h, s, w : stack' = <<Frame("cancel", m, h, s, w)>>
        BY <2>3, <3>2 DEF KprXKPRServiceCancel
      <4> QED
        BY <1>0, <1>c, <2>1, <4>1, QuietTail, QuietOne
    <3> QED
      BY <3>1, <3>2
  <2>4. CASE DeliverProgress(m)
    <3>1. PICK h, s, w : stack' = <<Frame("progress", m, h, s, w)>>
      BY <2>4 DEF DeliverProgress
    <3> QED
      BY <1>0, <1>c, <2>1, <3>1, QuietTail, QuietOne
  <2> QED
    BY <1>1, <2>2, <2>3, <2>4
<1>2. ASSUME NEW m \in Message, DeliverComplete(m)
      PROVE  QuietQueue(shellQ') /\ QuietFrames(stack')
  <2>1. shellQ # <<>> /\ KprMessageComplete(m, usage, response, Tail(shellQ), <<>>)
    BY <1>2 DEF DeliverComplete, Deliver
  <2>2. PICK q \in Seq(EventRecords) : q = Tail(shellQ) /\ QuietQueue(q)
    BY <1>0, <2>1, QuietTail
  <2>3. PICK below \in Seq(Frames) : below = <<>> /\ QuietFrames(below)
    BY <1>b
  <2>4. KprMessageComplete(m, usage, response, q, below)
    BY <2>1, <2>2, <2>3
  <2> QED
    BY <1>0, <2>2, <2>3, <2>4, QuietComplete
<1>3. ASSUME NEW m \in Message, KPR_content_waitComplete(m)
      PROVE  QuietQueue(shellQ') /\ QuietFrames(stack')
  <2>1. PICK below \in Seq(Frames) : below = <<>> /\ QuietFrames(below)
    BY <1>b
  <2>2. KprMessageComplete(m, [usage EXCEPT ![m] = @ - 1],
                           [response EXCEPT ![m] = None], shellQ, below)
    BY <1>3, <2>1 DEF KPR_content_waitComplete
  <2> QED
    BY <1>0, <2>1, <2>2, QuietComplete
<1>4. ASSUME NEW m \in Message, KPR_handler_waitComplete(m)
      PROVE  QuietQueue(shellQ') /\ QuietFrames(stack')
  <2>1. shellQ' = shellQ
    BY <1>4 DEF KPR_handler_waitComplete, queues
  <2>2. PICK s : stack' = <<Frame("resume", m, m, s, None)>>
    BY <1>4 DEF KPR_handler_waitComplete
  <2> QED
    BY <1>0, <1>c, <2>1, <2>2, QuietOne
<1>5. ASSUME NEW m \in Message, WalkCancel(m)
      PROVE  QuietQueue(shellQ') /\ QuietFrames(stack')
  <2>1. stack' = stack /\ (shellQ' = shellQ \/ shellQ' = PostShell(shellQ, m, url[m], "cancel"))
    BY <1>5 DEF WalkCancel, KprMessageCancel
  <2> QED
    BY <1>0, <1>a, <2>1
<1>6. ASSUME ReturnInvoke \/ ReturnResume
      PROVE  QuietQueue(shellQ') /\ QuietFrames(stack')
  <2>1. stack # <<>>
    BY <1>6 DEF ReturnInvoke, ReturnResume, At
  <2>2. PICK below \in Seq(Frames) : below = Pop(stack) /\ QuietFrames(below)
    BY <1>0, <2>1, QuietPop
  <2>3. Top.m \in Message
    BY <1>0, <2>1, TopFrame
  <2>4. \/ KprMessageComplete(Top.m, usage, response, shellQ, below)
        \/ stack' = below /\ shellQ' = shellQ
    BY <1>6, <2>2 DEF ReturnInvoke, ReturnResume, queues
  <2> QED
    BY <1>0, <2>2, <2>3, <2>4, QuietComplete
<1>7. ASSUME ReturnComplete
      PROVE  QuietQueue(shellQ') /\ QuietFrames(stack')
  <2>1. stack # <<>>
    BY <1>7 DEF ReturnComplete, At
  <2>2. Top.m \in Message /\ Top.handles \in Message \union {None}
    BY <1>0, <2>1, TopFrame
  <2>a. /\ Frame("cleanup", Top.m, None, FALSE, None) \in Frames
        /\ Frame("cleanup", Top.m, None, FALSE, None).at = "cleanup"
    BY <2>2 DEF Frame, Frames, Places
  <2>3. PICK e \in Frames : e = Frame("cleanup", Top.m, None, FALSE, None) /\ e.at = "cleanup"
    BY <2>a
  <2>4. PICK below \in Seq(Frames) : below = Push(Pop(stack), e) /\ QuietFrames(below)
    <3>1. PICK p \in Seq(Frames) : p = Pop(stack) /\ QuietFrames(p)
      BY <1>0, <2>1, QuietPop
    <3>2. e.at \notin Notifying
      BY <1>c, <2>3
    <3> QED
      BY <3>1, <3>2, QuietPush
  <2>5. \/ Top.handles # None /\ KprMessageComplete(Top.handles, usage, response, shellQ, below)
        \/ stack' = below /\ shellQ' = shellQ
    BY <1>7, <2>3, <2>4 DEF ReturnComplete, queues
  <2> QED
    BY <1>0, <2>2, <2>4, <2>5, QuietComplete
<1>8. ASSUME ReturnCancel \/ Cleanup \/ ReturnProgress
      PROVE  QuietQueue(shellQ') /\ QuietFrames(stack')
  <2>1. stack # <<>> /\ stack' = Pop(stack)
    BY <1>8 DEF ReturnCancel, Cleanup, ReturnProgress, At
  <2>2. QuietFrames(stack')
    BY <1>0, <2>1, QuietPop
  <2>3. CASE Cleanup \/ ReturnProgress
    BY <1>0, <2>2, <2>3 DEF Cleanup, ReturnProgress, queues
  <2>4. CASE ReturnCancel
    <3>1. Top.m \in Message
      BY <1>0, <2>1, TopFrame
    <3>2. PICK n : n = response[Top.m]
      OBVIOUS
    <3>3. \/ shellQ' = shellQ
          \/ n \in Message /\ shellQ' = PostShell(shellQ, n, url[n], "cancel")
      BY <2>4, <3>2 DEF ReturnCancel, KprMessageCancel, queues
    <3> QED
      BY <1>0, <1>a, <2>2, <3>3
  <2> QED
    BY <1>8, <2>3, <2>4
<1>9. ASSUME WalkEnd
      PROVE  QuietQueue(shellQ') /\ QuietFrames(stack')
  BY <1>0, <1>9 DEF WalkEnd, queues
<1> QED
  BY <1>1, <1>2, <1>3, <1>4, <1>5, <1>6, <1>7, <1>8, <1>9, NotNotifying DEF ShellStep

LEMMA NextUnnotified ==
  ASSUME Careful, Core, Unnotified, [Next]_vars
  PROVE  Unnotified'
<1>1. TypeOK /\ QuietQueue(shellQ) /\ QuietFrames(stack)
  BY DEF Core, Unnotified, QuietQueue, QuietFrames
<1>2. QuietQueue(shellQ') /\ QuietFrames(stack')
  <2>1. CASE ScriptStep
    BY <1>1, <2>1, ScriptUnnotified
  <2>2. CASE ShellStep
    BY <2>2, ShellUnnotified
  <2>3. CASE ServiceStep
    BY <1>1, <2>3, ServiceUnnotified
  <2>4. CASE UNCHANGED vars
    BY <1>1, <2>4 DEF vars, queues
  <2> QED
    BY <2>1, <2>2, <2>3, <2>4 DEF Next
<1> QED
  BY <1>2 DEF Unnotified, QuietQueue, QuietFrames

LEMMA NextSafe ==
  ASSUME Careful, IInv, [Next]_vars
  PROVE  IInv'
<1>1. TypeOK' /\ Core /\ Unnotified
  BY NextTypes DEF IInv, Core
<1>2. Safe'
  BY <1>1, ScriptSafe, ShellSafe, ServiceSafe, StutterSafe DEF Next
<1>3. Unnotified'
  BY <1>1, NextUnnotified DEF Core
<1> QED
  BY <1>1, <1>2, <1>3 DEF IInv, Core, Safe

\* The inductive invariant holds in every reachable state of every careful
\* instance: whatever the messages, contents, schemes and scripts, the
\* handlers, cancellations, completions and timers of kprMessage.c and
\* kprHandler.c keep the list, the targets, the queues and the native frames
\* consistent with each other.
THEOREM Inductive ==
  ASSUME Careful
  PROVE  Spec => []IInv
<1>1. Init => IInv
  <2>1. Init => Unnotified
    BY DEF Init, Unnotified
  <2> QED
    BY <2>1, InitSafe DEF IInv
<1>2. IInv /\ [Next]_vars => IInv'
  BY NextSafe
<1> QED
  BY <1>1, <1>2, PTL DEF Spec

\* usage is exactly the number of references to a message (kprMessage.c: host,
\* request, message queue, event queue, response), in every careful instance
\* of any size: no path of invoke, complete, cancel, resume and the collector
\* forgets a unit of the count or gives one back twice.
THEOREM UsageCorrect ==
  ASSUME Careful
  PROVE  Spec => []UsageCounts
<1>1. IInv => UsageCounts
  BY DEF IInv, Core
<1> QED
  BY <1>1, Inductive, PTL

(* What the invariant says of a pending message that somebody waits for. *)
LEMMA PendingWaits ==
  ASSUME Core, NEW m \in Message, m \in messages, request[m] # None
  PROVE  waiting[m]
<1>1. ~Completing(m)
  BY DEF Core, InvFrames, Completing
<1> QED
  BY <1>1 DEF Core, InvWaiting

\* The two directions of KprHandlerTarget agree, whatever the length of the
\* chain of handlers: the message a handler's message is suspended on is
\* pending and leads back to it (KPR_handler_invoke, KprXKPRServiceCancel).
THEOREM LinkedCorrect ==
  ASSUME Careful
  PROVE  Spec => []Linked
<1>1. ASSUME Core
      PROVE  Linked
  <2> SUFFICES ASSUME NEW f \in Message, NEW m \in Message
               PROVE  /\ response[f] = m => request[m] = f /\ m \in messages /\ waiting[m]
                      /\ request[m] = f /\ m \in messages => response[f] = m
    BY DEF Linked
  <2>1. request[m] = f /\ m \in messages => response[f] = m
    BY <1>1 DEF Core, InvLinked
  <2>2. response[f] = m => request[m] = f /\ m \in messages
    BY <1>1 DEF Core, InvLinked
  <2>3. response[f] = m => waiting[m]
    BY <1>1, <2>2, PendingWaits, ConstantsAssumption
  <2> QED
    BY <2>1, <2>2, <2>3
<1>2. IInv => Linked
  BY <1>1 DEF IInv
<1> QED
  BY <1>2, Inductive, PTL

\* A handler's message stays in gShell->messages, or has its onCancel running,
\* as long as a message it invoked is pending: it cannot be completed under
\* the handler (KprMessageComplete, KprXKPRServiceCancel).
THEOREM SuspensionCorrect ==
  ASSUME Careful
  PROVE  Spec => []SuspendedUntilComplete
<1>1. ASSUME Core
      PROVE  SuspendedUntilComplete
  <2> SUFFICES ASSUME NEW f \in Message, NEW m \in Message,
                      request[m] = f, m \in messages
               PROVE  \/ f \in messages
                      \/ \E i \in DOMAIN stack : stack[i].at = "cancel" /\ stack[i].m = f
    BY DEF SuspendedUntilComplete
  <2>1. response[f] # None
    BY <1>1, ConstantsAssumption DEF Core, InvLinked
  <2>2. f \in messages \/ (stack # <<>> /\ Top.at = "cancel" /\ Top.m = f)
    BY <1>1, <2>1 DEF Core, InvLinked
  <2>3. stack # <<>> => Len(stack) \in DOMAIN stack /\ Top = stack[Len(stack)]
    BY <1>1, TopFrame DEF Core
  <2> QED
    BY <2>2, <2>3
<1>2. IInv => SuspendedUntilComplete
  BY <1>1 DEF IInv
<1> QED
  BY <1>2, Inductive, PTL

(* A completion callback starts only for a message that waits. *)
LEMMA CompleteSilent ==
  ASSUME Core, NEW f \in Message, NEW u, NEW r, NEW q, NEW below \in Seq(Frames),
         KprMessageComplete(f, u, r, q, below),
         NEW i \in DOMAIN stack', stack'[i].at = "complete"
  PROVE  \/ i \in DOMAIN below /\ stack'[i] = below[i]
         \/ stack'[i].m = f /\ waiting[f]
<1>1. CASE stack' = below
  BY <1>1
<1>2. CASE stack' # below
  <2>1. /\ Delivered(f, u, r, q, below) /\ f \in messages /\ request[f] # None
    BY <1>2 DEF KprMessageComplete, Absent, Reinvoked, Delivered
  <2>2. PICK h, s, w : stack' = Push(below, Frame("complete", f, h, s, w))
    BY <2>1 DEF Delivered
  <2>3. /\ DOMAIN stack' = 1 .. Len(below) + 1 /\ DOMAIN below = 1 .. Len(below)
        /\ Len(below) \in Nat
        /\ \A j \in 1 .. Len(below) : stack'[j] = below[j]
        /\ stack'[Len(below) + 1].m = f
    BY <2>2 DEF Push, Frame
  <2>4. waiting[f]
    BY <2>1, PendingWaits
  <2> QED
    BY <2>3, <2>4
<1> QED
  BY <1>1, <1>2

(* Where the frames of a step come from. *)
LEMMA FramesSilent ==
  ASSUME Core, Next, NEW i \in DOMAIN stack', stack'[i].at = "complete",
         stack'[i] \notin {stack[j] : j \in DOMAIN stack}
  PROVE  stack'[i].m \in Message /\ waiting[stack'[i].m]
<1>1. TypeOK /\ TypeOK'
  BY NextTypes DEF Core
<1>2. stack' # stack
  OBVIOUS
<1>3. stack # <<>> =>
        /\ Pop(stack) \in Seq(Frames) /\ DOMAIN Pop(stack) \subseteq DOMAIN stack
        /\ \A j \in DOMAIN Pop(stack) : Pop(stack)[j] = stack[j]
  <2> HAVE stack # <<>>
  <2>1. /\ Pop(stack) \in Seq(Frames) /\ Len(Pop(stack)) = Len(stack) - 1
        /\ \A j \in 1 .. Len(stack) - 1 : Pop(stack)[j] = stack[j]
    BY <1>1, PopSeq DEF TypeOK
  <2>2. DOMAIN Pop(stack) = 1 .. Len(stack) - 1 /\ DOMAIN stack = 1 .. Len(stack)
        /\ Len(stack) \in Nat
    BY <1>1, <2>1 DEF TypeOK
  <2> QED
    BY <2>1, <2>2
<1>4. ~(stack # <<>> /\ stack' = Pop(stack))
  BY <1>3
<1>5. ASSUME NEW at, NEW m, NEW h, NEW s, NEW w, at # "complete"
      PROVE  stack' # <<Frame(at, m, h, s, w)>>
  <2> SUFFICES ASSUME stack' = <<Frame(at, m, h, s, w)>>
               PROVE  FALSE
    OBVIOUS
  <2>1. DOMAIN stack' = {1} /\ stack'[1].at = at
    BY OneFrame
  <2> QED
    BY <1>5, <2>1
<1>6. ASSUME NEW f \in Message, NEW u, NEW r, NEW q, NEW below \in Seq(Frames),
             KprMessageComplete(f, u, r, q, below),
             \A j \in DOMAIN below : below[j].at = "complete" =>
               below[j] \in {stack[k] : k \in DOMAIN stack}
      PROVE  stack'[i].m \in Message /\ waiting[stack'[i].m]
  BY <1>6, CompleteSilent
<1>7. ASSUME NEW m \in Message, DeliverComplete(m) \/ KPR_content_waitComplete(m)
      PROVE  stack'[i].m \in Message /\ waiting[stack'[i].m]
  <2>1. <<>> \in Seq(Frames) /\ \A j \in DOMAIN <<>> : FALSE
    OBVIOUS
  <2>2. CASE DeliverComplete(m)
    <3>1. KprMessageComplete(m, usage, response, Tail(shellQ), <<>>)
      BY <2>2 DEF DeliverComplete
    <3> QED
      BY <1>6, <2>1, <3>1
  <2>3. CASE KPR_content_waitComplete(m)
    <3>1. KprMessageComplete(m, [usage EXCEPT ![m] = @ - 1],
                             [response EXCEPT ![m] = None], shellQ, <<>>)
      BY <2>3 DEF KPR_content_waitComplete
    <3> QED
      BY <1>6, <2>1, <3>1
  <2> QED
    BY <1>7, <2>2, <2>3
<1>8. ASSUME ReturnInvoke \/ ReturnResume \/ ReturnComplete
      PROVE  stack'[i].m \in Message /\ waiting[stack'[i].m]
  <2>1. stack # <<>>
    BY <1>8 DEF ReturnInvoke, ReturnResume, ReturnComplete, At
  <2>2. Top.m \in Message /\ Top.handles \in Message \union {None}
    BY <1>1, <2>1, TopFrame
  <2>3. CASE ReturnInvoke \/ ReturnResume
    <3>1. KprMessageComplete(Top.m, usage, response, shellQ, Pop(stack))
      BY <1>4, <2>1, <2>3 DEF ReturnInvoke, ReturnResume
    <3>2. Pop(stack) \in Seq(Frames) /\ \A j \in DOMAIN Pop(stack) :
            Pop(stack)[j].at = "complete" => Pop(stack)[j] \in {stack[k] : k \in DOMAIN stack}
      BY <1>3, <2>1
    <3> QED
      BY <1>6, <2>2, <3>1, <3>2
  <2>4. CASE ReturnComplete
    <3> DEFINE below == Push(Pop(stack), Frame("cleanup", Top.m, None, FALSE, None))
    <3>1. \/ stack' = below
          \/ /\ Top.handles # None
             /\ KprMessageComplete(Top.handles, usage, response, shellQ, below)
      BY <2>4 DEF ReturnComplete
    <3>2. Frame("cleanup", Top.m, None, FALSE, None) \in Frames
      BY <2>2 DEF Frame, Frames, Places
    <3>3. /\ below \in Seq(Frames)
          /\ \A j \in DOMAIN below : below[j].at = "complete" =>
               j \in DOMAIN Pop(stack) /\ below[j] = Pop(stack)[j]
      <4> DEFINE p == Pop(stack)
                 e == Frame("cleanup", Top.m, None, FALSE, None)
      <4>1. p \in Seq(Frames) /\ e \in Frames /\ below = Append(p, e) /\ e.at = "cleanup"
        BY <1>3, <2>1, <3>2 DEF Push, Frame
      <4> HIDE DEF p, e, below
      <4>2. /\ below \in Seq(Frames) /\ Len(below) = Len(p) + 1
            /\ \A j \in 1 .. Len(p) : below[j] = p[j]
            /\ below[Len(p) + 1] = e
        BY <4>1, AppendSeq
      <4>3. DOMAIN below = 1 .. Len(p) + 1 /\ Len(p) \in Nat /\ DOMAIN p = 1 .. Len(p)
        BY <4>1, <4>2
      <4>4. \A j \in DOMAIN below : below[j].at = "complete" => j \in DOMAIN p /\ below[j] = p[j]
        BY <4>1, <4>2, <4>3
      <4> QED
        BY <4>2, <4>4 DEF p
    <3>4. \A j \in DOMAIN below : below[j].at = "complete" =>
            below[j] \in {stack[k] : k \in DOMAIN stack}
      BY <1>3, <2>1, <3>3
    <3> HIDE DEF below
    <3>5. stack' # below
      BY <3>4
    <3> QED
      BY <1>6, <2>2, <3>1, <3>3, <3>4, <3>5
  <2> QED
    BY <1>8, <2>3, <2>4
<1>9. ~ScriptStep
  BY <1>2 DEF ScriptStep, KPR_Message, KPR_message_destructor, KPR_invoke_only,
       KPR_message_invoke, KPR_handler_invoke, KPR_message_cancel, KprMessageNotify,
       KPR_content_invoke, KPR_content_wait, KprContentCancel, KprContentDispose,
       KPR_handler_wait, KPR_handler_redirect, KPR_handler_get_message
<1>10. ~ServiceStep
  BY <1>2 DEF ServiceStep, ServiceCancel, ServiceInvoke, ServiceProgress, ServiceFinish
<1>11. ASSUME NEW m \in Message,
              \/ KprXKPRServiceInvoke(m) \/ KprXKPRServiceCancel(m)
              \/ KprMessageNotifyCallback(m) \/ DeliverProgress(m)
              \/ KPR_handler_waitComplete(m) \/ WalkCancel(m)
       PROVE  FALSE
  <2>1. CASE KprXKPRServiceInvoke(m)
    BY <1>5, <2>1 DEF KprXKPRServiceInvoke
  <2>2. CASE KprXKPRServiceCancel(m)
    BY <1>2, <1>5, <2>2 DEF KprXKPRServiceCancel
  <2>3. CASE KprMessageNotifyCallback(m)
    BY <1>5, <2>3 DEF KprMessageNotifyCallback
  <2>4. CASE DeliverProgress(m)
    BY <1>5, <2>4 DEF DeliverProgress
  <2>5. CASE KPR_handler_waitComplete(m)
    BY <1>5, <2>5 DEF KPR_handler_waitComplete
  <2>6. CASE WalkCancel(m)
    BY <1>2, <2>6 DEF WalkCancel
  <2> QED
    BY <1>11, <2>1, <2>2, <2>3, <2>4, <2>5, <2>6
<1>12. ASSUME ReturnCancel \/ Cleanup \/ NotifyContext \/ ReturnShell \/ ReturnNotify
              \/ ReturnProgress \/ WalkEnd
       PROVE  FALSE
  <2>1. CASE ReturnCancel \/ Cleanup \/ ReturnNotify \/ ReturnProgress
    BY <1>4, <2>1 DEF ReturnCancel, Cleanup, ReturnNotify, ReturnProgress, At
  <2>2. CASE NotifyContext
    <3>1. PICK at \in {"inShell", "inApplication"}, h \in {None, Top.m}, s \in BOOLEAN,
               w \in {Top.m, None} : stack' = <<Frame(at, Top.m, h, s, w)>>
      BY <2>2 DEF NotifyContext
    <3> QED
      BY <1>5, <3>1
  <2>3. CASE ReturnShell
    BY <1>5, <2>3 DEF ReturnShell
  <2>4. CASE WalkEnd
    BY <1>2, <2>4 DEF WalkEnd
  <2> QED
    BY <1>12, <2>1, <2>2, <2>3, <2>4
<1> QED
  BY <1>7, <1>8, <1>9, <1>10, <1>11, <1>12 DEF Next, ShellStep

\* Once KprMessageCancel has run, no onComplete of the message starts: the
\* cancel callback, a completion that was already posted by a service and the
\* resumption of a handler may race in any order.
THEOREM CancelCorrect ==
  ASSUME Careful
  PROVE  Spec => CancelSilences
<1>1. IInv /\ [Next]_vars =>
        [\A m \in Message :
           (\E i \in DOMAIN stack' : stack'[i] \notin {stack[j] : j \in DOMAIN stack}
                                     /\ stack'[i].at = "complete" /\ stack'[i].m = m)
           => waiting[m]]_vars
  BY FramesSilent DEF IInv
<1> QED
  BY <1>1, Inductive, PTL DEF Spec, CancelSilences

-----------------------------------------------------------------------------
(* NoDangling, NoGoneTarget, NoLeak and OneCompletion.                      *)

LEMMA TermsNext ==
  ASSUME TypeOK', UsageCounts', NEW m \in Message
  PROVE  /\ usage'[m] \in Nat /\ host'[m] \in Nat
         /\ usage'[m] >= host'[m]
         /\ request'[m] # None => usage'[m] >= 1 + host'[m]
         /\ m \in messages' => usage'[m] >= 1 + host'[m]
         /\ response'[m] # None => usage'[m] >= 1 + host'[m]
<1>1. /\ usage'[m] = host'[m] + B(request'[m] # None) + B(m \in messages') + Posted(m)'
                     + B(response'[m] # None)
      /\ host'[m] \in Nat
  BY DEF TypeOK, UsageCounts
<1>2. Posted(m)' \in Nat
  BY CountNat DEF TypeOK, Posted
<1> QED
  BY <1>1, <1>2 DEF B

-----------------------------------------------------------------------------
(* Custody: how the callbacks on their way between the threads follow what  *)
(* is posted and delivered.                                                 *)

LEMMA EventOf ==
  ASSUME NEW k \in Events, NEW m \in Message
  PROVE  Event(k, m) \in EventRecords /\ Event(k, m).ev = k /\ Event(k, m).m = m
  BY DEF Event, EventRecords

LEMMA HoldsOf ==
  ASSUME NEW q \in Seq(EventRecords), NEW k \in Events, NEW m \in Message
  PROVE  Holds(q, k, m) <=> \E i \in DOMAIN q : q[i].ev = k /\ q[i].m = m
<1>1. \A i \in DOMAIN q : q[i] \in EventRecords
  OBVIOUS
<1>2. \A i \in DOMAIN q : q[i] = Event(k, m) <=> q[i].ev = k /\ q[i].m = m
  BY <1>1, EventEqual, EventOf
<1> QED BY <1>2 DEF Holds

(* A queue before and after a post or a delivery, place by place. *)
Grows(q, r, e) ==
  /\ r \in Seq(EventRecords) /\ DOMAIN r \subseteq Nat /\ DOMAIN q \subseteq Nat
  /\ \A i \in DOMAIN q : i \in DOMAIN r /\ r[i] = q[i]
  /\ \E n \in DOMAIN r : /\ r[n] = e
                         /\ \A i \in DOMAIN r : i \in DOMAIN q \/ i = n
                         /\ \A i \in DOMAIN q : i < n
Shrinks(q, r) ==
  /\ r \in Seq(EventRecords) /\ DOMAIN r \subseteq Nat /\ DOMAIN q \subseteq Nat
  /\ 1 \in DOMAIN q
  /\ \A i \in DOMAIN r : i + 1 \in DOMAIN q /\ r[i] = q[i + 1] /\ i + 1 # 1
  /\ \A i \in DOMAIN q : i # 1 => i - 1 \in DOMAIN r /\ r[i - 1] = q[i] /\ i > 1

First(q, k, m) == q[1].ev = k /\ q[1].m = m

LEMMA AppendGrows ==
  ASSUME NEW q \in Seq(EventRecords), NEW e \in EventRecords
  PROVE  Grows(q, Append(q, e), e)
<1> DEFINE r == Append(q, e)
           n == Len(q) + 1
<1>1. /\ r \in Seq(EventRecords) /\ Len(r) = n
      /\ \A i \in 1 .. Len(q) : r[i] = q[i]
      /\ r[n] = e
  BY AppendSeq
<1>2. DOMAIN r = 1 .. n /\ DOMAIN q = 1 .. Len(q) /\ Len(q) \in Nat
  BY <1>1
<1>3. n = Len(q) + 1
  OBVIOUS
<1> HIDE DEF r, n
<1>4. \A i \in DOMAIN q : i \in DOMAIN r /\ r[i] = q[i]
  BY <1>1, <1>2, <1>3
<1>5. /\ n \in DOMAIN r /\ r[n] = e
      /\ \A i \in DOMAIN r : i \in DOMAIN q \/ i = n
      /\ \A i \in DOMAIN q : i < n
  BY <1>1, <1>2, <1>3
<1>6. DOMAIN r \subseteq Nat /\ DOMAIN q \subseteq Nat
  BY <1>2, <1>3
<1>7. Grows(q, r, e)
  BY <1>1, <1>4, <1>5, <1>6 DEF Grows
<1> QED BY <1>7 DEF r

LEMMA TailShrinks ==
  ASSUME NEW q \in Seq(EventRecords), q # <<>>
  PROVE  Shrinks(q, Tail(q)) /\ q[1] = Head(q) /\ Head(q) \in EventRecords
<1> DEFINE r == Tail(q)
<1>1. /\ r \in Seq(EventRecords) /\ Head(q) \in EventRecords /\ Len(r) = Len(q) - 1
      /\ \A i \in 1 .. Len(q) - 1 : r[i] = q[i + 1]
  BY TailSeq
<1>2. /\ DOMAIN r = 1 .. Len(q) - 1 /\ DOMAIN q = 1 .. Len(q) /\ Len(q) \in Nat /\ Len(q) # 0
      /\ q[1] = Head(q)
  BY <1>1
<1> HIDE DEF r
<1>3. \A i \in 1 .. Len(q) : i # 1 => i - 1 \in 1 .. Len(q) - 1 /\ i = (i - 1) + 1 /\ i > 1
  BY <1>2
<1>4. Shrinks(q, r)
  BY <1>1, <1>2, <1>3 DEF Shrinks
<1> QED BY <1>1, <1>2, <1>4 DEF r

(* Callbacks the services thread has nothing to do with. *)
LEMMA CustodyPost ==
  ASSUME NEW sq \in Seq(EventRecords), NEW h \in SUBSET Message, NEW q \in Seq(EventRecords),
         NEW L \in SUBSET Message, NEW e \in EventRecords, NEW r, Grows(q, r, e),
         e.ev \notin {"complete", "progress"}, InCustody(sq, h, q, L)
  PROVE  InCustody(sq, h, r, L)
<1>1. /\ r \in Seq(EventRecords)
      /\ \A i \in DOMAIN q : i \in DOMAIN r /\ r[i] = q[i]
      /\ \A i \in DOMAIN r : i \in DOMAIN q \/ r[i].ev \notin {"complete", "progress"}
  BY DEF Grows
<1>2. "complete" \in Events
  BY DEF Events
<1>3. \A m \in Message : Holds(r, "complete", m) <=> Holds(q, "complete", m)
  BY <1>1, <1>2, HoldsOf
<1>4. \A i \in DOMAIN sq : sq[i].m \in Message
  BY EventFields
<1>5. Once(r, "complete")
  BY <1>1 DEF InCustody, Once
<1>6. \A i \in DOMAIN r : r[i].ev = "progress" =>
        r[i].m \in h \/ \E j \in DOMAIN r : j > i /\ r[j] = Event("complete", r[i].m)
  BY <1>1 DEF InCustody
<1> QED BY <1>1, <1>3, <1>4, <1>5, <1>6 DEF InCustody

LEMMA CustodyTake ==
  ASSUME NEW sq \in Seq(EventRecords), NEW h \in SUBSET Message, NEW q \in Seq(EventRecords),
         NEW L \in SUBSET Message, NEW r, Shrinks(q, r),
         q[1].ev # "complete", InCustody(sq, h, q, L)
  PROVE  InCustody(sq, h, r, L)
<1>1. /\ r \in Seq(EventRecords) /\ DOMAIN r \subseteq Nat /\ DOMAIN q \subseteq Nat
      /\ q[1].ev # "complete"
      /\ \A i \in DOMAIN r : i + 1 \in DOMAIN q /\ r[i] = q[i + 1] /\ i + 1 # 1
      /\ \A i \in DOMAIN q : i # 1 => i - 1 \in DOMAIN r /\ r[i - 1] = q[i]
  BY DEF Shrinks
<1>2. "complete" \in Events
  BY DEF Events
<1>3. \A m \in Message : Holds(r, "complete", m) <=> Holds(q, "complete", m)
  <2> TAKE n \in Message
  <2>1. Event("complete", n).ev = "complete"
    BY <1>2, EventOf
  <2>2. ASSUME NEW i \in DOMAIN r, r[i] = Event("complete", n) PROVE Holds(q, "complete", n)
    BY <1>1, <2>2 DEF Holds
  <2>3. ASSUME NEW i \in DOMAIN q, q[i] = Event("complete", n) PROVE Holds(r, "complete", n)
    BY <1>1, <2>1, <2>3 DEF Holds
  <2> QED BY <2>2, <2>3 DEF Holds
<1>4. \A i \in DOMAIN sq : sq[i].m \in Message
  BY EventFields
<1>5. Once(r, "complete")
  BY <1>1 DEF InCustody, Once
<1>6. ASSUME NEW i \in DOMAIN r, r[i].ev = "progress"
      PROVE  r[i].m \in h \/ \E j \in DOMAIN r : j > i /\ r[j] = Event("complete", r[i].m)
  <2>1. CASE r[i].m \notin h
    <3>1. PICK j \in DOMAIN q : j > i + 1 /\ q[j] = Event("complete", r[i].m)
      BY <1>1, <1>6, <2>1 DEF InCustody
    <3>2. j # 1 /\ j - 1 > i
      BY <1>1, <3>1
    <3> QED BY <1>1, <3>1, <3>2
  <2> QED BY <2>1
<1>7. \A i \in DOMAIN r : r[i].ev = "complete" => r[i].m \in L
  BY <1>1 DEF InCustody
<1> QED BY <1>3, <1>4, <1>5, <1>6, <1>7 DEF InCustody

(* A completion is delivered: the services thread is done with m. *)
LEMMA CustodyComplete ==
  ASSUME NEW sq \in Seq(EventRecords), NEW h \in SUBSET Message, NEW q \in Seq(EventRecords),
         NEW L \in SUBSET Message, NEW r, Shrinks(q, r), NEW m \in Message,
         First(q, "complete", m), InCustody(sq, h, q, L)
  PROVE  m \in L /\ InCustody(sq, h, r, L \ {m})
<1>0. "complete" \in Events /\ "invoke" \in Events
  BY DEF Events
<1>1. /\ r \in Seq(EventRecords) /\ DOMAIN r \subseteq Nat /\ DOMAIN q \subseteq Nat
      /\ \A i \in DOMAIN r : i + 1 \in DOMAIN q /\ r[i] = q[i + 1] /\ i + 1 # 1
      /\ \A i \in DOMAIN q : i # 1 => i - 1 \in DOMAIN r /\ r[i - 1] = q[i]
  BY DEF Shrinks
<1>b. 1 \in DOMAIN q
  BY DEF Shrinks
<1>a. q[1] = Event("complete", m) /\ q[1].ev = "complete" /\ q[1].m = m
  <2>1. q[1] \in EventRecords
    BY <1>b, EventFields
  <2> QED BY <2>1, EventEqual DEF First
<1>2. m \in L /\ Holds(q, "complete", m)
  BY <1>1, <1>b, <1>a DEF InCustody, Holds
<1>3. ASSUME NEW n \in Message, n # m PROVE Holds(r, "complete", n) <=> Holds(q, "complete", n)
  <2>1. Event("complete", n).m = n
    BY <1>0, EventOf
  <2>2. ASSUME NEW i \in DOMAIN r, r[i] = Event("complete", n) PROVE Holds(q, "complete", n)
    BY <1>1, <2>2 DEF Holds
  <2>3. ASSUME NEW i \in DOMAIN q, q[i] = Event("complete", n) PROVE Holds(r, "complete", n)
    BY <1>1, <1>b, <1>a, <1>3, <2>1, <2>3 DEF Holds
  <2> QED BY <2>2, <2>3 DEF Holds
<1>4. \A i \in DOMAIN r : r[i].ev = "complete" => r[i].m # m
  <2> SUFFICES ASSUME NEW i \in DOMAIN r, r[i].ev = "complete", r[i].m = m PROVE FALSE
    OBVIOUS
  <2>1. i + 1 \in DOMAIN q /\ q[i + 1] = r[i] /\ i + 1 # 1
    BY <1>1
  <2>2. q[i + 1] \in EventRecords
    BY <2>1, EventFields
  <2>3. q[i + 1] = Event("complete", m)
    BY <2>1, <2>2, EventEqual
  <2> QED BY <1>1, <1>b, <1>a, <2>1, <2>3 DEF InCustody, Once
<1>5. \A i \in DOMAIN sq : sq[i].m \in Message
  BY EventFields
<1>6. m \notin h /\ \A i \in DOMAIN sq : sq[i].ev = "invoke" => sq[i].m # m
  BY <1>2 DEF InCustody
<1>7. Once(r, "complete")
  BY <1>1 DEF InCustody, Once
<1>8. ASSUME NEW i \in DOMAIN r, r[i].ev = "progress"
      PROVE  r[i].m \in h \/ \E j \in DOMAIN r : j > i /\ r[j] = Event("complete", r[i].m)
  <2>1. CASE r[i].m \notin h
    <3>1. PICK j \in DOMAIN q : j > i + 1 /\ q[j] = Event("complete", r[i].m)
      BY <1>1, <1>8, <2>1 DEF InCustody
    <3>2. j # 1 /\ j - 1 > i
      BY <1>1, <3>1
    <3> QED BY <1>1, <3>1, <3>2
  <2> QED BY <2>1
<1>9. \A i \in DOMAIN r : r[i].ev = "complete" => r[i].m \in L \ {m}
  BY <1>1, <1>4 DEF InCustody
<1>10. \A n \in L \ {m} : Holds(sq, "invoke", n) \/ n \in h \/ Holds(r, "complete", n)
  BY <1>3 DEF InCustody
<1>11. \A n \in h : n \in L \ {m} /\ ~Holds(sq, "invoke", n) /\ ~Holds(r, "complete", n)
  BY <1>3, <1>6 DEF InCustody
<1>12. \A i \in DOMAIN sq : sq[i].ev = "invoke" =>
         sq[i].m \in L \ {m} /\ ~Holds(r, "complete", sq[i].m)
  BY <1>3, <1>5, <1>6 DEF InCustody
<1>13. Once(sq, "invoke")
  BY DEF InCustody
<1> QED BY <1>2, <1>7, <1>8, <1>9, <1>10, <1>11, <1>12, <1>13 DEF InCustody

(* The shell posts to the services thread. *)
LEMMA CustodyCancel ==
  ASSUME NEW sq \in Seq(EventRecords), NEW h \in SUBSET Message, NEW q \in Seq(EventRecords),
         NEW L \in SUBSET Message, NEW e \in EventRecords, NEW r, Grows(sq, r, e),
         e.ev = "cancel", InCustody(sq, h, q, L)
  PROVE  InCustody(r, h, q, L)
<1>1. /\ r \in Seq(EventRecords)
      /\ \A i \in DOMAIN sq : i \in DOMAIN r /\ r[i] = sq[i]
      /\ \A i \in DOMAIN r : i \in DOMAIN sq \/ r[i].ev = "cancel"
  BY DEF Grows
<1>2. "invoke" \in Events
  BY DEF Events
<1>3. \A m \in Message : Holds(r, "invoke", m) <=> Holds(sq, "invoke", m)
  BY <1>1, <1>2, HoldsOf
<1>4. Once(r, "invoke")
  BY <1>1 DEF InCustody, Once
<1>5. \A i \in DOMAIN r : r[i].ev = "invoke" => r[i].m \in L /\ ~Holds(q, "complete", r[i].m)
  BY <1>1 DEF InCustody
<1> QED BY <1>3, <1>4, <1>5 DEF InCustody

LEMMA CustodyGive ==
  ASSUME NEW sq \in Seq(EventRecords), NEW h \in SUBSET Message, NEW q \in Seq(EventRecords),
         NEW L \in SUBSET Message, NEW m \in Message, NEW r, Grows(sq, r, Event("invoke", m)),
         m \notin L, InCustody(sq, h, q, L)
  PROVE  InCustody(r, h, q, L \union {m})
<1>0. "invoke" \in Events /\ "complete" \in Events
  BY DEF Events
<1> DEFINE e == Event("invoke", m)
<1>e. e \in EventRecords /\ e.ev = "invoke" /\ e.m = m
  BY <1>0, EventOf
<1>1. PICK n \in DOMAIN r :
        /\ r[n] = e
        /\ \A i \in DOMAIN r : i \in DOMAIN sq \/ i = n
        /\ \A i \in DOMAIN sq : i < n
  BY DEF Grows
<1>2. /\ r \in Seq(EventRecords) /\ DOMAIN r \subseteq Nat
      /\ \A i \in DOMAIN sq : i \in DOMAIN r /\ r[i] = sq[i]
  BY DEF Grows
<1> HIDE DEF e
<1>3. ASSUME NEW x \in Message, x # m PROVE Holds(r, "invoke", x) <=> Holds(sq, "invoke", x)
  <2>1. Event("invoke", x).m = x
    BY <1>0, EventOf
  <2>2. ASSUME NEW i \in DOMAIN r, r[i] = Event("invoke", x) PROVE Holds(sq, "invoke", x)
    BY <1>1, <1>2, <1>e, <1>3, <2>1, <2>2 DEF Holds
  <2>3. ASSUME NEW i \in DOMAIN sq, sq[i] = Event("invoke", x) PROVE Holds(r, "invoke", x)
    BY <1>2, <2>3 DEF Holds
  <2> QED BY <2>2, <2>3 DEF Holds
<1>4. Holds(r, "invoke", m)
  BY <1>1 DEF Holds, e
<1>5. /\ m \notin h /\ ~Holds(q, "complete", m)
      /\ \A i \in DOMAIN sq : sq[i].ev = "invoke" => sq[i].m # m
  <2>1. ~Holds(q, "complete", m)
    BY <1>0, HoldsOf DEF InCustody
  <2> QED BY <2>1 DEF InCustody
<1>6. Once(r, "invoke")
  <2> SUFFICES ASSUME NEW i \in DOMAIN r, NEW j \in DOMAIN r, r[i].ev = "invoke", r[j] = r[i]
               PROVE  i = j
    BY DEF Once
  <2>1. CASE i \in DOMAIN sq /\ j \in DOMAIN sq
    BY <1>2, <2>1 DEF InCustody, Once
  <2>2. CASE i \notin DOMAIN sq /\ j \notin DOMAIN sq
    BY <1>1, <2>2
  <2>3. CASE i \in DOMAIN sq /\ j \notin DOMAIN sq
    BY <1>1, <1>2, <1>5, <1>e, <2>3
  <2>4. CASE i \notin DOMAIN sq /\ j \in DOMAIN sq
    BY <1>1, <1>2, <1>5, <1>e, <2>4
  <2> QED BY <2>1, <2>2, <2>3, <2>4
<1>7. \A i \in DOMAIN r : r[i].ev = "invoke" =>
        r[i].m \in L \union {m} /\ ~Holds(q, "complete", r[i].m)
  BY <1>1, <1>2, <1>5, <1>e DEF InCustody
<1>8. \A x \in L \union {m} : Holds(r, "invoke", x) \/ x \in h \/ Holds(q, "complete", x)
  BY <1>3, <1>4 DEF InCustody
<1>9. \A x \in h : x \in L \union {m} /\ ~Holds(r, "invoke", x) /\ ~Holds(q, "complete", x)
  BY <1>3, <1>5 DEF InCustody
<1> QED BY <1>6, <1>7, <1>8, <1>9 DEF InCustody

(* The services thread takes a callback. *)
LEMMA CustodySkip ==
  ASSUME NEW sq \in Seq(EventRecords), NEW h \in SUBSET Message, NEW q \in Seq(EventRecords),
         NEW L \in SUBSET Message, NEW r, Shrinks(sq, r), sq[1].ev # "invoke",
         InCustody(sq, h, q, L)
  PROVE  InCustody(r, h, q, L)
<1>1. /\ r \in Seq(EventRecords) /\ DOMAIN r \subseteq Nat /\ DOMAIN sq \subseteq Nat
      /\ \A i \in DOMAIN r : i + 1 \in DOMAIN sq /\ r[i] = sq[i + 1] /\ i + 1 # 1
      /\ \A i \in DOMAIN sq : i # 1 => i - 1 \in DOMAIN r /\ r[i - 1] = sq[i]
  BY DEF Shrinks
<1>2. "invoke" \in Events
  BY DEF Events
<1>3. \A m \in Message : Holds(r, "invoke", m) <=> Holds(sq, "invoke", m)
  <2> TAKE n \in Message
  <2>1. Event("invoke", n).ev = "invoke"
    BY <1>2, EventOf
  <2>2. ASSUME NEW i \in DOMAIN r, r[i] = Event("invoke", n) PROVE Holds(sq, "invoke", n)
    BY <1>1, <2>2 DEF Holds
  <2>3. ASSUME NEW i \in DOMAIN sq, sq[i] = Event("invoke", n) PROVE Holds(r, "invoke", n)
    BY <1>1, <2>1, <2>3 DEF Holds
  <2> QED BY <2>2, <2>3 DEF Holds
<1>4. Once(r, "invoke")
  BY <1>1 DEF InCustody, Once
<1>5. \A i \in DOMAIN r : r[i].ev = "invoke" => r[i].m \in L /\ ~Holds(q, "complete", r[i].m)
  BY <1>1 DEF InCustody
<1> QED BY <1>3, <1>4, <1>5 DEF InCustody

(* m is out of the queue of the services thread, and nowhere else. *)
Between(sq, h, q, L, m) ==
  /\ m \in L /\ m \notin h /\ ~Holds(sq, "invoke", m) /\ ~Holds(q, "complete", m)
  /\ \A i \in DOMAIN q : q[i].ev = "progress" => q[i].m # m
  /\ InCustody(sq, h, q, L \ {m})

LEMMA CustodyOut ==
  ASSUME NEW sq \in Seq(EventRecords), NEW h \in SUBSET Message, NEW q \in Seq(EventRecords),
         NEW L \in SUBSET Message, NEW r, Shrinks(sq, r), NEW m \in Message,
         First(sq, "invoke", m), InCustody(sq, h, q, L)
  PROVE  Between(r, h, q, L, m)
<1>0. "invoke" \in Events /\ "complete" \in Events
  BY DEF Events
<1>1. /\ r \in Seq(EventRecords) /\ DOMAIN r \subseteq Nat /\ DOMAIN sq \subseteq Nat
      /\ \A i \in DOMAIN r : i + 1 \in DOMAIN sq /\ r[i] = sq[i + 1] /\ i + 1 # 1
      /\ \A i \in DOMAIN sq : i # 1 => i - 1 \in DOMAIN r /\ r[i - 1] = sq[i]
  BY DEF Shrinks
<1>b. 1 \in DOMAIN sq
  BY DEF Shrinks
<1>a. sq[1] = Event("invoke", m) /\ sq[1].ev = "invoke" /\ sq[1].m = m
  <2>1. sq[1] \in EventRecords
    BY <1>b, EventFields
  <2> QED BY <2>1, EventEqual DEF First
<1>2. m \in L /\ Holds(sq, "invoke", m) /\ ~Holds(q, "complete", m)
  BY <1>a, <1>b DEF InCustody, Holds
<1>3. m \notin h
  BY <1>2 DEF InCustody
<1>4. ASSUME NEW n \in Message, n # m PROVE Holds(r, "invoke", n) <=> Holds(sq, "invoke", n)
  <2>1. Event("invoke", n).m = n
    BY <1>0, EventOf
  <2>2. ASSUME NEW i \in DOMAIN r, r[i] = Event("invoke", n) PROVE Holds(sq, "invoke", n)
    BY <1>1, <2>2 DEF Holds
  <2>3. ASSUME NEW i \in DOMAIN sq, sq[i] = Event("invoke", n) PROVE Holds(r, "invoke", n)
    BY <1>1, <1>a, <1>4, <2>1, <2>3 DEF Holds
  <2> QED BY <2>2, <2>3 DEF Holds
<1>5. \A i \in DOMAIN r : r[i].ev = "invoke" => r[i].m # m
  <2> SUFFICES ASSUME NEW i \in DOMAIN r, r[i].ev = "invoke", r[i].m = m PROVE FALSE
    OBVIOUS
  <2>1. i + 1 \in DOMAIN sq /\ sq[i + 1] = r[i] /\ i + 1 # 1
    BY <1>1
  <2>2. sq[i + 1] \in EventRecords
    BY <2>1, EventFields
  <2>3. sq[i + 1] = Event("invoke", m)
    BY <2>1, <2>2, EventEqual
  <2> QED BY <1>1, <1>b, <1>a, <2>1, <2>3 DEF InCustody, Once
<1>6. ~Holds(r, "invoke", m)
  BY <1>0, <1>1, <1>5, HoldsOf
<1>7. Once(r, "invoke")
  BY <1>1 DEF InCustody, Once
<1>8. \A i \in DOMAIN r : r[i].ev = "invoke" =>
        r[i].m \in L \ {m} /\ ~Holds(q, "complete", r[i].m)
  BY <1>1, <1>5 DEF InCustody
<1>9. \A x \in L \ {m} : Holds(r, "invoke", x) \/ x \in h \/ Holds(q, "complete", x)
  BY <1>4 DEF InCustody
<1>10. \A x \in h : x \in L \ {m} /\ ~Holds(r, "invoke", x) /\ ~Holds(q, "complete", x)
  BY <1>3, <1>4 DEF InCustody
<1>11. \A i \in DOMAIN q : q[i].ev = "complete" => q[i].m # m
  BY <1>0, <1>2, HoldsOf
<1>12. \A i \in DOMAIN q : q[i].ev = "progress" => q[i].m # m
  <2> SUFFICES ASSUME NEW i \in DOMAIN q, q[i].ev = "progress", q[i].m = m PROVE FALSE
    OBVIOUS
  <2>1. PICK j \in DOMAIN q : q[j] = Event("complete", m)
    BY <1>3 DEF InCustody
  <2> QED BY <1>2, <2>1 DEF Holds
<1>13. \A i \in DOMAIN q : q[i].ev = "complete" => q[i].m \in L \ {m}
  BY <1>11 DEF InCustody
<1>14. InCustody(r, h, q, L \ {m})
  BY <1>7, <1>8, <1>9, <1>10, <1>13 DEF InCustody
<1> QED BY <1>2, <1>3, <1>6, <1>12, <1>14 DEF Between

LEMMA CustodyHold ==
  ASSUME NEW sq \in Seq(EventRecords), NEW h \in SUBSET Message, NEW q \in Seq(EventRecords),
         NEW L \in SUBSET Message, NEW m \in Message, Between(sq, h, q, L, m)
  PROVE  InCustody(sq, h \union {m}, q, L)
<1>1. L = (L \ {m}) \union {m}
  BY DEF Between
<1>2. \A x \in L : Holds(sq, "invoke", x) \/ x \in h \union {m} \/ Holds(q, "complete", x)
  BY DEF Between, InCustody
<1>3. \A x \in h \union {m} : x \in L /\ ~Holds(sq, "invoke", x) /\ ~Holds(q, "complete", x)
  BY DEF Between, InCustody
<1> QED BY <1>2, <1>3 DEF Between, InCustody

LEMMA CustodyAnswer ==
  ASSUME NEW sq \in Seq(EventRecords), NEW h \in SUBSET Message, NEW q \in Seq(EventRecords),
         NEW L \in SUBSET Message, NEW m \in Message, Between(sq, h, q, L, m),
         NEW r, Grows(q, r, Event("complete", m))
  PROVE  InCustody(sq, h, r, L)
<1>0. "invoke" \in Events /\ "complete" \in Events
  BY DEF Events
<1> DEFINE e == Event("complete", m)
<1>e. e \in EventRecords /\ e.ev = "complete" /\ e.m = m
  BY <1>0, EventOf
<1>1. PICK n \in DOMAIN r :
        /\ r[n] = e
        /\ \A i \in DOMAIN r : i \in DOMAIN q \/ i = n
        /\ \A i \in DOMAIN q : i < n
  BY DEF Grows
<1>2. /\ r \in Seq(EventRecords) /\ DOMAIN r \subseteq Nat
      /\ \A i \in DOMAIN q : i \in DOMAIN r /\ r[i] = q[i]
  BY DEF Grows
<1> HIDE DEF e
<1>i. InCustody(sq, h, q, L \ {m}) /\ m \in L /\ m \notin h /\ ~Holds(sq, "invoke", m)
      /\ ~Holds(q, "complete", m)
  BY DEF Between
<1>3. \A x \in Message : x # m => (Holds(r, "complete", x) <=> Holds(q, "complete", x))
  BY <1>0, <1>1, <1>2, <1>e, HoldsOf
<1>4. Holds(r, "complete", m)
  BY <1>1 DEF Holds, e
<1>5. \A i \in DOMAIN q : q[i].ev = "complete" => q[i].m # m
  BY <1>0, <1>i, HoldsOf
<1>6. Once(r, "complete")
  <2> SUFFICES ASSUME NEW i \in DOMAIN r, NEW j \in DOMAIN r, r[i].ev = "complete", r[j] = r[i]
               PROVE  i = j
    BY DEF Once
  <2>1. CASE i \in DOMAIN q /\ j \in DOMAIN q
    BY <1>2, <1>i, <2>1 DEF InCustody, Once
  <2>2. CASE i \notin DOMAIN q /\ j \notin DOMAIN q
    BY <1>1, <2>2
  <2>3. CASE i \in DOMAIN q /\ j \notin DOMAIN q
    BY <1>1, <1>2, <1>5, <1>e, <2>3
  <2>4. CASE i \notin DOMAIN q /\ j \in DOMAIN q
    BY <1>1, <1>2, <1>5, <1>e, <2>4
  <2> QED BY <2>1, <2>2, <2>3, <2>4
<1>7. \A i \in DOMAIN r : r[i].ev = "complete" => r[i].m \in L
  BY <1>1, <1>2, <1>i, <1>e DEF InCustody
<1>8. \A i \in DOMAIN sq : sq[i].ev = "invoke" => sq[i].m \in L /\ ~Holds(r, "complete", sq[i].m)
  BY <1>3, <1>i DEF InCustody
<1>9. \A x \in L : Holds(sq, "invoke", x) \/ x \in h \/ Holds(r, "complete", x)
  BY <1>3, <1>4, <1>i DEF InCustody
<1>10. \A x \in h : x \in L /\ ~Holds(sq, "invoke", x) /\ ~Holds(r, "complete", x)
  BY <1>3, <1>i DEF InCustody
<1>11. \A i \in DOMAIN r : r[i].ev = "progress" =>
         r[i].m \in h \/ \E j \in DOMAIN r : j > i /\ r[j] = Event("complete", r[i].m)
  BY <1>1, <1>2, <1>i, <1>e DEF InCustody
<1>12. Once(sq, "invoke")
  BY <1>i DEF InCustody
<1> QED BY <1>6, <1>7, <1>8, <1>9, <1>10, <1>11, <1>12 DEF InCustody

(* A service reports progress, and is done. *)
LEMMA CustodyProgress ==
  ASSUME NEW sq \in Seq(EventRecords), NEW h \in SUBSET Message, NEW q \in Seq(EventRecords),
         NEW L \in SUBSET Message, NEW m \in h, NEW r, Grows(q, r, Event("progress", m)),
         InCustody(sq, h, q, L)
  PROVE  InCustody(sq, h, r, L)
<1>0. "progress" \in Events /\ "complete" \in Events /\ m \in Message
  BY DEF Events
<1> DEFINE e == Event("progress", m)
<1>e. e \in EventRecords /\ e.ev = "progress" /\ e.m = m
  BY <1>0, EventOf
<1>1. /\ r \in Seq(EventRecords)
      /\ \A i \in DOMAIN q : i \in DOMAIN r /\ r[i] = q[i]
      /\ \A i \in DOMAIN r : i \in DOMAIN q \/ (r[i].ev = "progress" /\ r[i].m = m)
  BY <1>e DEF Grows
<1> HIDE DEF e
<1>3. \A x \in Message : Holds(r, "complete", x) <=> Holds(q, "complete", x)
  BY <1>0, <1>1, HoldsOf
<1>4. \A i \in DOMAIN sq : sq[i].m \in Message
  BY EventFields
<1>5. Once(r, "complete")
  BY <1>1 DEF InCustody, Once
<1>6. \A i \in DOMAIN r : r[i].ev = "progress" =>
        r[i].m \in h \/ \E j \in DOMAIN r : j > i /\ r[j] = Event("complete", r[i].m)
  BY <1>1 DEF InCustody
<1>7. \A i \in DOMAIN r : r[i].ev = "complete" => r[i].m \in L
  BY <1>1 DEF InCustody
<1> QED BY <1>3, <1>4, <1>5, <1>6, <1>7 DEF InCustody

LEMMA CustodyFinish ==
  ASSUME NEW sq \in Seq(EventRecords), NEW h \in SUBSET Message, NEW q \in Seq(EventRecords),
         NEW L \in SUBSET Message, NEW m \in h, NEW r, Grows(q, r, Event("complete", m)),
         InCustody(sq, h, q, L)
  PROVE  InCustody(sq, h \ {m}, r, L)
<1>0. "invoke" \in Events /\ "complete" \in Events /\ m \in Message
  BY DEF Events
<1> DEFINE e == Event("complete", m)
<1>e. e \in EventRecords /\ e.ev = "complete" /\ e.m = m
  BY <1>0, EventOf
<1>1. PICK n \in DOMAIN r :
        /\ r[n] = e
        /\ \A i \in DOMAIN r : i \in DOMAIN q \/ i = n
        /\ \A i \in DOMAIN q : i < n
  BY DEF Grows
<1>2. /\ r \in Seq(EventRecords) /\ DOMAIN r \subseteq Nat
      /\ \A i \in DOMAIN q : i \in DOMAIN r /\ r[i] = q[i]
  BY DEF Grows
<1> HIDE DEF e
<1>i. m \in L /\ ~Holds(sq, "invoke", m) /\ ~Holds(q, "complete", m)
  BY DEF InCustody
<1>3. ASSUME NEW x \in Message, x # m PROVE Holds(r, "complete", x) <=> Holds(q, "complete", x)
  <2>1. Event("complete", x).m = x
    BY <1>0, EventOf
  <2>2. ASSUME NEW i \in DOMAIN r, r[i] = Event("complete", x) PROVE Holds(q, "complete", x)
    BY <1>1, <1>2, <1>e, <1>3, <2>1, <2>2 DEF Holds
  <2>3. ASSUME NEW i \in DOMAIN q, q[i] = Event("complete", x) PROVE Holds(r, "complete", x)
    BY <1>2, <2>3 DEF Holds
  <2> QED BY <2>2, <2>3 DEF Holds
<1>4. Holds(r, "complete", m)
  BY <1>1 DEF Holds, e
<1>5. \A i \in DOMAIN q : q[i].ev = "complete" => q[i].m # m
  BY <1>0, <1>i, HoldsOf
<1>s. \A i \in DOMAIN sq : sq[i].m \in Message /\ (sq[i].ev = "invoke" => sq[i].m # m)
  BY <1>0, <1>i, HoldsOf, EventFields
<1>6. Once(r, "complete")
  <2> SUFFICES ASSUME NEW i \in DOMAIN r, NEW j \in DOMAIN r, r[i].ev = "complete", r[j] = r[i]
               PROVE  i = j
    BY DEF Once
  <2>1. CASE i \in DOMAIN q /\ j \in DOMAIN q
    BY <1>2, <2>1 DEF InCustody, Once
  <2>2. CASE i \notin DOMAIN q /\ j \notin DOMAIN q
    BY <1>1, <2>2
  <2>3. CASE i \in DOMAIN q /\ j \notin DOMAIN q
    BY <1>1, <1>2, <1>5, <1>e, <2>3
  <2>4. CASE i \notin DOMAIN q /\ j \in DOMAIN q
    BY <1>1, <1>2, <1>5, <1>e, <2>4
  <2> QED BY <2>1, <2>2, <2>3, <2>4
<1>7. \A i \in DOMAIN r : r[i].ev = "complete" => r[i].m \in L
  BY <1>1, <1>2, <1>i, <1>e DEF InCustody
<1>8. \A i \in DOMAIN sq : sq[i].ev = "invoke" => sq[i].m \in L /\ ~Holds(r, "complete", sq[i].m)
  BY <1>3, <1>s DEF InCustody
<1>9. \A x \in L : Holds(sq, "invoke", x) \/ x \in h \ {m} \/ Holds(r, "complete", x)
  BY <1>3, <1>4, <1>i DEF InCustody
<1>10. \A x \in h \ {m} : x \in L /\ ~Holds(sq, "invoke", x) /\ ~Holds(r, "complete", x)
  BY <1>3 DEF InCustody
<1>11. ASSUME NEW i \in DOMAIN r, r[i].ev = "progress"
       PROVE  r[i].m \in h \ {m} \/ \E j \in DOMAIN r : j > i /\ r[j] = Event("complete", r[i].m)
  <2>1. i \in DOMAIN q /\ r[i] = q[i]
    BY <1>1, <1>2, <1>e, <1>11
  <2>2. CASE r[i].m = m
    BY <1>1, <2>1, <2>2 DEF e
  <2>3. CASE r[i].m # m
    BY <1>2, <1>11, <2>1, <2>3 DEF InCustody
  <2> QED BY <2>2, <2>3
<1>12. Once(sq, "invoke")
  BY DEF InCustody
<1> QED BY <1>6, <1>7, <1>8, <1>9, <1>10, <1>11, <1>12 DEF InCustody

-----------------------------------------------------------------------------
(* What steps leave of Extra when they change little of it.                 *)

LEMMA ServiceStays ==
  ASSUME TypeOK, InvService, Listed' = Listed, held' = held,
         \/ serviceQ' = serviceQ
         \/ \E m \in Message : serviceQ' = Append(serviceQ, Event("cancel", m)),
         \/ shellQ' = shellQ
         \/ \E m \in Message, k \in Counted : shellQ' = Append(shellQ, Event(k, m))
         \/ shellQ # <<>> /\ Head(shellQ).ev # "complete" /\ shellQ' = Tail(shellQ)
  PROVE  InvService'
<1>0. /\ serviceQ \in Seq(EventRecords) /\ shellQ \in Seq(EventRecords)
      /\ held \in SUBSET Message /\ Listed \in SUBSET Message
      /\ InCustody(serviceQ, held, shellQ, Listed)
  BY DEF TypeOK, InvService, Listed
<1>1. InCustody(serviceQ', held, shellQ, Listed) /\ serviceQ' \in Seq(EventRecords)
  <2>1. CASE serviceQ' = serviceQ
    BY <1>0, <2>1
  <2>2. CASE \E m \in Message : serviceQ' = Append(serviceQ, Event("cancel", m))
    <3>1. PICK m \in Message : serviceQ' = Append(serviceQ, Event("cancel", m))
      BY <2>2
    <3>2. Event("cancel", m) \in EventRecords /\ Event("cancel", m).ev = "cancel"
      BY EventOf DEF Events
    <3>3. Grows(serviceQ, serviceQ', Event("cancel", m))
      BY <1>0, <3>1, <3>2, AppendGrows
    <3> QED BY <1>0, <3>2, <3>3, CustodyCancel DEF Grows
  <2> QED BY <2>1, <2>2
<1>2. InCustody(serviceQ', held, shellQ', Listed)
  <2>1. CASE shellQ' = shellQ
    BY <1>1, <2>1
  <2>2. CASE \E m \in Message, k \in Counted : shellQ' = Append(shellQ, Event(k, m))
    <3>1. PICK m \in Message, k \in Counted : shellQ' = Append(shellQ, Event(k, m))
      BY <2>2
    <3>2. k \in Events /\ k \notin {"complete", "progress"}
      BY DEF Counted, Events
    <3>3. Event(k, m) \in EventRecords /\ Event(k, m).ev \notin {"complete", "progress"}
      BY <3>2, EventOf
    <3>4. Grows(shellQ, shellQ', Event(k, m))
      BY <1>0, <3>1, <3>3, AppendGrows
    <3> QED BY <1>0, <1>1, <3>3, <3>4, CustodyPost
  <2>3. CASE shellQ # <<>> /\ Head(shellQ).ev # "complete" /\ shellQ' = Tail(shellQ)
    <3>1. Shrinks(shellQ, shellQ') /\ shellQ[1].ev # "complete"
      BY <1>0, <2>3, TailShrinks
    <3> QED BY <1>0, <1>1, <3>1, CustodyTake
  <2> QED BY <2>1, <2>2, <2>3
<1> QED BY <1>2 DEF InvService

LEMMA ServiceGiven ==
  ASSUME TypeOK, InvService, NEW m \in Message, m \notin Listed, Listed' = Listed \union {m},
         held' = held, shellQ' = shellQ, serviceQ' = Append(serviceQ, Event("invoke", m))
  PROVE  InvService'
<1>0. /\ serviceQ \in Seq(EventRecords) /\ shellQ \in Seq(EventRecords)
      /\ held \in SUBSET Message /\ Listed \in SUBSET Message
      /\ InCustody(serviceQ, held, shellQ, Listed)
  BY DEF TypeOK, InvService, Listed
<1>1. Event("invoke", m) \in EventRecords
  BY EventOf DEF Events
<1>2. Grows(serviceQ, serviceQ', Event("invoke", m))
  BY <1>0, <1>1, AppendGrows
<1>3. InCustody(serviceQ', held, shellQ, Listed \union {m})
  BY <1>0, <1>2, CustodyGive
<1> QED BY <1>3 DEF InvService

(* A callback of m is posted by the shell: to its own queue or to the       *)
(* services thread.                                                         *)
LEMMA PostForms ==
  ASSUME NEW m \in Message, NEW s \in Schemes, NEW k \in Counted, NEW q, NEW r
  PROVE  /\ \/ PostShell(q, m, s, k) = q
            \/ \E n \in Message, j \in Counted : PostShell(q, m, s, k) = Append(q, Event(j, n))
         /\ s # "http" => PostService(r, m, s, k) = r
         /\ s = "http" => /\ PostShell(q, m, s, k) = q
                          /\ PostService(r, m, s, k) = Append(r, Event(k, m))
  BY DEF PostShell, PostService

(* Frames stay, or some of them return. *)
LEMMA CallsKeep ==
  ASSUME Core, Core', InvCalls,
         Len(stack') <= Len(stack),
         \A i \in DOMAIN stack' : i \in DOMAIN stack /\ stack'[i] = stack[i],
         \A i \in DOMAIN stack' : stack'[i].at \in {"complete", "cleanup"} =>
           request'[stack'[i].m] = request[stack'[i].m],
         \A i \in DOMAIN stack' : stack'[i].at = "progress" /\ ~stack'[i].script =>
           alive'[stack'[i].m] = alive[stack'[i].m]
  PROVE  InvCalls'
<1>0. TypeOK /\ InvFrames /\ TypeOK' /\ InvFrames' /\ UsageCounts' /\ InvLive'
  BY DEF Core
<1>1. Len(stack') \in Nat /\ Len(stack) \in Nat /\ DOMAIN stack' \subseteq Nat
  BY <1>0 DEF TypeOK
<1> SUFFICES ASSUME NEW i \in DOMAIN stack'
             PROVE  /\ Sound(stack'[i])
                    /\ stack'[i].at = "progress" => alive'[stack'[i].m] = "live"
                    /\ stack'[i].at = "complete" => stack'[i].handles =
                         IF request'[stack'[i].m] \in Message THEN request'[stack'[i].m] ELSE None
                    /\ i < Len(stack') => request'[stack'[i].m] \in Message
  BY DEF InvCalls
<1>2. stack'[i] = stack[i] /\ i \in DOMAIN stack
  OBVIOUS
<1>3. Sound(stack'[i])
  BY <1>2 DEF InvCalls
<1>4. stack'[i].at = "complete" => stack'[i].handles =
        IF request'[stack'[i].m] \in Message THEN request'[stack'[i].m] ELSE None
  BY <1>2 DEF InvCalls
<1>5. i < Len(stack') => request'[stack'[i].m] \in Message
  <2> SUFFICES ASSUME i < Len(stack') PROVE request'[stack'[i].m] \in Message
    OBVIOUS
  <2>0. i < Len(stack)
    BY <1>1
  <2>1. i < Len(stack) /\ stack[i].at = "cleanup"
    BY <1>0, <1>2, <2>0, Zenon DEF InvFrames
  <2> QED BY <1>2, <2>1 DEF InvCalls
<1>6. ASSUME stack'[i].at = "progress" PROVE alive'[stack'[i].m] = "live"
  <2>1. CASE stack'[i].script
    <3>1. stack'[i].wrap = stack'[i].m
      BY <1>3, <1>6, <2>1 DEF Sound
    <3>2. stack'[i].m \in Message /\ stack'[i].m # None
      <4>1. stack'[i] \in Frames
        BY <1>0 DEF TypeOK
      <4> QED BY <4>1, ConstantsAssumption DEF Frames
    <3>3. host'[stack'[i].m] > 0
      BY <1>0, <3>1, <3>2 DEF InvFrames
    <3>4. usage'[stack'[i].m] >= host'[stack'[i].m] /\ host'[stack'[i].m] \in Nat
          /\ usage'[stack'[i].m] \in Nat
      BY <1>0, <3>2, TermsNext
    <3>5. usage'[stack'[i].m] # 0
      BY <3>3, <3>4
    <3> QED BY <1>0, <3>2, <3>5 DEF InvLive
  <2>2. CASE ~stack'[i].script
    BY <1>2, <1>6, <2>2 DEF InvCalls
  <2> QED BY <2>1, <2>2
<1> QED BY <1>3, <1>4, <1>5, <1>6

(* A callback that is not a completion. *)
LEMMA CallsOne ==
  ASSUME NEW at, NEW m, NEW h, NEW s, NEW w, stack' = <<Frame(at, m, h, s, w)>>,
         at \notin {"complete", "cleanup"},
         at = "progress" => alive'[m] = "live" /\ (s => w = m)
  PROVE  InvCalls'
<1>1. /\ DOMAIN stack' = {1} /\ Len(stack') = 1 /\ stack'[1].at = at /\ stack'[1].m = m
      /\ stack'[1].handles = h /\ stack'[1].script = s /\ stack'[1].wrap = w
  BY OneFrame
<1>2. Sound(stack'[1])
  BY <1>1 DEF Sound
<1> QED BY <1>1, <1>2 DEF InvCalls

LEMMA CallsNone ==
  ASSUME stack' = <<>>
  PROVE  InvCalls'
<1>1. DOMAIN stack' = {}
  OBVIOUS
<1> QED BY <1>1 DEF InvCalls

LEMMA ContentKeep ==
  ASSUME TypeOK, InvContent, walk = None, gone' = gone,
         \A n \in Message : request'[n] = request[n] \/ request'[n] \notin gone,
         \A n \in messages' : request'[n] \in Content => messaging'[request'[n]]
  PROVE  InvContent'
<1>1. gone \subseteq Content /\ None \notin Content
  BY ConstantsAssumption DEF TypeOK
<1>2. \A n \in Message : request'[n] \notin gone
  BY <1>1 DEF InvContent
<1> QED BY <1>2 DEF InvContent

LEMMA ContentLess ==
  ASSUME TypeOK, InvContent, walk = None, gone' = gone, messaging' = messaging,
         messages' \subseteq messages,
         \A n \in Message : request'[n] = request[n] \/ request'[n] \notin Content
  PROVE  InvContent'
<1>1. gone \subseteq Content /\ messages \subseteq Message
  BY DEF TypeOK
<1>2. \A n \in messages' : request'[n] \in Content => messaging'[request'[n]]
  BY <1>1 DEF InvContent
<1> QED BY <1>1, <1>2, ContentKeep

LEMMA KeptKeep ==
  ASSUME InvKept,
         \A n \in Message \ WaitMessage : alive'[n] = "live" /\ usage'[n] = 0 =>
           alive[n] = "live" /\ usage[n] = 0
  PROVE  InvKept'
  BY DEF InvKept

-----------------------------------------------------------------------------
(* The scripts.                                                             *)

(* Nothing but the list of wrappers, the response and the count moves. *)
LEMMA SameList ==
  ASSUME UNCHANGED <<messages, url>>
  PROVE  Listed' = Listed
  BY DEF Listed

LEMMA SameStack ==
  ASSUME Core, Core', InvCalls, stack' = stack, alive' = alive,
         \A i \in DOMAIN stack : stack[i].at \in {"complete", "cleanup"} =>
           request'[stack[i].m] = request[stack[i].m]
  PROVE  InvCalls'
<1>1. Len(stack') <= Len(stack)
  BY DEF Core, TypeOK
<1> QED BY <1>1, CallsKeep

(* A script or the collector runs: no completion is being cleaned up, and    *)
(* progress without a script is not under way.                               *)
LEMMA ScriptTop ==
  ASSUME Core, Collects
  PROVE  /\ walk = None
         /\ \A i \in DOMAIN stack : stack[i].at = "progress" => stack[i].script
<1>1. walk = None /\ (stack # <<>> => Top.script \/ Top.at \in Notifying)
  BY DEF Collects
<1>2. ASSUME NEW i \in DOMAIN stack, stack[i].at = "progress" PROVE stack[i].script
  <2>1. TypeOK /\ InvFrames /\ stack # <<>>
    BY DEF Core
  <2>2. Len(stack) = 1
    BY <1>2, <2>1 DEF InvFrames
  <2>3. Top = stack[i]
    BY <2>1, <2>2, TopFrame
  <2> QED BY <1>1, <1>2, <2>1, <2>3 DEF Notifying
<1> QED BY <1>1, <1>2

LEMMA ScriptWalk ==
  ASSUME ScriptRuns
  PROVE  walk = None /\ Collects
  BY DEF ScriptRuns, Collects

(* new Message *)
LEMMA NewExtra ==
  ASSUME Careful, Core, Extra, Core', NEW m \in Message, KPR_Message(m)
  PROVE  Extra'
<1>1. /\ ScriptRuns /\ m \notin WaitMessage /\ alive[m] = "none"
      /\ alive' = [alive EXCEPT ![m] = "live"]
      /\ usage' = [usage EXCEPT ![m] = 1]
      /\ UNCHANGED <<data, target, list, queues, held, stack, content>>
  BY DEF KPR_Message
<1>2. /\ url' = url /\ request' = request /\ messages' = messages /\ shellQ' = shellQ
      /\ serviceQ' = serviceQ /\ held' = held /\ stack' = stack /\ walk' = walk
      /\ messaging' = messaging /\ gone' = gone
  BY <1>1 DEF data, target, list, queues, content
<1>3. walk = None /\ Collects /\ TypeOK
  BY <1>1, ScriptWalk DEF Core
<1>4. InvService'
  BY <1>2, <1>3, SameList, ServiceStays DEF Extra
<1>5. InvCalls'
  <2>1. Len(stack') <= Len(stack)
    BY <1>2, <1>3 DEF TypeOK
  <2>2. \A i \in DOMAIN stack' : ~(stack'[i].at = "progress" /\ ~stack'[i].script)
    BY <1>2, <1>3, ScriptTop
  <2> QED BY <1>2, <2>1, <2>2, CallsKeep DEF Extra
<1>6. InvContent'
  BY <1>2, <1>3, ContentLess DEF Extra
<1>7. InvKept'
  <2>1. \A n \in Message \ WaitMessage : alive'[n] = "live" /\ usage'[n] = 0 =>
          alive[n] = "live" /\ usage[n] = 0
    BY <1>1, <1>3 DEF TypeOK
  <2> QED BY <1>2, <2>1, KeptKeep DEF Extra
<1>8. InvUnused'
  BY <1>1, <1>3 DEF Extra, InvUnused, TypeOK
<1> QED BY <1>4, <1>5, <1>6, <1>7, <1>8 DEF Extra

(* The collector. *)
LEMMA DestructorExtra ==
  ASSUME Careful, Core, Extra, Core', NEW m \in Message, KPR_message_destructor(m)
  PROVE  Extra'
<1>1. /\ Collects /\ host[m] > Held(m)
      /\ usage' = [usage EXCEPT ![m] = @ - 1]
      /\ alive' = [n \in Message |-> IF n \in Disposed(m, 1) THEN "freed" ELSE alive[n]]
      /\ messages' = messages \ Disposed(m, 1)
      /\ UNCHANGED <<data, target, looped, queues, held, stack, content>>
  BY DEF KPR_message_destructor, Free
<1>2. /\ url' = url /\ request' = request /\ shellQ' = shellQ
      /\ serviceQ' = serviceQ /\ held' = held /\ stack' = stack /\ walk' = walk
      /\ messaging' = messaging /\ gone' = gone
  BY <1>1 DEF data, target, queues, content
<1>3. /\ walk = None /\ TypeOK /\ UsageCounts
      /\ \A i \in DOMAIN stack : stack[i].at = "progress" => stack[i].script
  BY <1>1, ScriptTop DEF Core
<1>4. messages' = messages
  <2>1. m \in messages => usage[m] >= 1 + host[m]
    BY <1>3, Terms
  <2>2. Held(m) \in Nat /\ host[m] \in Nat /\ usage[m] \in Nat
    BY <1>3, HeldNat, Terms
  <2>3. m \in messages => usage[m] # 1
    BY <1>1, <2>1, <2>2
  <2> QED BY <1>1, <2>3 DEF Disposed
<1>5. InvService'
  BY <1>2, <1>3, <1>4, SameList, ServiceStays DEF Extra
<1>6. InvCalls'
  <2>1. Len(stack') <= Len(stack)
    BY <1>2, <1>3 DEF TypeOK
  <2> QED BY <1>2, <1>3, <2>1, CallsKeep DEF Extra
<1>7. InvContent'
  BY <1>2, <1>3, <1>4, ContentLess DEF Extra
<1>8. InvKept'
  <2>1. ASSUME NEW n \in Message \ WaitMessage, alive'[n] = "live", usage'[n] = 0
        PROVE  alive[n] = "live" /\ usage[n] = 0
    <3>1. CASE n = m
      <4>1. usage[m] \in Nat /\ usage'[m] = usage[m] - 1
        BY <1>1, <1>3, Terms DEF TypeOK
      <4>2. usage[m] = 1
        BY <2>1, <3>1, <4>1
      <4> QED BY <1>1, <2>1, <3>1, <4>2 DEF Disposed
    <3>2. CASE n # m
      BY <1>1, <1>3, <2>1, <3>2 DEF Disposed, TypeOK
    <3> QED BY <3>1, <3>2
  <2> QED BY <1>2, <2>1, KeptKeep DEF Extra
<1>9. InvUnused'
  BY <1>1, ConstantsAssumption DEF Extra, InvUnused
<1> QED BY <1>5, <1>6, <1>7, <1>8, <1>9 DEF Extra

(* A message is invoked, by a content, for a promise or by a handler. *)
LEMMA InvokeExtra ==
  ASSUME Careful, Core, Extra, Core', NEW m \in Message, NEW t, Quiet(m), url[m] \in Accepted,
         walk = None, walk' = walk, gone' = gone, alive' = alive, url' = url, held' = held,
         stack' = stack, messages' = messages \union {m},
         \A n \in Message : n # m => request'[n] = request[n],
         request'[m] = t, t \notin gone, t \in Content => messaging'[t],
         \A c \in Content : messaging[c] => messaging'[c],
         shellQ' = PostShell(shellQ, m, url[m], "invoke"),
         serviceQ' = PostService(serviceQ, m, url[m], "invoke"),
         \A n \in Message : n # m => usage'[n] = usage[n] \/ n \in messages
  PROVE  Extra'
<1>0. /\ TypeOK /\ UsageCounts' /\ TypeOK' /\ "invoke" \in Counted /\ url[m] \in Schemes
      /\ messages \subseteq Message
  BY DEF Core, Counted, Schemes, TypeOK
<1>1. /\ m \notin messages /\ \A i \in DOMAIN stack : stack[i].m # m
  BY QuietFacts
<1>2. InvService'
  <2>1. CASE url[m] = "http"
    <3>1. Listed' = Listed \union {m} /\ m \notin Listed
      BY <1>1, <2>1 DEF Listed
    <3>2. shellQ' = shellQ /\ serviceQ' = Append(serviceQ, Event("invoke", m))
      BY <2>1 DEF PostShell, PostService
    <3> QED BY <1>0, <3>1, <3>2, ServiceGiven DEF Extra
  <2>2. CASE url[m] # "http"
    <3>1. Listed' = Listed
      BY <2>2 DEF Listed
    <3>2. serviceQ' = serviceQ
      BY <2>2 DEF PostService
    <3>3. shellQ' = shellQ \/ \E n \in Message, k \in Counted : shellQ' = Append(shellQ, Event(k, n))
      BY <1>0 DEF PostShell
    <3> QED BY <1>0, <3>1, <3>2, <3>3, ServiceStays DEF Extra
  <2> QED BY <2>1, <2>2
<1>3. InvCalls'
  <2>1. \A i \in DOMAIN stack : request'[stack[i].m] = request[stack[i].m]
    BY <1>0, <1>1, FrameFields
  <2> QED BY <2>1, SameStack DEF Extra
<1>4. InvContent'
  <2>1. \A n \in messages' : request'[n] \in Content => messaging'[request'[n]]
    BY <1>0 DEF Extra, InvContent
  <2>2. \A n \in Message : request'[n] = request[n] \/ request'[n] \notin gone
    OBVIOUS
  <2> QED BY <1>0, <2>1, <2>2, ContentKeep DEF Extra
<1>5. InvKept'
  <2>1. ASSUME NEW n \in Message \ WaitMessage, alive'[n] = "live", usage'[n] = 0
        PROVE  alive[n] = "live" /\ usage[n] = 0
    <3>1. n \notin messages'
      <4>1. n \in messages' => usage'[n] >= 1 + host'[n] /\ host'[n] \in Nat
        BY <1>0, TermsNext
      <4> QED BY <2>1, <4>1
    <3> QED BY <2>1, <3>1
  <2> QED BY <2>1, KeptKeep DEF Extra
<1>6. InvUnused'
  BY DEF Extra, InvUnused
<1> QED BY <1>2, <1>3, <1>4, <1>5, <1>6 DEF Extra

LEMMA ScriptInvokeExtra ==
  ASSUME Careful, Core, Extra, Core', NEW m \in Message,
         \/ KPR_invoke_only(m) \/ KPR_message_invoke(m)
         \/ \E c \in Content : KPR_content_invoke(c, m)
  PROVE  Extra'
<1> USE ConstantsAssumption
<1>0. MayInvoke(m) => Quiet(m)
  BY DEF MayInvoke, Careful, Careless
<1>t. TypeOK /\ gone \subseteq Content
  BY DEF Core, TypeOK
<1>1. PICK t \in Content \union {None, Promise} :
        /\ ScriptRuns /\ MayInvoke(m) /\ url[m] \in Accepted /\ KprMessageInvoke(m, t)
        /\ t \notin gone /\ (t \in Content => messaging'[t])
        /\ \A c \in Content : messaging[c] => messaging'[c]
        /\ UNCHANGED <<alive, url, held, stack, walk, gone>>
  <2>1. CASE KPR_invoke_only(m)
    <3>1. None \in Content \union {None, Promise} /\ None \notin Content
      OBVIOUS
    <3>2. /\ ScriptRuns /\ MayInvoke(m) /\ url[m] \in Accepted /\ KprMessageInvoke(m, None)
          /\ UNCHANGED <<alive, url, held, stack, walk, gone>> /\ messaging' = messaging
      BY <2>1 DEF KPR_invoke_only, Call, content
    <3> QED BY <1>t, <3>1, <3>2
  <2>2. CASE KPR_message_invoke(m)
    <3>1. Promise \in Content \union {None, Promise} /\ Promise \notin Content
      OBVIOUS
    <3>2. /\ ScriptRuns /\ MayInvoke(m) /\ url[m] \in Accepted /\ KprMessageInvoke(m, Promise)
          /\ UNCHANGED <<alive, url, held, stack, walk, gone>> /\ messaging' = messaging
      BY <2>2 DEF KPR_message_invoke, Call, content
    <3> QED BY <1>t, <3>1, <3>2
  <2>3. CASE \E c \in Content : KPR_content_invoke(c, m)
    <3>1. PICK c \in Content : KPR_content_invoke(c, m)
      BY <2>3
    <3>2. /\ ScriptRuns /\ MayInvoke(m) /\ url[m] \in Accepted /\ KprMessageInvoke(m, c)
          /\ UNCHANGED <<alive, url, held, stack, walk, gone>> /\ c \notin gone
          /\ messaging' = [messaging EXCEPT ![c] = TRUE]
      BY <3>1 DEF KPR_content_invoke, Call
    <3>3. messaging'[c] /\ \A x \in Content : messaging[x] => messaging'[x]
      BY <1>t, <3>2 DEF TypeOK
    <3> QED BY <3>2, <3>3
  <2> QED BY <2>1, <2>2, <2>3
<1>2. Quiet(m) /\ walk = None /\ request[m] = None
  BY <1>0, <1>1, QuietFacts, ScriptWalk
<1>3. /\ request' = [request EXCEPT ![m] = IF t = None THEN @ ELSE t]
      /\ usage' = [usage EXCEPT ![m] = @ + InvokeRefs(m, t)]
      /\ messages' = messages \union {m}
      /\ shellQ' = PostShell(shellQ, m, url[m], "invoke")
      /\ serviceQ' = PostService(serviceQ, m, url[m], "invoke")
  BY <1>1 DEF KprMessageInvoke
<1>4. /\ request'[m] = t /\ \A n \in Message : n # m => request'[n] = request[n]
      /\ \A n \in Message : n # m => usage'[n] = usage[n]
  BY <1>2, <1>3, <1>t DEF TypeOK
<1> QED BY <1>1, <1>2, <1>3, <1>4, InvokeExtra

LEMMA HandlerInvokeExtra ==
  ASSUME Careful, Core, Unnotified, Extra, Core', NEW m \in Message, KPR_handler_invoke(m)
  PROVE  Extra'
<1> USE ConstantsAssumption
<1> DEFINE f == Top.handles
<1>0. TypeOK /\ gone \subseteq Content
  BY DEF Core, TypeOK
<1>1. /\ ScriptRuns /\ HandlerRuns /\ m # f /\ response[f] = None /\ Invokable(m) /\ Quiet(m)
      /\ request' = [request EXCEPT ![m] = f]
      /\ usage' = [usage EXCEPT ![f] = @ + 1, ![m] = @ + InvokeRefs(m, f)]
      /\ messages' = messages \union {m}
      /\ shellQ' = PostShell(shellQ, m, url[m], "invoke")
      /\ serviceQ' = PostService(serviceQ, m, url[m], "invoke")
      /\ UNCHANGED <<alive, url, held, stack, content>>
  BY DEF KPR_handler_invoke, Call, MaySuspend, MayInvoke, Careful, Careless
<1>2. f \in Message /\ f \in messages
  BY <1>1, HandlerFrame
<1>3. walk = None /\ url[m] \in Accepted
  BY <1>1, ScriptWalk DEF Invokable
<1>4. walk' = walk /\ gone' = gone /\ messaging' = messaging
  BY <1>1 DEF content
<1> HIDE DEF f
<1>5. /\ request'[m] = f /\ \A n \in Message : n # m => request'[n] = request[n]
      /\ \A n \in Message : n # m => usage'[n] = usage[n] \/ n \in messages
  BY <1>0, <1>1, <1>2 DEF TypeOK
<1>6. f \notin Content /\ f \notin gone
  BY <1>0, <1>2
<1> QED BY <1>1, <1>3, <1>4, <1>5, <1>6, InvokeExtra

LEMMA HandlerWaitExtra ==
  ASSUME Careful, Core, Unnotified, Extra, Core', KPR_handler_wait
  PROVE  Extra'
<1> DEFINE f == Top.handles
<1>1. /\ ScriptRuns /\ HandlerRuns /\ response[f] = None
      /\ usage' = [usage EXCEPT ![f] = @ + 1]
      /\ UNCHANGED <<alive, host, data, request, list, queues, held, stack, content>>
  BY DEF KPR_handler_wait, Call
<1>2. TypeOK /\ UsageCounts /\ f \in Message /\ walk = None
  BY <1>1, HandlerFrame, ScriptWalk DEF Core
<1>3. /\ url' = url /\ request' = request /\ messages' = messages /\ shellQ' = shellQ
      /\ serviceQ' = serviceQ /\ held' = held /\ stack' = stack /\ walk' = walk
      /\ messaging' = messaging /\ gone' = gone /\ alive' = alive
  BY <1>1 DEF data, list, queues, content
<1> HIDE DEF f
<1>4. InvService'
  BY <1>2, <1>3, SameList, ServiceStays DEF Extra
<1>5. InvCalls'
  BY <1>3, SameStack DEF Extra
<1>6. InvContent'
  BY <1>2, <1>3, ContentLess DEF Extra
<1>7. InvKept'
  <2>1. usage[f] \in Nat /\ usage'[f] = usage[f] + 1
        /\ \A n \in Message : n # f => usage'[n] = usage[n]
    BY <1>1, <1>2, Terms DEF TypeOK
  <2>2. \A n \in Message \ WaitMessage : alive'[n] = "live" /\ usage'[n] = 0 =>
          alive[n] = "live" /\ usage[n] = 0
    BY <1>3, <2>1
  <2> QED BY <1>3, <2>2, KeptKeep DEF Extra
<1>8. InvUnused'
  BY <1>3 DEF Extra, InvUnused
<1> QED BY <1>4, <1>5, <1>6, <1>7, <1>8 DEF Extra

(* Steps that leave alone all that Extra names. *)
LEMMA RedirectExtra ==
  ASSUME Extra, UNCHANGED <<life, url, request, messages, queues, held, stack, content>>
  PROVE  Extra'
<1>1. /\ alive' = alive /\ usage' = usage /\ url' = url /\ request' = request
      /\ messages' = messages /\ shellQ' = shellQ /\ serviceQ' = serviceQ /\ held' = held
      /\ stack' = stack /\ walk' = walk /\ messaging' = messaging /\ gone' = gone
  BY DEF life, queues, content
<1>2. InvService'
  BY <1>1, SameList DEF Extra, InvService
<1>3. InvCalls'
  BY <1>1 DEF Extra, InvCalls
<1>4. InvContent' /\ InvKept' /\ InvUnused'
  BY <1>1 DEF Extra, InvContent, Completing, InvKept, InvUnused
<1> QED BY <1>2, <1>3, <1>4 DEF Extra

LEMMA ContentWaitExtra ==
  ASSUME Careful, Core, Extra, Core', NEW c \in Content, NEW m \in Message, KPR_content_wait(c, m)
  PROVE  Extra'
<1> USE ConstantsAssumption
<1>1. /\ "contentWait" \in Script /\ ScriptRuns /\ c \notin gone /\ m \in WaitMessage
      /\ alive[m] = "none" /\ alive' = [alive EXCEPT ![m] = "live"]
      /\ request' = [request EXCEPT ![m] = c]
      /\ usage' = [usage EXCEPT ![m] = InvokeRefs(m, c) + 1]
      /\ messages' = messages \union {m}
      /\ shellQ' = Append(shellQ, Event("invoke", m))
      /\ messaging' = [messaging EXCEPT ![c] = TRUE]
      /\ UNCHANGED <<url, serviceQ, held, stack, walk, gone>>
  BY DEF KPR_content_wait, Call
<1>2. /\ TypeOK /\ UsageCounts /\ InvFrames /\ walk = None /\ Collects /\ url[m] = "xkpr"
      /\ usage[m] = 0 /\ InvLive
  BY <1>1, ScriptWalk DEF Core, InvWait, InvLive
<1>3. /\ \A n \in Message : n # m => request'[n] = request[n] /\ usage'[n] = usage[n]
                                     /\ alive'[n] = alive[n]
      /\ request'[m] = c /\ messaging'[c] /\ (\A x \in Content : messaging[x] => messaging'[x])
  BY <1>1, <1>2 DEF TypeOK
<1>4. InvService'
  <2>1. Listed' = Listed
    BY <1>1, <1>2 DEF Listed
  <2>2. "invoke" \in Counted
    BY DEF Counted
  <2> QED BY <1>1, <1>2, <2>1, <2>2, ServiceStays DEF Extra
<1>5. \A i \in DOMAIN stack : stack[i].at \in {"complete", "cleanup"} => stack[i].m # m
  <2>1. request[m] = None
    BY <1>2, Terms
  <2> QED BY <1>2, <2>1 DEF InvFrames
<1>6. InvCalls'
  <2>1. Len(stack') <= Len(stack)
    BY <1>1, <1>2 DEF TypeOK
  <2>2. \A i \in DOMAIN stack' : ~(stack'[i].at = "progress" /\ ~stack'[i].script)
    BY <1>1, <1>2, ScriptTop
  <2>3. \A i \in DOMAIN stack' : stack'[i].at \in {"complete", "cleanup"} =>
          request'[stack'[i].m] = request[stack'[i].m]
    BY <1>1, <1>2, <1>3, <1>5, FrameFields
  <2> QED BY <1>1, <2>1, <2>2, <2>3, CallsKeep DEF Extra
<1>7. InvContent'
  <2>1. messages \subseteq Message
    BY <1>2 DEF TypeOK
  <2>2. \A n \in messages' : request'[n] \in Content => messaging'[request'[n]]
    BY <1>1, <1>3, <2>1 DEF Extra, InvContent
  <2>3. \A n \in Message : request'[n] = request[n] \/ request'[n] \notin gone
    BY <1>1, <1>3
  <2> QED BY <1>1, <1>2, <2>2, <2>3, ContentKeep DEF Extra
<1>8. InvKept'
  <2>1. \A n \in Message \ WaitMessage : alive'[n] = "live" /\ usage'[n] = 0 =>
          alive[n] = "live" /\ usage[n] = 0
    BY <1>1, <1>3
  <2> QED BY <1>1, <2>1, KeptKeep DEF Extra
<1>9. InvUnused'
  BY <1>1 DEF InvUnused
<1> QED BY <1>4, <1>6, <1>7, <1>8, <1>9 DEF Extra

(* A pending message is cancelled, by its script or by the walk of a content. *)
LEMMA CancelExtra ==
  ASSUME Careful, Core, Extra, Core', NEW m \in Message, waiting[m],
         KprMessageCancel(m, usage, shellQ),
         UNCHANGED <<alive, url, messages, held, stack, content>>
  PROVE  Extra'
<1> USE ConstantsAssumption
<1>1. /\ request' = [request EXCEPT ![m] = None]
      /\ usage' = [usage EXCEPT ![m] = @ - B(request[m] # None) + B(url[m] = "xkpr")]
      /\ shellQ' = PostShell(shellQ, m, url[m], "cancel")
      /\ serviceQ' = PostService(serviceQ, m, url[m], "cancel")
      /\ walk' = walk /\ gone' = gone /\ messaging' = messaging
  BY DEF KprMessageCancel, Detached, content
<1>2. /\ TypeOK /\ m \in messages /\ TypeOK' /\ UsageCounts' /\ "cancel" \in Counted
      /\ url[m] \in Schemes /\ InvFrames /\ gone \subseteq Content
  BY DEF Core, InvWaiting, Counted, TypeOK
<1>3. /\ request'[m] = None
      /\ \A n \in Message : n # m => request'[n] = request[n] /\ usage'[n] = usage[n]
  BY <1>1, <1>2 DEF TypeOK
<1>4. InvService'
  <2>1. /\ \/ serviceQ' = serviceQ
           \/ \E n \in Message : serviceQ' = Append(serviceQ, Event("cancel", n))
        /\ \/ shellQ' = shellQ
           \/ \E n \in Message, k \in Counted : shellQ' = Append(shellQ, Event(k, n))
    BY <1>1, <1>2 DEF PostShell, PostService
  <2> QED BY <1>2, <2>1, SameList, ServiceStays DEF Extra
<1>5. InvCalls'
  <2>1. \A i \in DOMAIN stack : stack[i].at \in {"complete", "cleanup"} => stack[i].m # m
    BY <1>2 DEF InvFrames
  <2>2. \A i \in DOMAIN stack : stack[i].at \in {"complete", "cleanup"} =>
          request'[stack[i].m] = request[stack[i].m]
    BY <1>2, <1>3, <2>1, FrameFields
  <2> QED BY <2>2, SameStack DEF Extra
<1>6. InvContent'
  <2>1. \A n \in Message : request'[n] \in Content => request'[n] = request[n]
    BY <1>3
  <2>2. \A n \in Message : Completing(n)' <=> Completing(n)
    BY DEF Completing
  <2> QED BY <1>1, <1>2, <2>1, <2>2 DEF Extra, InvContent
<1>7. InvKept'
  <2>1. usage'[m] # 0
    <3>1. usage'[m] >= 1 + host'[m] /\ host'[m] \in Nat /\ usage'[m] \in Nat
      BY <1>2, TermsNext
    <3> QED BY <3>1
  <2>2. \A n \in Message \ WaitMessage : alive'[n] = "live" /\ usage'[n] = 0 =>
          alive[n] = "live" /\ usage[n] = 0
    BY <1>3, <2>1
  <2> QED BY <2>2, KeptKeep DEF Extra
<1>8. InvUnused'
  BY DEF Extra, InvUnused
<1> QED BY <1>4, <1>5, <1>6, <1>7, <1>8 DEF Extra

LEMMA ScriptCancelExtra ==
  ASSUME Careful, Core, Extra, Core', NEW m \in Message, KPR_message_cancel(m) \/ WalkCancel(m)
  PROVE  Extra'
<1>1. /\ KprMessageCancel(m, usage, shellQ)
      /\ UNCHANGED <<alive, host, url, messages, held, stack, content>>
  BY DEF KPR_message_cancel, WalkCancel, list
<1>2. CASE waiting[m]
  BY <1>1, <1>2, CancelExtra
<1>3. CASE ~waiting[m]
  <2>1. UNCHANGED <<life, url, request, messages, queues, held, stack, content>>
    BY <1>1, <1>3 DEF KprMessageCancel, life, queues
  <2> QED BY <2>1, RedirectExtra
<1> QED BY <1>2, <1>3

(* The steps that start and end the walk of a content. *)
LEMMA WalkExtra ==
  ASSUME Extra, InvContent', UNCHANGED <<life, url, request, messages, queues, held, stack>>
  PROVE  Extra'
<1>1. /\ alive' = alive /\ usage' = usage /\ url' = url /\ request' = request
      /\ messages' = messages /\ shellQ' = shellQ /\ serviceQ' = serviceQ /\ held' = held
      /\ stack' = stack
  BY DEF life, queues
<1>2. InvService'
  BY <1>1, SameList DEF Extra, InvService
<1>3. InvCalls'
  BY <1>1 DEF Extra, InvCalls
<1>4. InvKept' /\ InvUnused'
  BY <1>1 DEF Extra, InvKept, InvUnused
<1> QED BY <1>2, <1>3, <1>4 DEF Extra

LEMMA ContentCancelExtra ==
  ASSUME Core, Extra, NEW c \in Content, KprContentCancel(c)
  PROVE  Extra'
<1> USE ConstantsAssumption
<1>1. /\ ScriptRuns
      /\ UNCHANGED <<life, url, request, messages, queues, held, stack, messaging, gone>>
  BY DEF KprContentCancel, data, target, list
<1>2. walk = None /\ gone \subseteq Content
  BY <1>1, ScriptWalk DEF Core, TypeOK
<1>3. InvContent'
  <2>1. \A n \in Message : request[n] \notin gone
    BY <1>2 DEF Extra, InvContent
  <2> QED BY <1>1, <2>1 DEF Extra, InvContent
<1> QED BY <1>1, <1>3, WalkExtra

LEMMA ContentDisposeExtra ==
  ASSUME Core, Extra, NEW c \in Content, KprContentDispose(c)
  PROVE  Extra'
<1> USE ConstantsAssumption
<1>1. /\ ScriptRuns
      /\ \A i \in DOMAIN stack : ~(stack[i].at = "complete" /\ request[stack[i].m] = c)
      /\ gone' = gone \union {c} /\ walk' = IF messaging[c] THEN c ELSE None
      /\ UNCHANGED <<life, url, request, messages, queues, held, stack, messaging>>
  BY DEF KprContentDispose, data, target, list
<1>2. /\ TypeOK /\ InvFrames /\ InvCalls /\ InvContent /\ InvWaiting
      /\ walk = None /\ gone \subseteq Content
  BY <1>1, ScriptWalk DEF Core, TypeOK, Extra
<1>3. \A n \in Message : request[n] \notin gone
  BY <1>2 DEF InvContent
<1>4. ASSUME NEW i \in DOMAIN stack, stack[i].at \in {"complete", "cleanup"}
      PROVE  request[stack[i].m] # c
  <2>1. CASE stack[i].at = "complete"
    BY <1>1, <2>1
  <2>2. CASE stack[i].at = "cleanup"
    <3>1. ~stack[i].script
      BY <1>2, <2>2 DEF InvFrames
    <3>2. stack # <<>>
      OBVIOUS
    <3>3. DOMAIN stack = 1 .. Len(stack) /\ Top = stack[Len(stack)] /\ Len(stack) \in Nat
      BY <1>2, <3>2, TopFrame
    <3>4. i # Len(stack)
      BY <1>1, <3>1, <3>2, <3>3 DEF ScriptRuns
    <3>5. i < Len(stack)
      BY <3>3, <3>4
    <3>6. request[stack[i].m] \in Message
      BY <1>2, <3>5 DEF InvCalls
    <3> QED BY <3>6
  <2> QED BY <1>4, <2>1, <2>2
<1>5. \A n \in Message : request[n] = c => ~Completing(n) /\ n \in messages
  BY <1>2, <1>4 DEF InvWaiting, Completing
<1>6. \A n \in Message : request[n] = c => walk' = c
  BY <1>1, <1>2, <1>5 DEF InvContent
<1>7. \A n \in Message : Completing(n)' <=> Completing(n)
  BY <1>1 DEF Completing
<1>8. InvContent'
  BY <1>1, <1>2, <1>3, <1>5, <1>6, <1>7 DEF InvContent
<1> QED BY <1>1, <1>8, WalkExtra

LEMMA WalkEndExtra ==
  ASSUME Core, Extra, WalkEnd
  PROVE  Extra'
<1> USE ConstantsAssumption
<1>1. /\ walk # None /\ walk' = None
      /\ \A m \in messages : request[m] = walk => ~waiting[m]
      /\ messaging' = [messaging EXCEPT ![walk] = FALSE]
      /\ UNCHANGED <<life, url, request, messages, queues, held, stack, gone>>
  BY DEF WalkEnd, data, target, list
<1>2. /\ TypeOK /\ InvWaiting /\ InvContent /\ InvFrames /\ walk \in Content /\ gone \subseteq Content
  BY <1>1 DEF Core, Extra, TypeOK
<1>3. \A n \in messages : request[n] # walk
  <2> SUFFICES ASSUME NEW n \in messages, request[n] = walk PROVE FALSE
    OBVIOUS
  <2>1. n \in Message /\ request[n] # None /\ ~waiting[n]
    BY <1>1, <1>2 DEF TypeOK
  <2>2. PICK i \in DOMAIN stack : stack[i].at \in {"complete", "cleanup"} /\ stack[i].m = n
    BY <1>2, <2>1 DEF InvWaiting, Completing
  <2> QED BY <1>2, <2>2 DEF InvFrames
<1>4. \A n \in Message : request[n] \notin gone
  <2> SUFFICES ASSUME NEW n \in Message, request[n] \in gone PROVE FALSE
    OBVIOUS
  <2>1. request[n] = walk /\ ~Completing(n) /\ request[n] # None
    BY <1>2 DEF InvContent
  <2> QED BY <1>2, <1>3, <2>1 DEF InvWaiting
<1>5. \A x \in Content : x # walk => messaging'[x] = messaging[x]
  BY <1>1, <1>2 DEF TypeOK
<1>6. InvContent'
  BY <1>1, <1>2, <1>3, <1>4, <1>5 DEF InvContent
<1> QED BY <1>1, <1>6, WalkExtra

(* handler.message *)
LEMMA GetMessageExtra ==
  ASSUME Careful, Core, Extra, Core', KPR_handler_get_message
  PROVE  Extra'
<1>1. PICK m : m = Top.handles
  OBVIOUS
<1>2. /\ ScriptRuns /\ stack # <<>> /\ m # None
      /\ usage' = [usage EXCEPT ![m] = @ + 1]
      /\ url' = url /\ request' = request /\ messages' = messages /\ shellQ' = shellQ
      /\ serviceQ' = serviceQ /\ held' = held /\ stack' = stack /\ walk' = walk
      /\ messaging' = messaging /\ gone' = gone /\ alive' = alive
  BY <1>1 DEF KPR_handler_get_message, data, target, list, queues, content
<1>3. TypeOK /\ UsageCounts /\ walk = None
  BY <1>2, ScriptWalk DEF Core
<1>4. InvService'
  BY <1>2, <1>3, SameList, ServiceStays DEF Extra
<1>5. InvCalls'
  BY <1>2, SameStack DEF Extra
<1>6. InvContent'
  BY <1>2, <1>3, ContentLess DEF Extra
<1>7. InvKept'
  <2>0. m \in Message
    BY <1>1, <1>2, <1>3, TopFrame
  <2>1. usage[m] \in Nat /\ usage'[m] = usage[m] + 1
        /\ \A n \in Message : n # m => usage'[n] = usage[n]
    BY <1>2, <1>3, <2>0, Terms DEF TypeOK
  <2>2. \A n \in Message \ WaitMessage : alive'[n] = "live" /\ usage'[n] = 0 =>
          alive[n] = "live" /\ usage[n] = 0
    BY <1>2, <2>1
  <2> QED BY <2>2, KeptKeep DEF Extra
<1>8. InvUnused'
  BY <1>2 DEF Extra, InvUnused
<1> QED BY <1>4, <1>5, <1>6, <1>7, <1>8 DEF Extra

(* Careful scripts do not notify. *)
LEMMA NotNotify ==
  ASSUME Careful
  PROVE  \A m \in Message : ~KprMessageNotify(m)
  BY DEF Careful, KprMessageNotify

LEMMA ScriptExtra ==
  ASSUME Careful, Core, Unnotified, Extra, Core', ScriptStep
  PROVE  Extra'
<1>1. ASSUME NEW m \in Message,
             \/ KPR_Message(m) \/ KPR_message_destructor(m)
             \/ KPR_invoke_only(m) \/ KPR_message_invoke(m) \/ KPR_handler_invoke(m)
             \/ KPR_message_cancel(m) \/ KprMessageNotify(m)
             \/ \E c \in Content : KPR_content_invoke(c, m) \/ KPR_content_wait(c, m)
      PROVE  Extra'
  BY <1>1, NewExtra, DestructorExtra, ScriptInvokeExtra, HandlerInvokeExtra, ScriptCancelExtra,
     ContentWaitExtra, NotNotify
<1>2. ASSUME NEW c \in Content, KprContentCancel(c) \/ KprContentDispose(c)
      PROVE  Extra'
  BY <1>2, ContentCancelExtra, ContentDisposeExtra
<1>3. ASSUME KPR_handler_wait \/ KPR_handler_get_message
      PROVE  Extra'
  BY <1>3, HandlerWaitExtra, GetMessageExtra
<1>4. ASSUME NEW s \in RedirectTo, KPR_handler_redirect(s)
      PROVE  Extra'
  <2>1. UNCHANGED <<life, url, request, messages, queues, held, stack, content>>
    BY <1>4 DEF KPR_handler_redirect, target, list
  <2> QED BY <2>1, RedirectExtra
<1> QED
  BY <1>1, <1>2, <1>3, <1>4 DEF ScriptStep

-----------------------------------------------------------------------------
(* The services thread.                                                     *)

LEMMA ServiceExtra ==
  ASSUME Core, Extra, Core', ServiceStep
  PROVE  Extra'
<1>0. /\ serviceQ \in Seq(EventRecords) /\ shellQ \in Seq(EventRecords)
      /\ held \in SUBSET Message /\ Listed \in SUBSET Message
      /\ InCustody(serviceQ, held, shellQ, Listed)
      /\ \A m \in Message : /\ Event("complete", m) \in EventRecords
                            /\ Event("progress", m) \in EventRecords
  BY EventOf DEF Core, TypeOK, Extra, InvService, Listed, Events
<1>1. UNCHANGED <<life, data, target, list, stack, content>>
  BY DEF ServiceStep, ServiceCancel, ServiceInvoke, ServiceProgress, ServiceFinish
<1>2. /\ alive' = alive /\ usage' = usage /\ url' = url /\ request' = request
      /\ messages' = messages /\ stack' = stack /\ walk' = walk /\ messaging' = messaging
      /\ gone' = gone
  BY <1>1 DEF life, data, target, list, content
<1>3. Listed' = Listed
  BY <1>2, SameList
<1>4. ASSUME ServiceCancel PROVE InvService'
  <2>1. /\ serviceQ # <<>> /\ Head(serviceQ).ev # "invoke" /\ serviceQ' = Tail(serviceQ)
        /\ shellQ' = shellQ /\ held' = held
    BY <1>4 DEF ServiceCancel
  <2>2. Shrinks(serviceQ, serviceQ') /\ serviceQ[1].ev # "invoke"
    BY <1>0, <2>1, TailShrinks
  <2>3. InCustody(serviceQ', held, shellQ, Listed)
    BY <1>0, <2>2, CustodySkip
  <2> QED BY <1>3, <2>1, <2>3 DEF InvService
<1>5. ASSUME NEW m \in Message, ServiceInvoke(m) PROVE InvService'
  <2>1. /\ serviceQ # <<>> /\ Head(serviceQ) = Event("invoke", m) /\ serviceQ' = Tail(serviceQ)
        /\ waiting[m] => held' = held \union {m} /\ shellQ' = shellQ
        /\ ~waiting[m] => shellQ' = Append(shellQ, Event("complete", m)) /\ held' = held
    BY <1>5 DEF ServiceInvoke
  <2>2. First(serviceQ, "invoke", m) /\ Shrinks(serviceQ, serviceQ')
    BY <1>0, <2>1, TailShrinks DEF First, Event
  <2>3. Between(serviceQ', held, shellQ, Listed, m) /\ serviceQ' \in Seq(EventRecords)
    BY <1>0, <2>2, CustodyOut DEF Shrinks
  <2>4. CASE waiting[m]
    <3>1. InCustody(serviceQ', held \union {m}, shellQ, Listed)
      BY <1>0, <2>3, CustodyHold
    <3> QED BY <1>3, <2>1, <2>4, <3>1 DEF InvService
  <2>5. CASE ~waiting[m]
    <3>1. Grows(shellQ, shellQ', Event("complete", m))
      BY <1>0, <2>1, <2>5, AppendGrows
    <3>2. InCustody(serviceQ', held, shellQ', Listed)
      BY <1>0, <2>3, <3>1, CustodyAnswer
    <3> QED BY <1>3, <2>1, <2>5, <3>2 DEF InvService
  <2> QED BY <2>4, <2>5
<1>6. ASSUME NEW m \in Message, ServiceProgress(m) PROVE InvService'
  <2>1. /\ m \in held /\ shellQ' = Append(shellQ, Event("progress", m))
        /\ serviceQ' = serviceQ /\ held' = held
    BY <1>6 DEF ServiceProgress
  <2>2. Grows(shellQ, shellQ', Event("progress", m))
    BY <1>0, <2>1, AppendGrows
  <2>3. InCustody(serviceQ, held, shellQ', Listed)
    BY <1>0, <2>1, <2>2, CustodyProgress
  <2> QED BY <1>3, <2>1, <2>3 DEF InvService
<1>7. ASSUME NEW m \in Message, ServiceFinish(m) PROVE InvService'
  <2>1. /\ m \in held /\ shellQ' = Append(shellQ, Event("complete", m))
        /\ serviceQ' = serviceQ /\ held' = held \ {m}
    BY <1>7 DEF ServiceFinish
  <2>2. Grows(shellQ, shellQ', Event("complete", m))
    BY <1>0, <2>1, AppendGrows
  <2>3. InCustody(serviceQ, held \ {m}, shellQ', Listed)
    BY <1>0, <2>1, <2>2, CustodyFinish
  <2> QED BY <1>3, <2>1, <2>3 DEF InvService
<1>8. InvService'
  BY <1>4, <1>5, <1>6, <1>7 DEF ServiceStep
<1>9. InvCalls'
  BY <1>2 DEF Extra, InvCalls
<1>10. InvContent' /\ InvKept' /\ InvUnused'
  BY <1>2 DEF Extra, InvContent, Completing, InvKept, InvUnused
<1> QED BY <1>8, <1>9, <1>10 DEF Extra

-----------------------------------------------------------------------------
(* The callbacks of the shell thread.                                       *)

(* What they leave alone. *)
LEMMA ShellExtra ==
  ASSUME Core, Extra, InvCalls', InvKept', walk = None, Listed' = Listed,
         UNCHANGED <<request, held, content>>, messages' \subseteq messages,
         serviceQ' = serviceQ,
         shellQ' = shellQ \/ (shellQ # <<>> /\ Head(shellQ).ev # "complete" /\ shellQ' = Tail(shellQ)),
         \A n \in Message : alive'[n] = "live" => alive[n] = "live"
  PROVE  Extra'
<1> USE ConstantsAssumption
<1>0. TypeOK /\ gone' = gone /\ messaging' = messaging
  BY DEF Core, content
<1>1. InvService'
  BY <1>0, ServiceStays DEF Extra
<1>2. InvContent'
  BY <1>0, ContentLess DEF Extra
<1>3. InvUnused'
  BY DEF Extra, InvUnused
<1> QED BY <1>1, <1>2, <1>3 DEF Extra

LEMMA XKPRInvokeExtra ==
  ASSUME Careful, Core, Extra, Core', NEW m \in Message, KprXKPRServiceInvoke(m)
  PROVE  Extra'
<1>1. PICK script \in BOOLEAN :
        /\ usage' = [usage EXCEPT ![m] = @ - 1 + B(script)]
        /\ stack' = <<Frame("invoke", m, m, script, IF script THEN m ELSE None)>>
  BY DEF KprXKPRServiceInvoke
<1>2. /\ Deliver("invoke", m) /\ shellQ' = Tail(shellQ) /\ alive' = alive /\ url' = url
      /\ messages' = messages /\ serviceQ' = serviceQ
      /\ UNCHANGED <<request, held, content>>
  BY DEF KprXKPRServiceInvoke, data, target, list
<1>3. TypeOK /\ "invoke" \in Events /\ TypeOK' /\ UsageCounts' /\ InvInvoke
  BY DEF Core, Events
<1>4. /\ 1 \in DOMAIN shellQ /\ shellQ[1].ev = "invoke" /\ shellQ[1].m = m /\ stack = <<>>
      /\ walk = None
  BY <1>2, <1>3, Delivery
<1>5. shellQ # <<>> /\ Head(shellQ).ev # "complete"
  BY <1>2 DEF Deliver, Event
<1>6. Listed' = Listed
  BY <1>2, SameList
<1>7. InvCalls'
  <2> QED BY <1>1, CallsOne
<1>8. InvKept'
  <2>1. m \notin WaitMessage => m \in messages
    BY <1>3, <1>4 DEF InvInvoke
  <2>2. m \in messages => usage'[m] # 0
    <3>1. m \in messages' => usage'[m] >= 1 + host'[m] /\ host'[m] \in Nat /\ usage'[m] \in Nat
      BY <1>3, TermsNext
    <3> QED BY <1>2, <3>1
  <2>3. \A n \in Message : n # m => usage'[n] = usage[n]
    BY <1>1, <1>3 DEF TypeOK
  <2>4. \A n \in Message \ WaitMessage : alive'[n] = "live" /\ usage'[n] = 0 =>
          alive[n] = "live" /\ usage[n] = 0
    BY <1>2, <2>1, <2>2, <2>3
  <2>5. DOMAIN stack = {}
    BY <1>4
  <2> QED BY <2>4, <2>5, KeptKeep DEF Extra
<1> QED BY <1>2, <1>4, <1>5, <1>6, <1>7, <1>8, ShellExtra

LEMMA DeliverProgressExtra ==
  ASSUME Careful, Core, Extra, Core', NEW m \in Message, DeliverProgress(m)
  PROVE  Extra'
<1>1. PICK script \in BOOLEAN :
        /\ host' = [host EXCEPT ![m] = @ + B(script)]
        /\ usage' = [usage EXCEPT ![m] = @ + B(script)]
        /\ stack' = <<Frame("progress", m, IF script THEN request[m] ELSE None,
                            script, IF script THEN m ELSE None)>>
  BY DEF DeliverProgress
<1>2. /\ Deliver("progress", m) /\ shellQ' = Tail(shellQ) /\ alive' = alive /\ url' = url
      /\ messages' = messages /\ serviceQ' = serviceQ
      /\ UNCHANGED <<request, held, content>>
  BY DEF DeliverProgress, data, target, list
<1>3. TypeOK /\ "progress" \in Events /\ "complete" \in Events /\ UsageCounts
  BY DEF Core, Events
<1>4. /\ 1 \in DOMAIN shellQ /\ shellQ[1].ev = "progress" /\ shellQ[1].m = m /\ stack = <<>>
      /\ walk = None
  BY <1>2, <1>3, Delivery
<1>5. shellQ # <<>> /\ Head(shellQ).ev # "complete"
  BY <1>2 DEF Deliver, Event
<1>6. Listed' = Listed
  BY <1>2, SameList
<1>7. alive[m] = "live"
  <2>1. InCustody(serviceQ, held, shellQ, Listed)
    BY DEF Extra, InvService
  <2>2. m \in held \/ \E j \in DOMAIN shellQ : shellQ[j] = Event("complete", m)
    BY <1>4, <2>1 DEF InCustody
  <2>3. Event("complete", m).ev = "complete" /\ Event("complete", m).m = m
    BY <1>3, EventOf
  <2>4. m \in Listed
    BY <2>1, <2>2, <2>3 DEF InCustody
  <2>5. m \in messages
    BY <2>4 DEF Listed
  <2> QED BY <2>5, Unallocated
<1>8. InvCalls'
  <2> QED BY <1>1, <1>2, <1>7, CallsOne
<1>9. InvKept'
  <2>1. /\ \A n \in Message : n # m => usage'[n] = usage[n]
        /\ usage'[m] = usage[m] + B(script) /\ usage[m] \in Nat /\ B(script) \in {0, 1}
    BY <1>1, <1>3, Terms, BValue DEF TypeOK
  <2>2. usage'[m] = 0 => usage[m] = 0
    BY <2>1
  <2>3. \A n \in Message \ WaitMessage : alive'[n] = "live" /\ usage'[n] = 0 =>
          alive[n] = "live" /\ usage[n] = 0
    BY <1>2, <2>1, <2>2
  <2>5. DOMAIN stack = {}
    BY <1>4
  <2> QED BY <2>3, <2>5, KeptKeep DEF Extra
<1> QED BY <1>2, <1>4, <1>5, <1>6, <1>8, <1>9, ShellExtra

LEMMA WaitCompleteExtra ==
  ASSUME Careful, Core, Extra, Core', NEW m \in Message, KPR_handler_waitComplete(m)
  PROVE  Extra'
<1> USE ConstantsAssumption
<1>1. PICK script \in BOOLEAN : stack' = <<Frame("resume", m, m, script, None)>>
  BY DEF KPR_handler_waitComplete
<1>2. /\ stack = <<>> /\ walk = None /\ response[m] # None
      /\ usage' = [usage EXCEPT ![m] = @ - 1]
      /\ alive' = alive /\ url' = url /\ messages' = messages /\ serviceQ' = serviceQ
      /\ shellQ' = shellQ /\ UNCHANGED <<request, held, content>>
  BY DEF KPR_handler_waitComplete, Idle, data, list, queues
<1>3. TypeOK /\ TypeOK' /\ UsageCounts' /\ InvLinked
  BY DEF Core
<1>4. Listed' = Listed
  BY <1>2, SameList
<1>5. InvCalls'
  <2> QED BY <1>1, CallsOne
<1>6. InvKept'
  <2>1. m \in messages'
    BY <1>2, <1>3 DEF InvLinked
  <2>2. usage'[m] # 0
    <3>1. usage'[m] >= 1 + host'[m] /\ host'[m] \in Nat /\ usage'[m] \in Nat
      BY <1>3, <2>1, TermsNext
    <3> QED BY <3>1
  <2>3. \A n \in Message : n # m => usage'[n] = usage[n]
    BY <1>2, <1>3 DEF TypeOK
  <2>4. \A n \in Message \ WaitMessage : alive'[n] = "live" /\ usage'[n] = 0 =>
          alive[n] = "live" /\ usage[n] = 0
    BY <1>2, <2>2, <2>3
  <2>5. DOMAIN stack = {}
    BY <1>2
  <2> QED BY <2>4, <2>5, KeptKeep DEF Extra
<1> QED BY <1>2, <1>4, <1>5, <1>6, ShellExtra

LEMMA ServiceCancelExtra ==
  ASSUME Careful, Core, Extra, Core', NEW m \in Message, KprXKPRServiceCancel(m)
  PROVE  Extra'
<1> USE ConstantsAssumption
<1>1. /\ Deliver("cancel", m) /\ shellQ' = Tail(shellQ) /\ url' = url /\ serviceQ' = serviceQ
      /\ UNCHANGED <<request, response, held, content>>
  BY DEF KprXKPRServiceCancel, data, target
<1>2. TypeOK /\ "cancel" \in Events /\ TypeOK' /\ UsageCounts' /\ InvCancel /\ UsageCounts
  BY DEF Core, Events
<1>3. /\ 1 \in DOMAIN shellQ /\ shellQ[1].ev = "cancel" /\ shellQ[1].m = m /\ stack = <<>>
      /\ walk = None
  BY <1>1, <1>2, Delivery
<1>4. shellQ # <<>> /\ Head(shellQ).ev # "complete"
  BY <1>1 DEF Deliver, Event
<1>5. url[m] = "xkpr"
  BY <1>2, <1>3 DEF InvCancel
<1>6. DOMAIN stack = {}
  BY <1>3
<1>7. CASE m \in messages
  <2> DEFINE r == response[m]
  <2>1. PICK script \in BOOLEAN :
          /\ usage' = [x \in Message |->
                         usage[x] - (IF x = m THEN 2 ELSE 0) + B(script /\ x = r)]
          /\ stack' = <<Frame("cancel", m, m, script, IF script /\ r \in Message THEN r ELSE None)>>
    BY <1>7 DEF KprXKPRServiceCancel
  <2>2. messages' = messages \ {m} /\ alive' = alive
    BY <1>7 DEF KprXKPRServiceCancel
  <2>3. Listed' = Listed
    BY <1>1, <1>5, <2>2 DEF Listed
  <2>4. InvCalls'
    <3>1. "cancel" \notin Notifying
      BY DEF Notifying
    <3> QED BY <2>1, <3>1, CallsOne
  <2>5. response'[m] # None
    BY <1>1, <1>7, CancelPending
  <2>6. usage'[m] # 0
    <3>1. usage'[m] >= 1 + host'[m] /\ host'[m] \in Nat /\ usage'[m] \in Nat
      BY <1>2, <2>5, TermsNext
    <3> QED BY <3>1
  <2>7. \A n \in Message : n # m => (usage'[n] = 0 => usage[n] = 0)
    <3> TAKE n \in Message
    <3> HAVE n # m
    <3>1. usage'[n] = usage[n] - 0 + B(script /\ n = r)
      BY <2>1
    <3>2. usage[n] \in Nat /\ B(script /\ n = r) \in {0, 1}
      BY <1>2, Terms, BValue
    <3> QED BY <3>1, <3>2
  <2>8. InvKept'
    <3>1. \A n \in Message \ WaitMessage : alive'[n] = "live" /\ usage'[n] = 0 =>
            alive[n] = "live" /\ usage[n] = 0
      BY <2>2, <2>6, <2>7
    <3> QED BY <1>6, <3>1, KeptKeep DEF Extra
  <2>9. messages' \subseteq messages /\ \A n \in Message : alive'[n] = "live" => alive[n] = "live"
    BY <2>2
  <2> QED BY <1>1, <1>3, <1>4, <2>3, <2>4, <2>8, <2>9, ShellExtra
<1>8. CASE m \notin messages
  <2>1. /\ usage' = [usage EXCEPT ![m] = @ - 1]
        /\ alive' = [n \in Message |-> IF n \in Disposed(m, 1) THEN "freed" ELSE alive[n]]
        /\ messages' = messages /\ stack' = <<>>
    BY <1>3, <1>8 DEF KprXKPRServiceCancel, Free
  <2>2. Listed' = Listed
    BY <1>1, <2>1, SameList
  <2>3. InvCalls'
    BY <2>1, CallsNone
  <2>4. ASSUME NEW n \in Message \ WaitMessage, alive'[n] = "live", usage'[n] = 0
        PROVE  alive[n] = "live" /\ usage[n] = 0
    <3>1. CASE n = m
      <4>1. usage[m] \in Nat /\ usage'[m] = usage[m] - 1
        BY <1>2, <2>1, Terms DEF TypeOK
      <4>2. usage[m] = 1
        BY <2>4, <3>1, <4>1
      <4> QED BY <2>1, <2>4, <3>1, <4>2 DEF Disposed
    <3>2. CASE n # m
      BY <1>2, <2>1, <2>4, <3>2 DEF Disposed, TypeOK
    <3> QED BY <3>1, <3>2
  <2>5. InvKept'
    BY <1>6, <2>4, KeptKeep DEF Extra
  <2>6. \A n \in Message : alive'[n] = "live" => alive[n] = "live"
    BY <2>1
  <2> QED BY <1>1, <1>3, <1>4, <2>1, <2>2, <2>3, <2>5, <2>6, ShellExtra
<1> QED BY <1>7, <1>8

(* A callback returns and nothing follows. *)
LEMMA ReturnExtra ==
  ASSUME Careful, Core, Extra, stack # <<>>, walk = None,
         Top.at \notin {"complete", "cleanup"} \union Notifying,
         stack' = Pop(stack), UNCHANGED <<life, url, request, messages, queues, held, content>>
  PROVE  Extra'
<1>1. TypeOK /\ InvFrames /\ Top.at \notin {"complete", "cleanup"}
  BY DEF Core
<1>2. DOMAIN stack = {1} /\ Top = stack[1] /\ stack' = <<>>
  BY <1>1, SingleFrame
<1>3. shellQ' = shellQ /\ serviceQ' = serviceQ /\ alive' = alive /\ usage' = usage
  BY DEF queues, life
<1>4. Listed' = Listed
  BY SameList
<1>5. InvCalls'
  BY <1>2, CallsNone
<1>6. InvKept'
  <2>1. \A i \in DOMAIN stack : stack[i].at \notin Notifying
    BY <1>2
  <2> QED BY <1>3, <2>1, KeptKeep DEF Extra
<1> QED BY <1>3, <1>4, <1>5, <1>6, ShellExtra

LEMMA ReturnProgressExtra ==
  ASSUME Careful, Core, Extra, ReturnProgress
  PROVE  Extra'
<1>1. /\ stack # <<>> /\ walk = None /\ Top.at = "progress" /\ stack' = Pop(stack)
      /\ UNCHANGED <<life, url, request, messages, queues, held, content>>
  BY DEF ReturnProgress, At, data, target, list
<1>2. Top.at \notin {"complete", "cleanup"} \union Notifying
  BY <1>1 DEF Notifying
<1> QED BY <1>1, <1>2, ReturnExtra

LEMMA ReturnCancelExtra ==
  ASSUME Careful, Core, Extra, Core', ReturnCancel
  PROVE  Extra'
<1> USE ConstantsAssumption
<1> DEFINE m == Top.m
           n == response[m]
           left == [usage EXCEPT ![m] = @ - 1]
<1>1. /\ stack # <<>> /\ walk = None /\ Top.at = "cancel" /\ stack' = Pop(stack)
      /\ IF n \in Message
         THEN KprMessageCancel(n, left, shellQ)
         ELSE usage' = left /\ UNCHANGED <<waiting, request, queues>>
      /\ alive' = [x \in Message |-> IF x \in (IF left[m] = 0 THEN {m} ELSE {})
                                     THEN "freed" ELSE alive[x]]
      /\ messages' = messages \ (IF left[m] = 0 THEN {m} ELSE {})
      /\ url' = url /\ held' = held /\ walk' = walk /\ gone' = gone /\ messaging' = messaging
  BY DEF ReturnCancel, At, Free, content
<1>2. /\ TypeOK /\ InvFrames /\ InvLinked /\ Top.at \notin {"complete", "cleanup"}
      /\ TypeOK' /\ UsageCounts' /\ "cancel" \in Counted
  BY <1>1 DEF Core, Counted
<1>3. /\ DOMAIN stack = {1} /\ Top = stack[1] /\ stack' = <<>> /\ m \in Message
  BY <1>1, <1>2, SingleFrame, TopFrame
<1>4. m \notin messages
  BY <1>1, <1>2, <1>3, Zenon DEF InvFrames
<1>5. n \in Message => request[n] = m /\ n \in messages /\ n # m
  BY <1>2, <1>3, <1>4 DEF InvLinked
<1>6. messages' = messages
  BY <1>1, <1>4
<1>7. left[m] = usage[m] - 1 /\ \A x \in Message : x # m => left[x] = usage[x]
  BY <1>2, <1>3 DEF TypeOK
<1>8. left \in [Message -> Int]
  BY <1>2, <1>3 DEF TypeOK
<1> HIDE DEF m, left, n
<1>9. /\ \A x \in Message : request'[x] = request[x] \/ request'[x] = None
      /\ \A x \in Message : usage'[x] = left[x] \/ x = n
      /\ \/ serviceQ' = serviceQ
         \/ \E x \in Message : serviceQ' = Append(serviceQ, Event("cancel", x))
      /\ \/ shellQ' = shellQ
         \/ \E x \in Message, k \in Counted : shellQ' = Append(shellQ, Event(k, x))
  <2>1. CASE n \in Message /\ waiting[n]
    <3>1. /\ request' = [request EXCEPT ![n] = None]
          /\ usage' = [left EXCEPT ![n] = @ - B(request[n] # None) + B(url[n] = "xkpr")]
          /\ shellQ' = PostShell(shellQ, n, url[n], "cancel")
          /\ serviceQ' = PostService(serviceQ, n, url[n], "cancel")
      BY <1>1, <2>1 DEF KprMessageCancel, Detached
    <3>2. /\ \A x \in Message : request'[x] = request[x] \/ request'[x] = None
          /\ \A x \in Message : usage'[x] = left[x] \/ x = n
      BY <1>2, <1>8, <3>1 DEF TypeOK
    <3>3. /\ \/ serviceQ' = serviceQ
             \/ \E x \in Message : serviceQ' = Append(serviceQ, Event("cancel", x))
          /\ \/ shellQ' = shellQ
             \/ \E x \in Message, k \in Counted : shellQ' = Append(shellQ, Event(k, x))
      BY <1>2, <2>1, <3>1 DEF PostShell, PostService
    <3> QED BY <3>2, <3>3
  <2>2. CASE n \in Message /\ ~waiting[n]
    BY <1>1, <2>2 DEF KprMessageCancel
  <2>3. CASE n \notin Message
    BY <1>1, <2>3 DEF queues
  <2> QED BY <2>1, <2>2, <2>3
<1>10. InvService'
  BY <1>1, <1>2, <1>6, <1>9, SameList, ServiceStays DEF Extra
<1>11. InvCalls'
  BY <1>3, CallsNone
<1>12. InvContent'
  BY <1>1, <1>2, <1>6, <1>9, ContentLess DEF Extra
<1>13. InvKept'
  <2>1. \A i \in DOMAIN stack : stack[i].at \notin Notifying
    BY <1>1, <1>3 DEF Notifying
  <2>2. ASSUME NEW x \in Message \ WaitMessage, alive'[x] = "live", usage'[x] = 0
        PROVE  alive[x] = "live" /\ usage[x] = 0
    <3>1. x # n
      <4>1. x \in messages' => usage'[x] >= 1 + host'[x] /\ host'[x] \in Nat
        BY <1>2, TermsNext
      <4>2. x \notin messages'
        BY <2>2, <4>1
      <4> QED BY <1>5, <1>6, <4>2
    <3>2. left[x] = 0
      BY <1>9, <2>2, <3>1
    <3>3. x # m
      BY <1>1, <2>2, <3>2
    <3> QED BY <1>1, <1>7, <2>2, <3>2, <3>3
  <2> QED BY <2>1, <2>2, KeptKeep DEF Extra
<1>14. InvUnused'
  BY <1>1 DEF Extra, InvUnused
<1> QED BY <1>10, <1>11, <1>12, <1>13, <1>14 DEF Extra

LEMMA CleanupExtra ==
  ASSUME Careful, Core, Extra, Core', Cleanup
  PROVE  Extra'
<1> USE ConstantsAssumption
<1> DEFINE m == Top.m
<1>1. /\ stack # <<>> /\ walk = None /\ Top.at = "cleanup"
      /\ request' = [request EXCEPT ![m] = None]
      /\ usage' = [usage EXCEPT ![m] = @ - 1]
      /\ alive' = [n \in Message |-> IF n \in Disposed(m, 1) THEN "freed" ELSE alive[n]]
      /\ messages' = messages \ Disposed(m, 1)
      /\ stack' = Pop(stack) /\ url' = url /\ shellQ' = shellQ /\ serviceQ' = serviceQ
      /\ held' = held /\ walk' = walk /\ gone' = gone /\ messaging' = messaging
  BY DEF Cleanup, At, Free, data, queues, content
<1>2. TypeOK /\ InvFrames /\ UsageCounts
  BY DEF Core
<1>3. /\ Len(stack) \in DOMAIN stack /\ Len(stack) \in Nat /\ DOMAIN stack = 1 .. Len(stack)
      /\ Top = stack[Len(stack)] /\ m \in Message
  BY <1>1, <1>2, TopFrame
<1>4. m \notin messages
  BY <1>1, <1>2, <1>3, Zenon DEF InvFrames
<1>5. /\ Len(stack') = Len(stack) - 1 /\ stack' \in Seq(Frames)
      /\ \A i \in 1 .. Len(stack) - 1 : stack'[i] = stack[i]
  BY <1>1, <1>2, PopSeq DEF TypeOK
<1>6. /\ Len(stack') <= Len(stack) /\ DOMAIN stack' = 1 .. Len(stack) - 1
      /\ \A i \in DOMAIN stack' : i \in DOMAIN stack /\ stack'[i] = stack[i] /\ i # Len(stack)
  BY <1>3, <1>5
<1>7. messages' = messages
  BY <1>1, <1>4 DEF Disposed
<1>8. /\ request'[m] = None /\ usage'[m] = usage[m] - 1
      /\ \A n \in Message : n # m => request'[n] = request[n] /\ usage'[n] = usage[n]
                                     /\ alive'[n] = alive[n]
  BY <1>1, <1>2, <1>3 DEF TypeOK, Disposed
<1>9. \A i \in DOMAIN stack : stack[i].at = "cleanup"
  <2> SUFFICES ASSUME NEW i \in DOMAIN stack PROVE stack[i].at = "cleanup"
    OBVIOUS
  <2>1. CASE i = Len(stack)
    BY <1>1, <1>3, <2>1
  <2>2. CASE i # Len(stack)
    <3>1. i < Len(stack)
      BY <1>3, <2>2
    <3> QED BY <1>2, <3>1, Zenon DEF InvFrames
  <2> QED BY <2>1, <2>2
<1>10. \A i \in DOMAIN stack' : stack'[i].m # m /\ stack'[i].m \in Message
  <2>1. \A i, j \in DOMAIN stack : i # j => stack[i].m # stack[j].m
    BY <1>2, Zenon DEF InvFrames
  <2>2. \A i \in DOMAIN stack : stack[i].m \in Message
    BY <1>2, FrameFields
  <2>3. \A i \in DOMAIN stack' : stack[i].m # stack[Len(stack)].m
    BY <1>3, <1>6, <2>1
  <2> QED BY <1>3, <1>6, <2>2, <2>3
<1> HIDE DEF m
<1>11. InvService'
  BY <1>1, <1>2, <1>7, SameList, ServiceStays DEF Extra
<1>12. InvCalls'
  <2>1. \A i \in DOMAIN stack' : stack'[i].at = "cleanup"
    BY <1>6, <1>9
  <2>2. \A i \in DOMAIN stack' : i \in DOMAIN stack /\ stack'[i] = stack[i]
    BY <1>6
  <2>3. \A i \in DOMAIN stack' : request'[stack'[i].m] = request[stack'[i].m]
    BY <1>8, <1>10
  <2> QED BY <1>6, <2>1, <2>2, <2>3, CallsKeep DEF Extra
<1>13. InvContent'
  <2>1. \A n \in Message : request'[n] = request[n] \/ request'[n] = None
    BY <1>8
  <2> QED BY <1>1, <1>2, <1>7, <2>1, ContentLess DEF Extra
<1>14. InvKept'
  <2>1. \A i \in DOMAIN stack : stack[i].at \notin Notifying
    BY <1>9 DEF Notifying
  <2>2. ASSUME NEW x \in Message \ WaitMessage, alive'[x] = "live", usage'[x] = 0
        PROVE  alive[x] = "live" /\ usage[x] = 0
    <3>1. x # m
      <4> SUFFICES ASSUME x = m PROVE FALSE
        OBVIOUS
      <4>1. usage[m] \in Nat
        BY <1>2, <1>3, Terms
      <4>2. usage[m] = 1
        BY <1>8, <2>2, <4>1
      <4> QED BY <1>1, <1>3, <2>2, <4>2 DEF Disposed
    <3> QED BY <1>8, <2>2, <3>1
  <2> QED BY <2>1, <2>2, KeptKeep DEF Extra
<1>15. InvUnused'
  BY <1>1 DEF Extra, InvUnused
<1> QED BY <1>11, <1>12, <1>13, <1>14, <1>15 DEF Extra

(* KprMessageComplete returns to the frames below it, which have their       *)
(* messages to clean up.                                                     *)
Waits(below) ==
  /\ below \in Seq(Frames)
  /\ \A i \in DOMAIN below : below[i].at = "cleanup"
  /\ \A i \in DOMAIN below : i < Len(below) => request[below[i].m] \in Message

LEMMA CallsBelow ==
  ASSUME NEW below, Waits(below), stack' = below, request' = request
  PROVE  InvCalls'
<1>1. \A i \in DOMAIN stack' : Sound(stack'[i]) /\ stack'[i].at = "cleanup"
  BY DEF Waits, Sound
<1>2. \A i \in DOMAIN stack' : i < Len(stack') => request'[stack'[i].m] \in Message
  BY DEF Waits
<1> QED BY <1>1, <1>2 DEF InvCalls

LEMMA CallsPush ==
  ASSUME NEW below, Waits(below), \A i \in DOMAIN below : request[below[i].m] \in Message,
         NEW m \in Message, NEW s \in BOOLEAN, NEW w \in Message \union {None}, request' = request,
         stack' = Push(below, Frame("complete", m,
                                    IF request[m] \in Message THEN request[m] ELSE None, s, w))
  PROVE  InvCalls' /\ \E i \in DOMAIN stack' : /\ stack'[i].at = "complete" /\ stack'[i].m = m
                                               /\ request[m] \in Message => stack'[i].handles = request[m]
<1> DEFINE h == IF request[m] \in Message THEN request[m] ELSE None
           F == Frame("complete", m, h, s, w)
           k == Len(below) + 1
<1>1. F \in Frames /\ F.at = "complete" /\ F.m = m /\ F.handles = h
  BY DEF Frame, Frames, Places
<1>h. h = IF request[m] \in Message THEN request[m] ELSE None
  OBVIOUS
<1>a. stack' = Append(below, F)
  BY DEF Push
<1> HIDE DEF F, h
<1>2. /\ stack' \in Seq(Frames) /\ Len(stack') = k
      /\ \A i \in 1 .. Len(below) : stack'[i] = below[i]
      /\ stack'[k] = F
  BY <1>1, <1>a, AppendSeq DEF Waits
<1>3. DOMAIN stack' = 1 .. k /\ DOMAIN below = 1 .. Len(below) /\ Len(below) \in Nat
  BY <1>2 DEF Waits
<1>4. \A i \in DOMAIN stack' : i = k \/ (i \in DOMAIN below /\ stack'[i] = below[i])
  BY <1>2, <1>3
<1>5. k \in DOMAIN stack' /\ ~(k < Len(stack'))
  BY <1>2, <1>3
<1> HIDE DEF k
<1>6. \A i \in DOMAIN stack' : Sound(stack'[i]) /\ stack'[i].at # "progress"
  BY <1>1, <1>2, <1>4 DEF Waits, Sound, Notifying
<1>7. \A i \in DOMAIN stack' : stack'[i].at = "complete" => stack'[i].handles =
            IF request'[stack'[i].m] \in Message THEN request'[stack'[i].m] ELSE None
  <2> SUFFICES ASSUME NEW i \in DOMAIN stack', stack'[i].at = "complete"
               PROVE  stack'[i].handles =
                        IF request'[stack'[i].m] \in Message THEN request'[stack'[i].m] ELSE None
    OBVIOUS
  <2>1. i = k
    BY <1>4 DEF Waits
  <2> QED BY <1>1, <1>2, <1>h, <2>1
<1>8. \A i \in DOMAIN stack' : i < Len(stack') => request'[stack'[i].m] \in Message
  BY <1>4, <1>5
<1>9. InvCalls'
  BY <1>6, <1>7, <1>8 DEF InvCalls
<1>10. stack'[k].at = "complete" /\ stack'[k].m = m /\ (request[m] \in Message => stack'[k].handles = request[m])
  BY <1>1, <1>2, <1>h
<1> QED BY <1>5, <1>9, <1>10

(* What the callers of KprMessageComplete have in common. *)
Calls(u, below) ==
  /\ walk = None /\ walk' = walk /\ gone' = gone /\ held' = held
  /\ \A c \in Content : messaging'[c] = messaging[c]
  /\ u \in [Message -> Int] /\ \A n \in Message \ WaitMessage : u[n] = usage[n]
  /\ \A i \in DOMAIN stack : stack[i].at \notin Notifying
  /\ Waits(below) /\ \A i \in DOMAIN below : request[below[i].m] \in Message

LEMMA DeliveredExtra ==
  ASSUME Careful, Core, Extra, Core', NEW m \in Message, NEW u, NEW r, NEW q, NEW below,
         Calls(u, below), Delivered(m, u, r, q, below), ~Redirected(m), InvService'
  PROVE  Extra'
<1> USE ConstantsAssumption
<1> DEFINE t == request[m]
<1>1. /\ request' = request /\ m \in messages /\ messages' = messages \ {m}
      /\ t = None => /\ usage' = [u EXCEPT ![m] = u[m] - 1 - B(FALSE)]
                     /\ alive' = [n \in Message |-> IF n \in (IF u[m] - 1 - B(FALSE) = 0 THEN {m} ELSE {})
                                                    THEN "freed" ELSE alive[n]]
                     /\ stack' = below
      /\ t # None => \E script \in BOOLEAN :
           /\ usage' = [n \in Message |->
                          (IF n = m THEN u[m] - 1 - B(FALSE) + B(script) ELSE u[n]) - B(n = t)]
           /\ stack' = Push(below, Frame("complete", m, IF t \in Message THEN t ELSE None,
                                         script /\ t # Promise,
                                         IF script /\ t # Promise THEN m ELSE None))
           /\ alive' = alive
  BY DEF Delivered, Free
<1>2. /\ TypeOK /\ TypeOK' /\ UsageCounts' /\ InvFrames' /\ walk = None /\ gone' = gone
      /\ \A c \in Content : messaging'[c] = messaging[c]
      /\ messages \subseteq Message /\ B(FALSE) = 0
  BY BValue DEF Core, Calls, TypeOK
<1>3. InvContent'
  <2>1. \A n \in messages' : request'[n] \in Content => messaging'[request'[n]]
    BY <1>1, <1>2 DEF Extra, InvContent
  <2> QED BY <1>1, <1>2, <2>1, ContentKeep DEF Extra
<1>4. CASE t = None
  <2>1. InvCalls'
    BY <1>1, <1>4, CallsBelow DEF Calls
  <2>2. ASSUME NEW n \in Message \ WaitMessage, alive'[n] = "live", usage'[n] = 0
        PROVE  alive[n] = "live" /\ usage[n] = 0
    <3>1. n # m
      BY <1>1, <1>4, <2>2 DEF Calls
    <3>2. alive'[n] = alive[n]
      BY <1>1, <1>4, <3>1
    <3>3. u \in [Message -> Int] /\ u[n] = usage[n]
      BY DEF Calls
    <3>4. usage'[n] = u[n]
      BY <1>1, <1>4, <3>1, <3>3
    <3> QED BY <2>2, <3>2, <3>3, <3>4
  <2>3. InvKept'
    BY <2>2, KeptKeep DEF Calls, Extra
  <2>4. InvUnused'
    BY <1>1, <1>4 DEF Extra, InvUnused
  <2> QED BY <1>3, <2>1, <2>3, <2>4 DEF Extra
<1>5. CASE t # None
  <2>1. PICK script \in BOOLEAN :
          /\ usage' = [n \in Message |->
                         (IF n = m THEN u[m] - 1 - B(FALSE) + B(script) ELSE u[n]) - B(n = t)]
          /\ stack' = Push(below, Frame("complete", m, IF t \in Message THEN t ELSE None,
                                        script /\ t # Promise,
                                        IF script /\ t # Promise THEN m ELSE None))
          /\ alive' = alive
    BY <1>1, <1>5
  <2>2. PICK s \in BOOLEAN : s = (script /\ t # Promise)
    OBVIOUS
  <2>3. PICK w \in Message \union {None} : w = IF script /\ t # Promise THEN m ELSE None
    OBVIOUS
  <2>4. stack' = Push(below, Frame("complete", m, IF t \in Message THEN t ELSE None, s, w))
    BY <2>1, <2>2, <2>3
  <2>5. InvCalls' /\ \E i \in DOMAIN stack' : /\ stack'[i].at = "complete" /\ stack'[i].m = m
                                              /\ t \in Message => stack'[i].handles = t
    BY <1>1, <2>4, CallsPush DEF Calls
  <2>6. t \in Message => t \in messages'
    BY <1>2, <2>5 DEF InvFrames
  <2>7. ASSUME NEW n \in Message \ WaitMessage, alive'[n] = "live", usage'[n] = 0
        PROVE  alive[n] = "live" /\ usage[n] = 0
    <3>1. /\ request'[n] # None => usage'[n] >= 1 + host'[n]
          /\ n \in messages' => usage'[n] >= 1 + host'[n]
          /\ host'[n] \in Nat
      BY <1>2, TermsNext
    <3>2. request'[n] = None /\ n \notin messages'
      BY <2>7, <3>1
    <3>3. n # m /\ n # t
      BY <1>1, <1>5, <2>6, <3>2
    <3>4. usage'[n] = u[n] - B(n = t) /\ B(n = t) = 0 /\ u[n] \in Int
      BY <2>1, <3>3, BValue DEF Calls
    <3>5. usage'[n] = u[n]
      BY <3>4
    <3> QED BY <2>1, <2>7, <3>5 DEF Calls
  <2>8. InvKept'
    BY <2>7, KeptKeep DEF Calls, Extra
  <2>9. InvUnused'
    BY <2>1 DEF Extra, InvUnused
  <2> QED BY <1>3, <2>5, <2>8, <2>9 DEF Extra
<1> QED BY <1>4, <1>5

(* ... for a message of the xkpr scheme. *)
LEMMA CompleteExtra ==
  ASSUME Careful, Core, Extra, Core', NEW m \in Message, NEW u, NEW r, NEW below,
         Calls(u, below), url[m] = "xkpr", KprMessageComplete(m, u, r, shellQ, below)
  PROVE  Extra'
<1> USE ConstantsAssumption
<1>0. /\ TypeOK /\ TypeOK' /\ UsageCounts' /\ walk = None /\ gone' = gone /\ held' = held
      /\ \A c \in Content : messaging'[c] = messaging[c]
      /\ messages \subseteq Message /\ InvScript /\ "invoke" \in Counted
  BY DEF Core, Calls, TypeOK, Counted
<1>1. ASSUME messages' = messages, request' = request, stack' = below, alive' = alive,
             \A n \in Message : n \in messages \/ usage'[n] = u[n], InvService'
      PROVE  Extra'
  <2>1. InvCalls'
    BY <1>1, CallsBelow DEF Calls
  <2>2. InvContent'
    <3>1. \A n \in messages' : request'[n] \in Content => messaging'[request'[n]]
      BY <1>0, <1>1 DEF Extra, InvContent
    <3> QED BY <1>0, <1>1, <3>1, ContentKeep DEF Extra
  <2>3. ASSUME NEW n \in Message \ WaitMessage, alive'[n] = "live", usage'[n] = 0
        PROVE  alive[n] = "live" /\ usage[n] = 0
    <3>1. n \in messages' => usage'[n] >= 1 + host'[n] /\ host'[n] \in Nat
      BY <1>0, TermsNext
    <3>2. n \notin messages
      BY <1>1, <2>3, <3>1
    <3> QED BY <1>1, <2>3, <3>2 DEF Calls
  <2>4. InvKept'
    BY <2>3, KeptKeep DEF Calls, Extra
  <2>5. InvUnused'
    BY <1>1 DEF Extra, InvUnused
  <2> QED BY <1>1, <2>1, <2>2, <2>4, <2>5 DEF Extra
<1>2. CASE Absent(m, u, r, shellQ, below)
  <2>1. /\ usage' = u /\ shellQ' = shellQ /\ stack' = below /\ alive' = alive /\ url' = url
        /\ request' = request /\ messages' = messages /\ serviceQ' = serviceQ
    BY <1>2 DEF Absent, data, list
  <2>2. InvService'
    BY <1>0, <2>1, SameList, ServiceStays DEF Extra
  <2> QED BY <1>1, <2>1, <2>2
<1>3. CASE Reinvoked(m, u, r, shellQ, below)
  <2>1. /\ m \in messages /\ location[m] \in Accepted
        /\ url' = [url EXCEPT ![m] = location[m]]
        /\ usage' = [u EXCEPT ![m] = @ + B(location[m] = "xkpr")]
        /\ shellQ' = PostShell(shellQ, m, location[m], "invoke")
        /\ serviceQ' = PostService(serviceQ, m, location[m], "invoke")
        /\ stack' = below /\ alive' = alive /\ request' = request /\ messages' = messages
    BY <1>3 DEF Reinvoked, list
  <2>2. \A n \in Message : n \in messages \/ usage'[n] = u[n]
    BY <2>1 DEF Calls
  <2>3. url'[m] = location[m] /\ \A n \in Message : n # m => url'[n] = url[n]
    BY <1>0, <2>1 DEF TypeOK
  <2>4. InvService'
    <3>1. CASE location[m] = "http"
      <4>1. Listed' = Listed \union {m} /\ m \notin Listed
        BY <1>0, <2>1, <2>3, <3>1 DEF Listed
      <4>2. shellQ' = shellQ /\ serviceQ' = Append(serviceQ, Event("invoke", m))
        BY <2>1, <3>1 DEF PostShell, PostService
      <4> QED BY <1>0, <4>1, <4>2, ServiceGiven DEF Extra
    <3>2. CASE location[m] = "xkpr"
      <4>1. Listed' = Listed
        BY <1>0, <2>1, <2>3, <3>2 DEF Listed
      <4>2. serviceQ' = serviceQ /\ shellQ' = Append(shellQ, Event("invoke", m))
        BY <2>1, <3>2 DEF PostShell, PostService
      <4> QED BY <1>0, <4>1, <4>2, ServiceStays DEF Extra
    <3> QED BY <2>1, <3>1, <3>2 DEF Accepted
  <2> QED BY <1>1, <2>1, <2>2, <2>4
<1>4. CASE Delivered(m, u, r, shellQ, below)
  <2>1. ~Redirected(m)
    BY <1>0, <1>4 DEF Delivered, Redirected, Careful, InvScript
  <2>2. /\ messages' = messages \ {m} /\ shellQ' = shellQ /\ serviceQ' = serviceQ
        /\ url' = [url EXCEPT ![m] = @]
    BY <1>4, <2>1 DEF Delivered
  <2>3. \A n \in Message : url'[n] = url[n]
    BY <1>0, <2>2 DEF TypeOK
  <2>4. Listed' = Listed
    BY <1>0, <2>2, <2>3 DEF Listed
  <2>5. InvService'
    BY <1>0, <2>2, <2>4, ServiceStays DEF Extra
  <2> QED BY <1>4, <2>1, <2>5, DeliveredExtra
<1> QED BY <1>2, <1>3, <1>4 DEF KprMessageComplete

LEMMA NoBelow == Waits(<<>>) /\ DOMAIN <<>> = {}
<1>1. <<>> \in Seq(Frames) /\ DOMAIN <<>> = {}
  OBVIOUS
<1> QED BY <1>1 DEF Waits

(* A completion posted by the services thread. *)
LEMMA DeliverCompleteExtra ==
  ASSUME Careful, Core, Extra, Core', NEW m \in Message, DeliverComplete(m)
  PROVE  Extra'
<1> DEFINE q == Tail(shellQ)
<1>1. /\ Deliver("complete", m) /\ KprMessageComplete(m, usage, response, q, <<>>)
      /\ held' = held /\ walk' = walk /\ gone' = gone /\ messaging' = messaging
  BY DEF DeliverComplete, content
<1>2. /\ TypeOK /\ InvHttp /\ "complete" \in Events /\ "complete" \in {"complete", "progress"}
      /\ serviceQ \in Seq(EventRecords) /\ shellQ \in Seq(EventRecords)
      /\ held \in SUBSET Message /\ Listed \in SUBSET Message
      /\ InCustody(serviceQ, held, shellQ, Listed)
  BY DEF Core, Events, TypeOK, Extra, InvService, Listed
<1>3. /\ 1 \in DOMAIN shellQ /\ shellQ[1].ev = "complete" /\ shellQ[1].m = m /\ stack = <<>>
      /\ walk = None
  BY <1>1, <1>2, Delivery
<1>4. url[m] = "http"
  BY <1>2, <1>3 DEF InvHttp
<1>5. shellQ # <<>>
  BY <1>1 DEF Deliver
<1>6. Shrinks(shellQ, q)
  BY <1>2, <1>5, TailShrinks
<1>7. First(shellQ, "complete", m)
  BY <1>3 DEF First
<1> HIDE DEF q
<1>8. m \in Listed /\ InCustody(serviceQ, held, q, Listed \ {m})
  BY <1>2, <1>6, <1>7, CustodyComplete
<1>9. m \in messages /\ ~Redirected(m)
  BY <1>4, <1>8 DEF Listed, Redirected
<1>10. Delivered(m, usage, response, q, <<>>)
  BY <1>1, <1>9 DEF KprMessageComplete, Absent, Reinvoked
<1>11. /\ messages' = messages \ {m} /\ shellQ' = q /\ serviceQ' = serviceQ
       /\ url' = [url EXCEPT ![m] = @]
  BY <1>9, <1>10 DEF Delivered
<1>12. Listed' = Listed \ {m}
  <2>1. \A n \in Message : url'[n] = url[n]
    BY <1>2, <1>11 DEF TypeOK
  <2>2. messages \subseteq Message
    BY <1>2 DEF TypeOK
  <2> QED BY <1>11, <2>1, <2>2 DEF Listed
<1>13. InvService'
  BY <1>1, <1>8, <1>11, <1>12 DEF InvService
<1>14. Calls(usage, <<>>)
  <2>1. DOMAIN stack = {}
    BY <1>3
  <2>2. usage \in [Message -> Int]
    BY <1>2 DEF TypeOK
  <2> QED BY <1>1, <1>3, <2>1, <2>2, NoBelow DEF Calls
<1> QED BY <1>9, <1>10, <1>13, <1>14, DeliveredExtra

LEMMA ContentWaitCompleteExtra ==
  ASSUME Careful, Core, Extra, Core', NEW m \in Message, KPR_content_waitComplete(m)
  PROVE  Extra'
<1> USE ConstantsAssumption
<1> DEFINE u == [usage EXCEPT ![m] = @ - 1]
           r == [response EXCEPT ![m] = None]
<1>1. /\ TypeOK /\ stack = <<>> /\ walk = None /\ m \in WaitMessage /\ url[m] = "xkpr"
      /\ KprMessageComplete(m, u, r, shellQ, <<>>)
      /\ held' = held /\ walk' = walk /\ gone' = gone /\ messaging' = messaging
  BY DEF Core, KPR_content_waitComplete, Idle, InvWait, content
<1>2. u \in [Message -> Int] /\ \A n \in Message \ WaitMessage : u[n] = usage[n]
  BY <1>1 DEF TypeOK
<1> HIDE DEF u, r
<1>3. DOMAIN stack = {}
  BY <1>1
<1>4. Calls(u, <<>>)
  BY <1>1, <1>2, <1>3, NoBelow DEF Calls
<1> QED BY <1>1, <1>4, CompleteExtra

LEMMA ReturnHandlerExtra ==
  ASSUME Careful, Core, Extra, Core', ReturnInvoke \/ ReturnResume
  PROVE  Extra'
<1> USE ConstantsAssumption
<1> DEFINE m == Top.m
<1>1. TypeOK /\ InvFrames /\ stack # <<>> /\ walk = None /\ Top.at \in {"invoke", "resume"}
  BY DEF Core, ReturnInvoke, ReturnResume, At
<1>2. /\ DOMAIN stack = {1} /\ Top = stack[1] /\ Pop(stack) = <<>>
      /\ m \in Message /\ Top.handles = m
  BY <1>1, SingleFrame, TopFrame DEF InvFrames
<1>3. url[m] = "xkpr"
  <2>1. url[stack[1].handles] = "xkpr"
    BY <1>1, <1>2 DEF InvFrames
  <2> QED BY <1>2, <2>1
<1>4. Top.at \notin {"complete", "cleanup"} \union Notifying
  BY <1>1 DEF Notifying
<1> HIDE DEF m
<1>5. CASE Resumes(m)
  <2>1. /\ KprMessageComplete(m, usage, response, shellQ, <<>>)
        /\ held' = held /\ walk' = walk /\ gone' = gone /\ messaging' = messaging
    BY <1>2, <1>5 DEF ReturnInvoke, ReturnResume, content, m
  <2>2. Calls(usage, <<>>)
    <3>1. usage \in [Message -> Int] /\ \A i \in DOMAIN stack : stack[i].at \notin Notifying
      BY <1>1, <1>2, <1>4 DEF TypeOK
    <3> QED BY <1>1, <2>1, <3>1, NoBelow DEF Calls
  <2> QED BY <1>2, <1>3, <2>1, <2>2, CompleteExtra
<1>6. CASE ~Resumes(m)
  <2>1. stack' = Pop(stack) /\ UNCHANGED <<life, url, request, messages, queues, held, content>>
    BY <1>6 DEF ReturnInvoke, ReturnResume, data, target, list, m
  <2> QED BY <1>1, <1>4, <2>1, ReturnExtra
<1> QED BY <1>5, <1>6

LEMMA ReturnCompleteExtra ==
  ASSUME Careful, Core, Extra, Core', ReturnComplete
  PROVE  Extra'
<1> USE ConstantsAssumption
<1> DEFINE f == Top.handles
           c == request[Top.m]
           below == Push(Pop(stack), Frame("cleanup", Top.m, None, FALSE, None))
<1>1. /\ TypeOK /\ InvFrames /\ InvCalls /\ stack # <<>> /\ walk = None /\ Top.at = "complete"
      /\ At("complete")
  BY DEF Core, ReturnComplete, At, Extra
<1>2. /\ below \in Seq(Frames) /\ DOMAIN below = DOMAIN stack
      /\ \A i \in DOMAIN below : below[i].m = stack[i].m /\ below[i].at = "cleanup"
      /\ \A i \in DOMAIN stack : stack[i].at \in {"complete", "cleanup"}
  BY <1>1, ReturnCompleteFrames
<1>3. /\ f \in Message \union {None} /\ Len(stack) \in DOMAIN stack /\ Top = stack[Len(stack)]
      /\ DOMAIN stack = 1 .. Len(stack) /\ Len(stack) \in Nat
  BY <1>1, TopFrame
<1>4. /\ f # None /\ Resumes(f) => KprMessageComplete(f, usage, response, shellQ, below)
      /\ ~(f # None /\ Resumes(f)) => /\ stack' = below
                                      /\ UNCHANGED <<life, data, target, list, queues>>
      /\ held' = held /\ walk' = walk /\ gone' = gone
      /\ messaging' = [x \in Content |-> messaging[x] /\ (x = c => Pending(c))]
  BY DEF ReturnComplete
<1>5. f = IF c \in Message THEN c ELSE None
  BY <1>1, <1>3 DEF InvCalls
<1>6. \A i \in DOMAIN below : i < Len(below) => request[below[i].m] \in Message
  <2>0. below # <<>>
    BY <1>1, ReturnCompleteFrames
  <2> HIDE DEF below
  <2>1. Len(below) \in DOMAIN below /\ Len(below) \in Nat
    BY <1>2, <2>0
  <2>2. Len(below) <= Len(stack)
    BY <1>2, <1>3, <2>1
  <2>3. \A i \in DOMAIN below : i < Len(below) => i < Len(stack)
    BY <1>2, <1>3, <2>1, <2>2
  <2> QED BY <1>1, <1>2, <2>3 DEF InvCalls
<1>7. \A i \in DOMAIN stack : stack[i].at \notin Notifying
  BY <1>2 DEF Notifying
<1>8. Waits(below)
  BY <1>2, <1>6 DEF Waits
<1>9. c = request[stack[Len(stack)].m]
  BY <1>3
<1> HIDE DEF f, below, c
<1>10. CASE f # None /\ Resumes(f)
  <2>1. c \in Message /\ c = f /\ c \notin Content
    BY <1>5, <1>10
  <2>2. \A x \in Content : messaging'[x] = messaging[x]
    <3> TAKE x \in Content
    <3>1. x # c /\ messaging'[x] = (messaging[x] /\ (x = c => Pending(c)))
      BY <1>4, <2>1
    <3>2. messaging[x] \in BOOLEAN
      BY <1>1 DEF TypeOK
    <3> QED BY <3>1, <3>2
  <2>3. \A i \in DOMAIN below : request[below[i].m] \in Message
    <3> TAKE i \in DOMAIN below
    <3>1. CASE i = Len(stack)
      BY <1>2, <1>3, <1>9, <2>1, <3>1
    <3>2. CASE i # Len(stack)
      <4>1. i < Len(stack)
        BY <1>2, <1>3, <3>2
      <4> QED BY <1>1, <1>2, <4>1 DEF InvCalls
    <3> QED BY <3>1, <3>2
  <2>4. Calls(usage, below)
    <3>1. usage \in [Message -> Int]
      BY <1>1 DEF TypeOK
    <3> QED BY <1>1, <1>4, <1>7, <1>8, <2>2, <2>3, <3>1 DEF Calls
  <2>5. url[f] = "xkpr"
    <3>1. stack[Len(stack)].at = "complete" /\ stack[Len(stack)].handles = f /\ f # None
      BY <1>1, <1>3, <1>10 DEF f
    <3>2. stack[Len(stack)].at \in {"invoke", "complete", "resume"}
      BY <3>1
    <3>3. url[stack[Len(stack)].handles] = "xkpr"
      BY <1>1, <1>3, <3>1, <3>2, Zenon DEF InvFrames
    <3> QED BY <3>1, <3>3
  <2> QED BY <1>3, <1>4, <1>10, <2>4, <2>5, CompleteExtra
<1>11. CASE ~(f # None /\ Resumes(f))
  <2>1. /\ stack' = below /\ alive' = alive /\ usage' = usage /\ url' = url
        /\ request' = request /\ messages' = messages /\ shellQ' = shellQ /\ serviceQ' = serviceQ
    BY <1>4, <1>11 DEF life, data, target, list, queues
  <2>2. InvService'
    BY <1>1, <1>4, <2>1, SameList, ServiceStays DEF Extra
  <2>3. InvCalls'
    BY <1>8, <2>1, CallsBelow
  <2>4. InvContent'
    <3>1. \A n \in messages' : request'[n] \in Content => messaging'[request'[n]]
      <4> SUFFICES ASSUME NEW n \in messages, request[n] \in Content
                   PROVE  messaging'[request[n]]
        BY <2>1
      <4>1. n \in Message /\ messaging[request[n]]
        BY <1>1 DEF Extra, InvContent, TypeOK
      <4>2. request[n] = c => Pending(c)
        BY DEF Pending
      <4> QED BY <1>4, <4>1, <4>2
    <3> QED BY <1>1, <1>4, <2>1, <3>1, ContentKeep DEF Extra
  <2>5. InvKept'
    BY <1>7, <2>1, KeptKeep DEF Extra
  <2>6. InvUnused'
    BY <2>1 DEF Extra, InvUnused
  <2> QED BY <2>2, <2>3, <2>4, <2>5, <2>6 DEF Extra
<1> QED BY <1>10, <1>11

LEMMA ShellThreadExtra ==
  ASSUME Careful, Core, Unnotified, Extra, Core', ShellStep
  PROVE  Extra'
<1>1. ASSUME NEW m \in Message,
             \/ KprXKPRServiceInvoke(m) \/ KprXKPRServiceCancel(m)
             \/ DeliverComplete(m) \/ KprMessageNotifyCallback(m) \/ DeliverProgress(m)
             \/ KPR_handler_waitComplete(m) \/ KPR_content_waitComplete(m)
             \/ WalkCancel(m)
      PROVE  Extra'
  BY <1>1, XKPRInvokeExtra, ServiceCancelExtra, DeliverCompleteExtra, NotNotifying,
     DeliverProgressExtra, WaitCompleteExtra, ContentWaitCompleteExtra, ScriptCancelExtra
<1>2. ASSUME ReturnInvoke \/ ReturnCancel \/ ReturnComplete \/ Cleanup \/ ReturnResume
      PROVE  Extra'
  BY <1>2, ReturnHandlerExtra, ReturnCancelExtra, ReturnCompleteExtra, CleanupExtra
<1>3. ASSUME NotifyContext \/ ReturnShell \/ ReturnNotify \/ ReturnProgress
      PROVE  Extra'
  BY <1>3, NotNotifying, ReturnProgressExtra
<1>4. ASSUME WalkEnd
      PROVE  Extra'
  BY <1>4, WalkEndExtra
<1> QED
  BY <1>1, <1>2, <1>3, <1>4 DEF ShellStep

-----------------------------------------------------------------------------
LEMMA InitExtra == Init => Extra
<1> SUFFICES ASSUME Init
             PROVE  Extra
  OBVIOUS
<1> USE ConstantsAssumption
<1>1. /\ alive = [m \in Message |-> "none"] /\ usage = [m \in Message |-> 0]
      /\ request = [m \in Message |-> None] /\ messages = {} /\ held = {} /\ gone = {}
      /\ DOMAIN shellQ = {} /\ DOMAIN serviceQ = {} /\ DOMAIN stack = {}
  BY DEF Init
<1>2. InvService
  BY <1>1 DEF InvService, InCustody, Listed, Once
<1>3. InvCalls /\ InvContent /\ InvKept /\ InvUnused
  BY <1>1 DEF InvCalls, InvContent, InvKept, InvUnused
<1> QED BY <1>2, <1>3 DEF Extra

\* What the other safety properties need besides Core: custody of the services
\* thread, whom the frames call, the flags of contents, and when a message
\* without references may still be there.
THEOREM ExtraCorrect ==
  ASSUME Careful
  PROVE  Spec => [](IInv /\ Extra)
<1>1. Init => IInv /\ Extra
  BY InitSafe, InitExtra DEF IInv, Init, Unnotified
<1>2. IInv /\ Extra /\ [Next]_vars => IInv' /\ Extra'
  <2> SUFFICES ASSUME IInv, Extra, [Next]_vars
               PROVE  IInv' /\ Extra'
    OBVIOUS
  <2>1. IInv' /\ Core /\ Core' /\ Unnotified
    BY NextSafe DEF IInv
  <2>2. CASE UNCHANGED vars
    <3>1. UNCHANGED <<life, url, request, messages, queues, held, stack, content>>
      BY <2>2 DEF vars, data, target, list
    <3> QED BY <2>1, <3>1, RedirectExtra
  <2> QED
    BY <2>1, <2>2, ScriptExtra, ShellThreadExtra, ServiceExtra DEF Next
<1> QED
  BY <1>1, <1>2, PTL DEF Spec

(* A freed message is referred to by nothing. *)
LEMMA NoDanglingHolds ==
  ASSUME IInv, Extra
  PROVE  NoDangling
<1> USE ConstantsAssumption
<1> SUFFICES ASSUME NEW m \in Message, alive[m] = "freed"
             PROVE  /\ host[m] = 0
                    /\ m \notin messages \union held
                    /\ \A i \in DOMAIN shellQ : shellQ[i].m # m
                    /\ \A i \in DOMAIN serviceQ : serviceQ[i] # Event("invoke", m)
                    /\ \A i \in DOMAIN stack : stack[i].m # m /\ stack[i].handles # m
                    /\ \A n \in Message : response[n] # m /\ (n \in messages => request[n] # m)
  BY DEF NoDangling
<1>0. /\ TypeOK /\ InvFrames /\ InvLinked /\ InvCalls /\ "invoke" \in Events /\ "complete" \in Events
      /\ InCustody(serviceQ, held, shellQ, Listed) /\ Core
  BY DEF IInv, Core, Extra, InvService, Events
<1>1. /\ host[m] = 0 /\ request[m] = None /\ response[m] = None /\ m \notin messages
      /\ \A i \in DOMAIN shellQ : shellQ[i].m = m => shellQ[i].ev \notin Counted
  BY <1>0, Unallocated
<1>2. m \notin Listed
  BY <1>1 DEF Listed
<1>3. m \notin held
  BY <1>0, <1>2 DEF InCustody
<1>4. Event("invoke", m).ev = "invoke" /\ Event("invoke", m).m = m
      /\ Event("complete", m).ev = "complete" /\ Event("complete", m).m = m
  BY <1>0, EventOf
<1>5. \A i \in DOMAIN serviceQ : serviceQ[i] # Event("invoke", m)
  BY <1>0, <1>2, <1>4 DEF InCustody
<1>6. ASSUME NEW i \in DOMAIN shellQ, shellQ[i].m = m PROVE FALSE
  <2>1. shellQ[i].ev \in Events
    BY <1>0, EventFields DEF TypeOK
  <2>2. shellQ[i].ev \in {"complete", "progress"}
    BY <1>1, <1>6, <2>1 DEF Counted, Events
  <2>3. shellQ[i].ev # "complete"
    BY <1>0, <1>2, <1>6 DEF InCustody
  <2>4. \E j \in DOMAIN shellQ : shellQ[j] = Event("complete", m)
    BY <1>0, <1>3, <1>6, <2>2, <2>3 DEF InCustody
  <2> QED BY <1>0, <1>2, <1>4, <2>4 DEF InCustody
<1>7. \A n \in Message : response[n] # m /\ (n \in messages => request[n] # m)
  BY <1>0, <1>1 DEF InvLinked
<1>8. ASSUME NEW i \in DOMAIN stack PROVE stack[i].m # m /\ stack[i].handles # m
  <2>1. /\ stack[i].at \in Places /\ stack[i].m \in Message
        /\ stack[i].handles \in Message \union {None} /\ Sound(stack[i])
    <3>1. stack[i] \in Frames
      BY <1>0 DEF TypeOK
    <3> QED BY <1>0, <3>1 DEF Frames, InvCalls
  <2>2. CASE stack[i].at \in {"complete", "cleanup"}
    <3>1. request[stack[i].m] # None
      BY <1>0, <2>2 DEF InvFrames
    <3>2. stack[i].at = "cleanup" => stack[i].handles = None
      BY <1>0 DEF InvFrames
    <3>3. stack[i].at = "complete" /\ stack[i].handles # None => stack[i].handles \in messages
      BY <1>0 DEF InvFrames
    <3> QED BY <1>1, <2>2, <3>1, <3>2, <3>3
  <2>3. CASE stack[i].at = "resume"
    BY <1>0, <1>1, <2>3 DEF InvFrames
  <2>4. CASE stack[i].at = "cancel"
    <3>1. response[stack[i].m] # None /\ stack[i].handles = stack[i].m
      BY <1>0, <2>1, <2>4 DEF InvFrames, Sound
    <3> QED BY <1>1, <3>1
  <2>5. CASE stack[i].at = "invoke"
    <3>1. alive[stack[i].m] = "live" /\ stack[i].handles = stack[i].m
      BY <1>0, <2>5 DEF InvFrames
    <3> QED BY <3>1
  <2>6. stack[i].at \notin Notifying
    BY DEF IInv, Unnotified
  <2>7. CASE stack[i].at = "progress"
    <3>1. alive[stack[i].m] = "live"
      BY <1>0, <2>7 DEF InvCalls
    <3>2. stack[i].handles # None => response[stack[i].handles] # None
      BY <1>0, <2>7 DEF InvFrames
    <3> QED BY <1>1, <3>1, <3>2
  <2> QED BY <2>1, <2>2, <2>3, <2>4, <2>5, <2>6, <2>7 DEF Places
<1> QED BY <1>1, <1>3, <1>5, <1>6, <1>7, <1>8

\* No pointer the shell thread or a service will follow names a freed message
\* (gShell->messages, posted callbacks, service targets, KprHandlerTarget, the
\* native frames around a script), in every careful instance of any size.
THEOREM NoDanglingCorrect ==
  ASSUME Careful
  PROVE  Spec => []NoDangling
<1>1. IInv /\ Extra => NoDangling
  BY NoDanglingHolds
<1> QED BY <1>1, ExtraCorrect, PTL

\* Once the messages of a disposed content are cancelled, none has it as its
\* request target (KprContentCancel, kprMessaging): a late completion calls no
\* freed behaviour.
THEOREM NoGoneTargetCorrect ==
  ASSUME Careful
  PROVE  Spec => []NoGoneTarget
<1>1. ASSUME Core, Extra
      PROVE  NoGoneTarget
  <2>1. gone \subseteq Content /\ None \notin Content
    BY <1>1, ConstantsAssumption DEF Core, TypeOK
  <2> QED BY <1>1, <2>1 DEF NoGoneTarget, Extra, InvContent
<1>2. IInv /\ Extra => NoGoneTarget
  BY <1>1 DEF IInv
<1> QED BY <1>2, ExtraCorrect, PTL

\* Between two callbacks of the shell thread, a message without references has
\* been freed, unless it is one that content.wait made for itself: complete,
\* cancel, resume and the collector all make the last check
\* (KprMessageDispose in kprMessage.c).
THEOREM OnlyWaitsLeak ==
  ASSUME Careful
  PROVE  Spec => []NoLeakButWaits
<1>1. ASSUME Core, Extra
      PROVE  NoLeakButWaits
  <2> SUFFICES ASSUME Idle, NEW m \in Message \ WaitMessage, alive[m] = "live"
               PROVE  usage[m] > 0
    BY DEF NoLeakButWaits
  <2>1. DOMAIN stack = {}
    BY DEF Idle
  <2>2. usage[m] # 0
    BY <1>1, <2>1 DEF Extra, InvKept
  <2>3. usage[m] \in Nat
    BY <1>1, Terms DEF Core
  <2> QED BY <2>2, <2>3
<1>2. IInv /\ Extra => NoLeakButWaits
  BY <1>1 DEF IInv
<1> QED BY <1>2, ExtraCorrect, PTL

\* ... and no message at all is leaked (KprMessageDispose) where scripts do not
\* call content.wait, whose timer may fire before its invoke callback.
THEOREM NoLeakCorrect ==
  ASSUME Careful, "contentWait" \notin Script
  PROVE  Spec => []NoLeak
<1>1. ASSUME Extra, NoLeakButWaits
      PROVE  NoLeak
  <2>1. \A w \in WaitMessage : alive[w] # "live"
    BY <1>1 DEF Extra, InvUnused
  <2> QED BY <1>1, <2>1 DEF NoLeak, NoLeakButWaits
<1>2. Extra /\ NoLeakButWaits => NoLeak
  BY <1>1
<1> QED BY <1>2, ExtraCorrect, OnlyWaitsLeak, PTL

(* Something that is in a queue once at most. *)
LEMMA OnceCount ==
  ASSUME NEW q \in Seq(EventRecords), NEW k \in Events, NEW m \in Message, Once(q, k)
  PROVE  Cardinality({i \in DOMAIN q : q[i] = Event(k, m)}) = B(Holds(q, k, m))
<1> DEFINE P == {i \in DOMAIN q : q[i] = Event(k, m)}
<1>1. Event(k, m).ev = k
  BY EventOf
<1>2. CASE Holds(q, k, m)
  <2>1. PICK j \in DOMAIN q : q[j] = Event(k, m)
    BY <1>2 DEF Holds
  <2>2. P = {j}
    BY <1>1, <2>1 DEF Once
  <2>3. Cardinality({j}) = 1
    BY FS_Singleton
  <2>4. B(Holds(q, k, m)) = 1
    BY <1>2, BValue
  <2> QED BY <2>2, <2>3, <2>4
<1>3. CASE ~Holds(q, k, m)
  <2>1. P = {}
    BY <1>3 DEF Holds
  <2>2. Cardinality({}) = 0
    BY FS_EmptySet
  <2>3. B(Holds(q, k, m)) = 0
    BY <1>3, BValue
  <2> QED BY <2>1, <2>2, <2>3
<1> QED BY <1>2, <1>3

\* The services thread has each message it was given exactly once, and the
\* shell thread hears of its completion exactly once, however the cancel
\* callbacks and the completions pass each other (kprHTTPClient.c and the
\* other services, KprMessageComplete).
THEOREM OneCompletionCorrect ==
  ASSUME Careful
  PROVE  Spec => []OneCompletion
<1>1. ASSUME Core, Extra
      PROVE  OneCompletion
  <2> SUFFICES ASSUME NEW m \in Message
               PROVE  InService(m) = B(m \in messages /\ url[m] = "http")
    BY DEF OneCompletion
  <2>0. /\ TypeOK /\ "invoke" \in Events /\ "complete" \in Events
        /\ serviceQ \in Seq(EventRecords) /\ shellQ \in Seq(EventRecords)
        /\ InCustody(serviceQ, held, shellQ, Listed)
    BY <1>1 DEF Core, Extra, InvService, Events, TypeOK
  <2>1. Once(serviceQ, "invoke") /\ Once(shellQ, "complete")
    BY <2>0 DEF InCustody
  <2>2. InService(m) = B(Holds(serviceQ, "invoke", m)) + B(m \in held)
                       + B(Holds(shellQ, "complete", m))
    BY <2>0, <2>1, OnceCount DEF InService
  <2>a. Event("invoke", m).ev = "invoke" /\ Event("invoke", m).m = m
        /\ Event("complete", m).ev = "complete" /\ Event("complete", m).m = m
    BY <2>0, EventOf
  <2>b. Holds(serviceQ, "invoke", m) => m \in Listed /\ ~Holds(shellQ, "complete", m) /\ m \notin held
    BY <2>0, <2>a DEF InCustody, Holds
  <2>c. m \in held => m \in Listed /\ ~Holds(shellQ, "complete", m)
    BY <2>0 DEF InCustody
  <2>d. Holds(shellQ, "complete", m) => m \in Listed
    BY <2>0, <2>a DEF InCustody, Holds
  <2>e. m \in Listed =>
          Holds(serviceQ, "invoke", m) \/ m \in held \/ Holds(shellQ, "complete", m)
    BY <2>0 DEF InCustody
  <2>f. m \in Listed <=> m \in messages /\ url[m] = "http"
    BY DEF Listed
  <2>3. B(Holds(serviceQ, "invoke", m)) + B(m \in held) + B(Holds(shellQ, "complete", m))
          = B(m \in messages /\ url[m] = "http")
    BY <2>b, <2>c, <2>d, <2>e, <2>f DEF B
  <2> QED BY <2>2, <2>3
<1>2. IInv /\ Extra => OneCompletion
  BY <1>1 DEF IInv
<1> QED BY <1>2, ExtraCorrect, PTL

=============================================================================
