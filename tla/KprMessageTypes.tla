-------------------------- MODULE KprMessageTypes ---------------------------
(***************************************************************************)
(* Lemmas about the queues and the stack of KprMessage, and the proof that  *)
(* its variables keep their types, for every instance of its constants.     *)
(***************************************************************************)
EXTENDS KprMessageInvariant, FiniteSetTheorems, SequenceTheorems, TLAPS

(* Sequences: a prefix, what Pop and the top of the stack are. *)
LEMMA PrefixSeq ==
  ASSUME NEW S, NEW s, NEW k \in Nat, \A i \in 1 .. k : s[i] \in S
  PROVE /\ SubSeq(s, 1, k) \in Seq(S)
        /\ Len(SubSeq(s,1,k)) = k
        /\ \A i \in 1 .. k : SubSeq(s,1,k)[i] = s[i]
 <1>1. /\ SubSeq(s, 1, k) \in Seq(S)
       /\ Len(SubSeq(s,1,k)) = (IF 1 <= k THEN k-1+1 ELSE 0)
       /\ \A i \in 1 .. k-1+1 : SubSeq(s,1,k)[i] = s[1+i-1]
   BY SubSeqProperties
 <1>2. \A i \in 1 .. k : 1 + i - 1 = i
   OBVIOUS
 <1>3. k - 1 + 1 = k /\ (IF 1 <= k THEN k-1+1 ELSE 0) = k
   OBVIOUS
 <1>4. \A i \in 1 .. k : SubSeq(s,1,k)[i] = s[i]
   BY <1>1, <1>2, <1>3, Zenon
 <1> QED BY <1>1, <1>3, <1>4, Zenon
LEMMA PopSeq ==
  ASSUME NEW S, NEW s \in Seq(S), s # <<>>
  PROVE  /\ Pop(s) \in Seq(S)
         /\ s[Len(s)] \in S
         /\ Len(s) \in Nat \ {0}
         /\ Len(Pop(s)) = Len(s) - 1
         /\ \A i \in 1 .. Len(s) - 1 : Pop(s)[i] = s[i]
<1>1. Len(s) - 1 \in Nat /\ Len(s) \in Nat \ {0} /\ \A i \in 1 .. Len(s) : s[i] \in S
  OBVIOUS
<1>2. (\A i \in 1 .. Len(s) - 1 : s[i] \in S) /\ s[Len(s)] \in S
  BY <1>1
<1> DEFINE k == Len(s) - 1
<1>3. k \in Nat /\ \A i \in 1 .. k : s[i] \in S
  BY <1>1, <1>2
<1> HIDE DEF k
<1>4. /\ SubSeq(s, 1, k) \in Seq(S)
      /\ Len(SubSeq(s, 1, k)) = k
      /\ \A i \in 1 .. k : SubSeq(s, 1, k)[i] = s[i]
  BY <1>3, PrefixSeq
<1>5. /\ Pop(s) \in Seq(S) /\ Len(Pop(s)) = Len(s) - 1
      /\ \A i \in 1 .. Len(s) - 1 : Pop(s)[i] = s[i]
  BY <1>4, Zenon DEF Pop, k
<1> QED
  BY <1>1, <1>2, <1>5, Zenon

LEMMA TailSeq ==
  ASSUME NEW S, NEW s \in Seq(S), s # <<>>
  PROVE  /\ Tail(s) \in Seq(S)
         /\ Head(s) \in S
         /\ Len(Tail(s)) = Len(s) - 1
         /\ \A i \in 1 .. Len(s) - 1 : Tail(s)[i] = s[i + 1]
  OBVIOUS

LEMMA AppendSeq ==
  ASSUME NEW S, NEW s \in Seq(S), NEW e \in S
  PROVE  /\ Append(s, e) \in Seq(S)
         /\ Len(Append(s, e)) = Len(s) + 1
         /\ \A i \in 1 .. Len(s) : Append(s, e)[i] = s[i]
         /\ Append(s, e)[Len(s) + 1] = e
  OBVIOUS

-----------------------------------------------------------------------------
(* CountedIn: how the number of counted callbacks of m follows the queue.   *)

CountedPlaces(q, m) == {i \in DOMAIN q : q[i].m = m /\ q[i].ev \in Counted}
Counts(e, m)  == B(e.m = m /\ e.ev \in Counted)

LEMMA CountNat ==
  ASSUME NEW q \in Seq(EventRecords), NEW m
  PROVE  /\ IsFiniteSet(CountedPlaces(q, m))
         /\ CountedIn(q, m) \in Nat
         /\ \A i \in DOMAIN q : q[i].m = m /\ q[i].ev \in Counted => CountedIn(q, m) >= 1
<1>1. IsFiniteSet(1 .. Len(q))
  BY FS_Interval
<1>2. CountedPlaces(q, m) \in SUBSET (1 .. Len(q))
  BY DEF CountedPlaces
<1>3. IsFiniteSet(CountedPlaces(q, m))
  BY <1>1, <1>2, FS_Subset
<1>4. CountedIn(q, m) = Cardinality(CountedPlaces(q, m))
  BY DEF CountedIn, CountedPlaces
<1>5. CountedIn(q, m) \in Nat
  BY <1>3, <1>4, FS_CardinalityType
<1>6. ASSUME NEW i \in DOMAIN q, q[i].m = m, q[i].ev \in Counted
      PROVE  CountedIn(q, m) >= 1
  <2>1. CountedPlaces(q, m) # {}
    BY <1>6 DEF CountedPlaces
  <2>2. CountedIn(q, m) # 0
    BY <1>3, <1>4, <2>1, FS_EmptySet
  <2> QED
    BY <1>5, <2>2
<1> QED
  BY <1>3, <1>5, <1>6

LEMMA CountEmpty ==
  ASSUME NEW m
  PROVE  CountedIn(<<>>, m) = 0
<1>1. {i \in DOMAIN <<>> : <<>>[i].m = m /\ <<>>[i].ev \in Counted} = {}
  OBVIOUS
<1> QED
  BY <1>1, FS_EmptySet DEF CountedIn

LEMMA CountAppend ==
  ASSUME NEW q \in Seq(EventRecords), NEW e \in EventRecords, NEW m
  PROVE  CountedIn(Append(q, e), m) = CountedIn(q, m) + Counts(e, m)
<1> DEFINE r == Append(q, e)
           n == Len(q) + 1
<1>1. /\ Len(q) \in Nat /\ DOMAIN q = 1 .. Len(q) /\ DOMAIN r = 1 .. n
      /\ \A i \in 1 .. Len(q) : r[i] = q[i]
      /\ r[n] = e
  BY AppendSeq
<1>2. IsFiniteSet(CountedPlaces(q, m)) /\ CountedIn(q, m) \in Nat
  BY CountNat
<1>3. CASE e.m = m /\ e.ev \in Counted
  <2>1. CountedPlaces(r, m) = CountedPlaces(q, m) \union {n}
    BY <1>1, <1>3 DEF CountedPlaces
  <2>2. n \notin CountedPlaces(q, m)
    BY <1>1 DEF CountedPlaces
  <2>3. Cardinality(CountedPlaces(r, m)) = Cardinality(CountedPlaces(q, m)) + 1
    BY <1>2, <2>1, <2>2, FS_AddElement
  <2> QED
    BY <1>3, <2>3 DEF CountedIn, CountedPlaces, Counts, B
<1>4. CASE ~(e.m = m /\ e.ev \in Counted)
  <2>1. CountedPlaces(r, m) = CountedPlaces(q, m)
    BY <1>1, <1>4 DEF CountedPlaces
  <2>2. CountedIn(r, m) = CountedIn(q, m)
    BY <2>1 DEF CountedIn, CountedPlaces
  <2> QED
    BY <1>2, <1>4, <2>2 DEF Counts, B
<1> QED
  BY <1>3, <1>4

LEMMA CountTail ==
  ASSUME NEW q \in Seq(EventRecords), q # <<>>, NEW m
  PROVE  CountedIn(Tail(q), m) = CountedIn(q, m) - Counts(Head(q), m)
<1> DEFINE r == Tail(q)
           T == CountedPlaces(q, m) \ {1}
           f == [i \in CountedPlaces(r, m) |-> i + 1]
<1>1. /\ Len(q) \in Nat \ {0} /\ DOMAIN q = 1 .. Len(q)
      /\ r \in Seq(EventRecords) /\ DOMAIN r = 1 .. Len(q) - 1
      /\ \A i \in 1 .. Len(q) - 1 : r[i] = q[i + 1]
      /\ Head(q) = q[1]
  BY TailSeq
<1>2. IsFiniteSet(CountedPlaces(q, m)) /\ IsFiniteSet(CountedPlaces(r, m)) /\ CountedIn(q, m) \in Nat
  BY <1>1, CountNat
<1>3. f \in Bijection(CountedPlaces(r, m), T)
  <2>1. f \in [CountedPlaces(r, m) -> T]
    BY <1>1 DEF CountedPlaces
  <2>2. \A a, b \in CountedPlaces(r, m) : f[a] = f[b] => a = b
    BY <1>1 DEF CountedPlaces
  <2>3. \A t \in T : \E s \in CountedPlaces(r, m) : f[s] = t
    <3> TAKE t \in T
    <3>1. t - 1 \in CountedPlaces(r, m)
      BY <1>1 DEF CountedPlaces
    <3>2. f[t - 1] = t
      BY <1>1, <3>1 DEF CountedPlaces
    <3> QED
      BY <3>1, <3>2
  <2> QED
    BY <2>1, <2>2, <2>3 DEF Bijection, Injection, Surjection, IsInjective
<1>4. Cardinality(T) = Cardinality(CountedPlaces(r, m))
  BY <1>2, <1>3, FS_Bijection DEF ExistsBijection
<1>5. Cardinality(T) = IF 1 \in CountedPlaces(q, m) THEN CountedIn(q, m) - 1 ELSE CountedIn(q, m)
  BY <1>2, FS_RemoveElement DEF CountedIn, CountedPlaces
<1>6. 1 \in CountedPlaces(q, m) <=> Head(q).m = m /\ Head(q).ev \in Counted
  BY <1>1 DEF CountedPlaces
<1>7. CountedIn(r, m) = Cardinality(T)
  BY <1>4 DEF CountedIn, CountedPlaces
<1> QED
  BY <1>2, <1>5, <1>6, <1>7 DEF Counts, B

-----------------------------------------------------------------------------
(* Type correctness.                                                        *)

LEMMA FramesInStack ==
  ASSUME TypeOK, stack # <<>>
  PROVE  /\ Top \in Frames
         /\ Pop(stack) \in Seq(Frames)
  BY PopSeq DEF TypeOK, Top

LEMMA PostTypes ==
  ASSUME NEW q \in Seq(EventRecords), NEW m \in Message, NEW s, NEW k \in Events
  PROVE  /\ PostShell(q, m, s, k) \in Seq(EventRecords)
         /\ PostService(q, m, s, k) \in Seq(EventRecords)
<1>1. Event(k, m) \in EventRecords
  BY DEF Event, EventRecords
<1>2. Append(q, Event(k, m)) \in Seq(EventRecords)
  BY <1>1, AppendSeq
<1> QED
  BY <1>2 DEF PostShell, PostService

LEMMA CompleteType ==
  ASSUME TypeOK, NEW m \in Message, NEW u \in [Message -> Int],
         NEW r \in [Message -> Responses], NEW q \in Seq(EventRecords),
         NEW below \in Seq(Frames),
         KprMessageComplete(m, u, r, q, below)
  PROVE  /\ alive' \in [Message -> {"none", "live", "freed"}]
         /\ usage' \in [Message -> Int]
         /\ host' \in [Message -> Nat]
         /\ waiting' \in [Message -> BOOLEAN]
         /\ url' \in [Message -> Schemes]
         /\ location' \in [Message -> Schemes \union {"nil"}]
         /\ request' \in [Message -> Targets]
         /\ response' \in [Message -> Responses]
         /\ messages' \subseteq Message
         /\ looped' \in BOOLEAN
         /\ shellQ' \in Seq(EventRecords)
         /\ serviceQ' \in Seq(EventRecords)
         /\ stack' \in Seq(Frames)
<1>1. CASE Absent(m, u, r, q, below)
  BY <1>1 DEF TypeOK, Absent, data, list
<1>2. CASE Reinvoked(m, u, r, q, below)
  <2>1. "invoke" \in Events
    BY DEF Events
  <2>2. location[m] \in Accepted /\ Accepted \subseteq Schemes
    BY <1>2 DEF Reinvoked, Schemes
  <2>3. shellQ' \in Seq(EventRecords) /\ serviceQ' \in Seq(EventRecords)
    BY <1>2, <2>1, PostTypes DEF Reinvoked, TypeOK
  <2>4. usage' \in [Message -> Int]
    BY <1>2 DEF Reinvoked, TypeOK, B
  <2> QED
    BY <1>2, <2>2, <2>3, <2>4 DEF TypeOK, Reinvoked, list
<1>3. CASE Delivered(m, u, r, q, below)
  <2>1. B(TRUE) = 1 /\ B(FALSE) = 0 /\ \A x : B(x) \in Int
    BY DEF B
  <2>2. /\ waiting' \in [Message -> BOOLEAN]
        /\ url' \in [Message -> Schemes]
        /\ location' \in [Message -> Schemes \union {"nil"}]
        /\ request' \in [Message -> Targets]
        /\ messages' \subseteq Message
        /\ looped' \in BOOLEAN
        /\ shellQ' \in Seq(EventRecords)
        /\ serviceQ' \in Seq(EventRecords)
    BY <1>3 DEF Delivered, TypeOK, Redirected
  <2>3. CASE request[m] = None
    BY <1>3, <2>1, <2>2, <2>3 DEF Delivered, TypeOK, Free
  <2>4. CASE request[m] # None
    <3>1. PICK script \in BOOLEAN :
            /\ host' = [host EXCEPT ![m] = @ + B(script)]
            /\ stack' = Push(below,
                 Frame("complete", m, IF request[m] \in Message THEN request[m] ELSE None,
                       script /\ request[m] # Promise,
                       IF script /\ request[m] # Promise THEN m ELSE None))
      BY <1>3, <2>4 DEF Delivered
    <3>2. /\ usage' \in [Message -> Int]
          /\ response' \in [Message -> Responses]
          /\ alive' \in [Message -> {"none", "live", "freed"}]
      <4> DEFINE left == u[m] - 1 - B(Redirected(m) /\ request[m] # None)
      <4>1. left \in Int
        BY <2>1
      <4>2. PICK b \in BOOLEAN :
              usage' = [n \in Message |->
                         (IF n = m THEN left + B(b) ELSE u[n]) - B(n = request[m])]
        BY <1>3, <2>4 DEF Delivered
      <4>3. usage' \in [Message -> Int]
        BY <2>1, <4>1, <4>2
      <4>4. response' = [n \in Message |-> IF n = request[m] THEN None ELSE r[n]]
            /\ alive' = alive
        BY <1>3, <2>4 DEF Delivered
      <4> QED
        BY <4>3, <4>4 DEF TypeOK, Responses
    <3>3. host' \in [Message -> Nat]
      BY <3>1 DEF TypeOK, B
    <3>4. stack' \in Seq(Frames)
      BY <3>1, AppendSeq DEF Push, Frame, Frames, Places, TypeOK
    <3> QED
      BY <2>2, <3>2, <3>3, <3>4
  <2> QED
    BY <2>3, <2>4
<1> QED
  BY <1>1, <1>2, <1>3 DEF KprMessageComplete

LEMMA InvokeType ==
  ASSUME TypeOK, NEW m \in Message, NEW t \in Targets, KprMessageInvoke(m, t)
  PROVE  /\ usage' \in [Message -> Int]
         /\ waiting' \in [Message -> BOOLEAN]
         /\ request' \in [Message -> Targets]
         /\ messages' \subseteq Message
         /\ looped' \in BOOLEAN
         /\ shellQ' \in Seq(EventRecords)
         /\ serviceQ' \in Seq(EventRecords)
<1>1. shellQ' \in Seq(EventRecords) /\ serviceQ' \in Seq(EventRecords)
  BY PostTypes DEF KprMessageInvoke, TypeOK, Events
<1>2. usage' \in [Message -> Int]
  BY DEF KprMessageInvoke, TypeOK, InvokeRefs, B
<1> QED
  BY <1>1, <1>2 DEF KprMessageInvoke, TypeOK

LEMMA CancelType ==
  ASSUME TypeOK, NEW m \in Message, NEW u \in [Message -> Int],
         NEW q \in Seq(EventRecords), KprMessageCancel(m, u, q)
  PROVE  /\ usage' \in [Message -> Int]
         /\ waiting' \in [Message -> BOOLEAN]
         /\ request' \in [Message -> Targets]
         /\ shellQ' \in Seq(EventRecords)
         /\ serviceQ' \in Seq(EventRecords)
<1>1. shellQ' \in Seq(EventRecords) /\ serviceQ' \in Seq(EventRecords)
  BY PostTypes DEF KprMessageCancel, TypeOK, Events
<1>2. usage' \in [Message -> Int]
  BY DEF KprMessageCancel, TypeOK, B
<1> QED
  BY <1>1, <1>2 DEF KprMessageCancel, TypeOK, Detached, Targets

LEMMA ScriptTypes ==
  ASSUME TypeOK, ScriptStep
  PROVE  TypeOK'
<1> USE ConstantsAssumption
<1>1. ASSUME NEW m \in Message, KPR_Message(m)
      PROVE  TypeOK'
  BY <1>1 DEF TypeOK, KPR_Message, data, target, list, queues, content
<1>2. ASSUME NEW m \in Message, KPR_message_destructor(m)
      PROVE  TypeOK'
  <2>1. Cardinality({i \in DOMAIN stack : stack[i].wrap = m}) \in Nat
    <3>1. IsFiniteSet(1 .. Len(stack))
      BY FS_Interval DEF TypeOK
    <3>2. {i \in DOMAIN stack : stack[i].wrap = m} \in SUBSET (1 .. Len(stack))
      BY DEF TypeOK
    <3> QED
      BY <3>1, <3>2, FS_Subset, FS_CardinalityType
  <2>2. host[m] \in Nat /\ host[m] > 0
    BY <1>2, <2>1 DEF KPR_message_destructor, Held, TypeOK
  <2> QED
    BY <1>2, <2>2 DEF TypeOK, KPR_message_destructor, Free, data, target, queues, content
<1>3. ASSUME NEW m \in Message, KPR_invoke_only(m)
      PROVE  TypeOK'
  <2>1. None \in Targets /\ KprMessageInvoke(m, None)
    BY <1>3 DEF KPR_invoke_only, Targets
  <2> QED
    BY <1>3, <2>1, InvokeType DEF TypeOK, KPR_invoke_only, Call, content
<1>4. ASSUME NEW m \in Message, KPR_message_invoke(m)
      PROVE  TypeOK'
  <2>1. Promise \in Targets /\ KprMessageInvoke(m, Promise)
    BY <1>4 DEF KPR_message_invoke, Targets
  <2> QED
    BY <1>4, <2>1, InvokeType DEF TypeOK, KPR_message_invoke, Call, content
<1>5. ASSUME NEW m \in Message, KPR_handler_invoke(m)
      PROVE  TypeOK'
  <2>1. Top.handles \in Message
    BY <1>5, FramesInStack DEF KPR_handler_invoke, HandlerRuns, Frames
  <2>2. shellQ' \in Seq(EventRecords) /\ serviceQ' \in Seq(EventRecords)
    BY <1>5, PostTypes DEF KPR_handler_invoke, queues, TypeOK, Events
  <2>3. usage' \in [Message -> Int]
    <3>1. InvokeRefs(m, Top.handles) \in Int
      BY DEF InvokeRefs, B
    <3>2. CASE Invokable(m)
      <4>1. usage' = [usage EXCEPT ![Top.handles] = @ + 1, ![m] = @ + InvokeRefs(m, Top.handles)]
        BY <1>5, <3>2 DEF KPR_handler_invoke
      <4> QED
        BY <2>1, <3>1, <4>1 DEF TypeOK
    <3>3. CASE ~Invokable(m)
      BY <1>5, <2>1, <3>3 DEF KPR_handler_invoke, TypeOK
    <3> QED
      BY <3>2, <3>3
  <2>4. /\ waiting' \in [Message -> BOOLEAN]
        /\ request' \in [Message -> Targets]
        /\ response' \in [Message -> Responses]
        /\ messages' \subseteq Message
        /\ looped' \in BOOLEAN
    <3>1. CASE Invokable(m)
      <4>1. /\ response' = [response EXCEPT ![Top.handles] = m]
            /\ waiting' = [waiting EXCEPT ![m] = TRUE]
            /\ request' = [request EXCEPT ![m] = Top.handles]
            /\ messages' = messages \union {m}
            /\ looped' = (looped \/ m \in messages)
        BY <1>5, <3>1 DEF KPR_handler_invoke
      <4> QED
        BY <2>1, <4>1 DEF TypeOK, Targets, Responses
    <3>2. CASE ~Invokable(m)
      BY <1>5, <2>1, <3>2 DEF KPR_handler_invoke, TypeOK, Responses, list
    <3> QED
      BY <3>1, <3>2
  <2> QED
    BY <1>5, <2>2, <2>3, <2>4 DEF TypeOK, KPR_handler_invoke, Call, content
<1>6. ASSUME NEW m \in Message, KPR_message_cancel(m)
      PROVE  TypeOK'
  <2>1. KprMessageCancel(m, usage, shellQ) /\ usage \in [Message -> Int]
        /\ shellQ \in Seq(EventRecords)
    BY <1>6 DEF KPR_message_cancel, TypeOK
  <2> QED
    BY <1>6, <2>1, CancelType DEF TypeOK, KPR_message_cancel, list, content
<1>7. ASSUME NEW m \in Message, KprMessageNotify(m)
      PROVE  TypeOK'
  <2>1. shellQ' \in Seq(EventRecords)
    BY <1>7, AppendSeq DEF KprMessageNotify, Event, EventRecords, Events, TypeOK
  <2> QED
    BY <1>7, <2>1 DEF TypeOK, KprMessageNotify, Call, data, target, list, content
<1>8. ASSUME NEW m \in Message, NEW c \in Content, KPR_content_invoke(c, m)
      PROVE  TypeOK'
  <2>1. c \in Targets /\ KprMessageInvoke(m, c)
    BY <1>8 DEF KPR_content_invoke, Targets
  <2> QED
    BY <1>8, <2>1, InvokeType DEF TypeOK, KPR_content_invoke, Call
<1>9. ASSUME NEW m \in Message, NEW c \in Content, KPR_content_wait(c, m)
      PROVE  TypeOK'
  <2>1. shellQ' \in Seq(EventRecords)
    BY <1>9, AppendSeq DEF KPR_content_wait, Event, EventRecords, Events, TypeOK
  <2>2. usage' \in [Message -> Int]
    BY <1>9 DEF KPR_content_wait, InvokeRefs, B, TypeOK
  <2> QED
    BY <1>9, <2>1, <2>2 DEF TypeOK, KPR_content_wait, Call, Targets, Responses
<1>10. ASSUME NEW c \in Content, KprContentCancel(c) \/ KprContentDispose(c)
       PROVE  TypeOK'
  BY <1>10 DEF TypeOK, KprContentCancel, KprContentDispose, life, data, target, list, queues
<1>11. ASSUME KPR_handler_wait
       PROVE  TypeOK'
  <2>1. response' \in [Message -> Responses] /\ usage' \in [Message -> Int]
    BY <1>11, FramesInStack DEF KPR_handler_wait, HandlerRuns, Frames, TypeOK, Responses
  <2> QED
    BY <1>11, <2>1 DEF TypeOK, KPR_handler_wait, Call, data, list, queues, content
<1>12. ASSUME NEW s \in RedirectTo, KPR_handler_redirect(s)
       PROVE  TypeOK'
  <2>1. location' \in [Message -> Schemes \union {"nil"}]
    BY <1>12 DEF KPR_handler_redirect, TypeOK
  <2> QED
    BY <1>12, <2>1
    DEF TypeOK, KPR_handler_redirect, Call, life, target, list, queues, content
<1>13. ASSUME KPR_handler_get_message
       PROVE  TypeOK'
  <2>1. Top.handles \in Message
    BY <1>13, FramesInStack DEF KPR_handler_get_message, Frames
  <2> QED
    BY <1>13, <2>1 DEF TypeOK, KPR_handler_get_message, data, target, list, queues, content
<1> QED
  BY <1>1, <1>2, <1>3, <1>4, <1>5, <1>6, <1>7, <1>8, <1>9, <1>10, <1>11, <1>12, <1>13
  DEF ScriptStep

LEMMA ShellTypes ==
  ASSUME TypeOK, ShellStep
  PROVE  TypeOK'
<1> USE ConstantsAssumption
<1> DEFINE Rest == UNCHANGED <<held, content, calls>>
<1>1. ASSUME NEW m \in Message, KprXKPRServiceInvoke(m)
      PROVE  TypeOK'
  <2>1. stack' \in Seq(Frames)
    BY <1>1 DEF KprXKPRServiceInvoke, Frame, Frames, Places
  <2>2. shellQ' \in Seq(EventRecords)
    BY <1>1, TailSeq DEF KprXKPRServiceInvoke, Deliver, TypeOK
  <2> QED
    BY <1>1, <2>1, <2>2 DEF TypeOK, KprXKPRServiceInvoke, B, data, target, list, content
<1>2. ASSUME NEW m \in Message, KprXKPRServiceCancel(m)
      PROVE  TypeOK'
  <2>1. shellQ' \in Seq(EventRecords)
    BY <1>2, TailSeq DEF KprXKPRServiceCancel, Deliver, TypeOK
  <2>2. CASE m \in messages
    <3>1. PICK script \in BOOLEAN :
            /\ messages' = messages \ {m}
            /\ host' = [x \in Message |-> host[x] + B(script /\ x = response[m])]
            /\ usage' = [x \in Message |-> usage[x] - (IF x = m THEN 2 ELSE 0)
                                            + B(script /\ x = response[m])]
            /\ stack' = <<Frame("cancel", m, m, script,
                 IF script /\ response[m] \in Message THEN response[m] ELSE None)>>
            /\ UNCHANGED alive
      BY <1>2, <2>2 DEF KprXKPRServiceCancel
    <3>2. stack' \in Seq(Frames)
      BY <3>1 DEF Frame, Frames, Places
    <3>3. \A x : B(x) \in {0, 1}
      BY DEF B
    <3>4. host' \in [Message -> Nat] /\ usage' \in [Message -> Int]
      <4>1. \A x \in Message : B(script /\ x = response[m]) \in {0, 1}
        BY <3>3
      <4>2. \A x \in Message : host[x] \in Nat /\ usage[x] \in Int
        BY DEF TypeOK
      <4> QED
        BY <3>1, <4>1, <4>2
    <3> QED
      BY <1>2, <2>1, <3>1, <3>2, <3>4
      DEF TypeOK, KprXKPRServiceCancel, data, target, content
  <2>3. CASE m \notin messages
    <3>1. /\ usage' \in [Message -> Int]
          /\ alive' \in [Message -> {"none", "live", "freed"}]
      <4>1. usage' = [usage EXCEPT ![m] = @ - 1] /\ Free(Disposed(m, 1))
        BY <1>2, <2>3 DEF KprXKPRServiceCancel
      <4> QED
        BY <4>1 DEF Free, TypeOK
    <3> QED
      BY <1>2, <2>1, <2>3, <3>1 DEF TypeOK, KprXKPRServiceCancel, data, target, content
  <2> QED
    BY <2>2, <2>3
<1>3. ASSUME NEW m \in Message, NEW u \in [Message -> Int],
             NEW r \in [Message -> Responses], NEW q \in Seq(EventRecords),
             NEW below \in Seq(Frames),
             KprMessageComplete(m, u, r, q, below), UNCHANGED <<held, walk, gone, calls>>,
             messaging' \in [Content -> BOOLEAN]
      PROVE  TypeOK'
  BY <1>3, CompleteType DEF TypeOK
<1>4. ASSUME NEW m \in Message, DeliverComplete(m)
      PROVE  TypeOK'
  <2>1. /\ Tail(shellQ) \in Seq(EventRecords) /\ <<>> \in Seq(Frames)
        /\ usage \in [Message -> Int] /\ response \in [Message -> Responses]
        /\ messaging' \in [Content -> BOOLEAN]
    BY <1>4, TailSeq DEF DeliverComplete, Deliver, TypeOK, content
  <2> QED
    BY <1>3, <1>4, <2>1 DEF DeliverComplete, content
<1>5. ASSUME NEW m \in Message, KprMessageNotifyCallback(m)
      PROVE  TypeOK'
  <2>1. stack' \in Seq(Frames)
    BY <1>5 DEF KprMessageNotifyCallback, Frame, Frames, Places, Notifying
  <2>2. shellQ' \in Seq(EventRecords)
    BY <1>5, TailSeq DEF KprMessageNotifyCallback, Deliver, TypeOK
  <2>3. usage' \in [Message -> Int]
    BY <1>5 DEF KprMessageNotifyCallback, TypeOK
  <2> QED
    BY <1>5, <2>1, <2>2, <2>3
    DEF TypeOK, KprMessageNotifyCallback, data, target, list, content
<1>6. ASSUME NEW m \in Message, DeliverProgress(m)
      PROVE  TypeOK'
  <2>1. stack' \in Seq(Frames)
    BY <1>6 DEF DeliverProgress, Frame, Frames, Places
  <2>2. shellQ' \in Seq(EventRecords)
    BY <1>6, TailSeq DEF DeliverProgress, Deliver, TypeOK
  <2> QED
    BY <1>6, <2>1, <2>2 DEF TypeOK, DeliverProgress, B, data, target, list, content
<1>7. ASSUME NEW m \in Message, KPR_handler_waitComplete(m)
      PROVE  TypeOK'
  <2>1. stack' \in Seq(Frames)
    BY <1>7 DEF KPR_handler_waitComplete, Frame, Frames, Places
  <2> QED
    BY <1>7, <2>1
    DEF TypeOK, KPR_handler_waitComplete, Responses, data, list, queues, content
<1>8. ASSUME NEW m \in Message, KPR_content_waitComplete(m)
      PROVE  TypeOK'
  <2>1. /\ [usage EXCEPT ![m] = @ - 1] \in [Message -> Int]
        /\ [response EXCEPT ![m] = None] \in [Message -> Responses]
        /\ shellQ \in Seq(EventRecords) /\ <<>> \in Seq(Frames)
        /\ messaging' \in [Content -> BOOLEAN]
    BY <1>8 DEF KPR_content_waitComplete, TypeOK, Responses, content
  <2> QED
    BY <1>3, <1>8, <2>1 DEF KPR_content_waitComplete, content
<1>9. ASSUME NEW m \in Message, WalkCancel(m)
      PROVE  TypeOK'
  <2>1. KprMessageCancel(m, usage, shellQ) /\ usage \in [Message -> Int]
        /\ shellQ \in Seq(EventRecords)
    BY <1>9 DEF WalkCancel, TypeOK
  <2> QED
    BY <1>9, <2>1, CancelType DEF TypeOK, WalkCancel, list, content
<1>10. ASSUME ReturnInvoke \/ ReturnResume
       PROVE  TypeOK'
  <2>1. Top.m \in Message /\ Pop(stack) \in Seq(Frames)
    BY <1>10, FramesInStack DEF ReturnInvoke, ReturnResume, At, Frames
  <2>2. CASE Resumes(Top.m)
    <3>1. /\ KprMessageComplete(Top.m, usage, response, shellQ, Pop(stack))
          /\ UNCHANGED <<held, walk, gone, calls>>
          /\ messaging' = messaging
      BY <1>10, <2>2 DEF ReturnInvoke, ReturnResume, content
    <3>2. /\ usage \in [Message -> Int] /\ response \in [Message -> Responses]
          /\ shellQ \in Seq(EventRecords) /\ messaging' \in [Content -> BOOLEAN]
      BY <3>1 DEF TypeOK
    <3> QED
      BY <1>3, <2>1, <3>1, <3>2
  <2>3. CASE ~Resumes(Top.m)
    BY <1>10, <2>1, <2>3
    DEF ReturnInvoke, ReturnResume, TypeOK, life, data, target, list, queues, content
  <2> QED
    BY <2>2, <2>3
<1>11. ASSUME ReturnCancel
       PROVE  TypeOK'
  <2> DEFINE m == Top.m
             left == [usage EXCEPT ![m] = @ - 1]
  <2>1. m \in Message /\ Pop(stack) \in Seq(Frames)
    BY <1>11, FramesInStack DEF ReturnCancel, At, Frames
  <2>2. left \in [Message -> Int]
    BY <2>1 DEF TypeOK
  <2>3. /\ usage' \in [Message -> Int]
        /\ waiting' \in [Message -> BOOLEAN]
        /\ request' \in [Message -> Targets]
        /\ shellQ' \in Seq(EventRecords)
        /\ serviceQ' \in Seq(EventRecords)
    <3>1. CASE response[m] \in Message
      BY <1>11, <2>2, <3>1, CancelType DEF ReturnCancel, TypeOK
    <3>2. CASE response[m] \notin Message
      BY <1>11, <2>2, <3>2 DEF ReturnCancel, TypeOK, queues
    <3> QED
      BY <3>1, <3>2
  <2> QED
    BY <1>11, <2>1, <2>3 DEF ReturnCancel, TypeOK, Free, Responses, content
<1>12. ASSUME ReturnComplete
       PROVE  TypeOK'
  <2> DEFINE below == Push(Pop(stack), Frame("cleanup", Top.m, None, FALSE, None))
  <2>1. Top \in Frames /\ Pop(stack) \in Seq(Frames)
    BY <1>12, FramesInStack DEF ReturnComplete, At
  <2>2. Frame("cleanup", Top.m, None, FALSE, None) \in Frames
    BY <2>1 DEF Frame, Frames, Places
  <2>3. below \in Seq(Frames)
    BY <2>1, <2>2, AppendSeq DEF Push
  <2>4. messaging' \in [Content -> BOOLEAN]
    BY <1>12 DEF ReturnComplete
  <2>5. CASE Top.handles # None /\ Resumes(Top.handles)
    <3>1. Top.handles \in Message
      BY <2>1, <2>5 DEF Frames
    <3>2. KprMessageComplete(Top.handles, usage, response, shellQ, below)
      BY <1>12, <2>5 DEF ReturnComplete
    <3> QED
      BY <1>3, <1>12, <2>3, <2>4, <3>1, <3>2 DEF ReturnComplete, TypeOK
  <2>6. CASE ~(Top.handles # None /\ Resumes(Top.handles))
    BY <1>12, <2>3, <2>4, <2>6
    DEF ReturnComplete, TypeOK, life, data, target, list, queues
  <2> QED
    BY <2>5, <2>6
<1>13. ASSUME Cleanup
       PROVE  TypeOK'
  <2>1. Top.m \in Message /\ Pop(stack) \in Seq(Frames)
    BY <1>13, FramesInStack DEF Cleanup, At, Frames
  <2> QED
    BY <1>13, <2>1 DEF Cleanup, TypeOK, Targets, Free, data, queues, content
<1>14. ASSUME NotifyContext
       PROVE  TypeOK'
  <2>1. Top.m \in Message
    BY <1>14, FramesInStack DEF NotifyContext, At, Frames
  <2>2. stack' \in Seq(Frames)
    BY <1>14, <2>1 DEF NotifyContext, Frame, Frames, Places, Notifying
  <2> QED
    BY <1>14, <2>1, <2>2 DEF NotifyContext, TypeOK, B, data, target, list, queues, content
<1>15. ASSUME ReturnShell
       PROVE  TypeOK'
  <2>1. Top.m \in Message
    BY <1>15, FramesInStack DEF ReturnShell, At, Frames
  <2>2. stack' \in Seq(Frames)
    BY <1>15, <2>1 DEF ReturnShell, Frame, Frames, Places, Notifying
  <2> QED
    BY <1>15, <2>2 DEF ReturnShell, TypeOK, life, data, target, list, queues, content
<1>16. ASSUME ReturnNotify
       PROVE  TypeOK'
  <2>1. Pop(stack) \in Seq(Frames)
    BY <1>16, FramesInStack DEF ReturnNotify, At
  <2> QED
    BY <1>16, <2>1 DEF ReturnNotify, TypeOK, Free, data, target, queues, content
<1>17. ASSUME ReturnProgress
       PROVE  TypeOK'
  <2>1. Pop(stack) \in Seq(Frames)
    BY <1>17, FramesInStack DEF ReturnProgress, At
  <2> QED
    BY <1>17, <2>1 DEF ReturnProgress, TypeOK, life, data, target, list, queues, content
<1>18. ASSUME WalkEnd
       PROVE  TypeOK'
  BY <1>18 DEF WalkEnd, TypeOK, life, data, target, list, queues
<1> QED
  BY <1>1, <1>2, <1>4, <1>5, <1>6, <1>7, <1>8, <1>9, <1>10, <1>11, <1>12, <1>13,
     <1>14, <1>15, <1>16, <1>17, <1>18
  DEF ShellStep

LEMMA ServiceTypes ==
  ASSUME TypeOK, ServiceStep
  PROVE  TypeOK'
<1>1. \A m \in Message : /\ Event("complete", m) \in EventRecords
                         /\ Event("progress", m) \in EventRecords
  BY DEF Event, EventRecords, Events
<1>2. ASSUME ServiceCancel
      PROVE  TypeOK'
  BY <1>2, TailSeq
  DEF TypeOK, ServiceCancel, life, data, target, list, content
<1>3. ASSUME NEW m \in Message, ServiceInvoke(m)
      PROVE  TypeOK'
  <2>1. shellQ' \in Seq(EventRecords) /\ serviceQ' \in Seq(EventRecords)
    <3>1. Append(shellQ, Event("complete", m)) \in Seq(EventRecords)
      BY <1>1, AppendSeq DEF TypeOK
    <3>2. serviceQ # <<>> => Tail(serviceQ) \in Seq(EventRecords)
      BY TailSeq DEF TypeOK
    <3> QED
      BY <1>3, <3>1, <3>2 DEF TypeOK, ServiceInvoke
  <2> QED
    BY <1>3, <2>1 DEF TypeOK, ServiceInvoke, life, data, target, list, content
<1>4. ASSUME NEW m \in Message, ServiceProgress(m) \/ ServiceFinish(m)
      PROVE  TypeOK'
  <2>1. shellQ' \in Seq(EventRecords)
    <3>1. /\ Append(shellQ, Event("complete", m)) \in Seq(EventRecords)
          /\ Append(shellQ, Event("progress", m)) \in Seq(EventRecords)
      BY <1>1, AppendSeq DEF TypeOK
    <3> QED
      BY <1>4, <3>1 DEF ServiceProgress, ServiceFinish
  <2> QED
    BY <1>4, <2>1
    DEF TypeOK, ServiceProgress, ServiceFinish, life, data, target, list, content
<1> QED
  BY <1>2, <1>3, <1>4 DEF ServiceStep

LEMMA InitTypes == Init => TypeOK
<1> SUFFICES ASSUME Init PROVE TypeOK
  OBVIOUS
<1>1. Scheme \in [Message -> Schemes]
  BY ConstantsAssumption
<1>2. /\ shellQ \in Seq(EventRecords) /\ serviceQ \in Seq(EventRecords)
      /\ stack \in Seq(Frames)
  BY DEF Init
<1>3. /\ alive \in [Message -> {"none", "live", "freed"}]
      /\ usage \in [Message -> Int]
      /\ host \in [Message -> Nat]
      /\ waiting \in [Message -> BOOLEAN]
      /\ url \in [Message -> Schemes]
  BY <1>1 DEF Init
<1>4. /\ location \in [Message -> Schemes \union {"nil"}]
      /\ request \in [Message -> Targets]
      /\ response \in [Message -> Responses]
      /\ messages \subseteq Message
      /\ looped \in BOOLEAN
  BY DEF Init, Targets, Responses
<1>5. /\ held \subseteq Message
      /\ walk \in Content \union {None}
      /\ messaging \in [Content -> BOOLEAN]
      /\ gone \subseteq Content
      /\ calls \in Nat
  BY DEF Init
<1> QED
  BY <1>2, <1>3, <1>4, <1>5 DEF TypeOK

LEMMA NextTypes == TypeOK /\ [Next]_vars => TypeOK'
<1> SUFFICES ASSUME TypeOK, [Next]_vars
             PROVE  TypeOK'
  OBVIOUS
<1>1. CASE UNCHANGED vars
  BY <1>1 DEF TypeOK, vars, life, data, target, list, queues, content
<1> QED
  BY <1>1, ScriptTypes, ShellTypes, ServiceTypes DEF Next

(* Type correctness of the message model: whatever scripts do, the careless *)
(* uses included, every variable keeps its type.                            *)
THEOREM TypeCorrect == Spec => []TypeOK
<1>1. Init => TypeOK
  BY InitTypes
<1>2. TypeOK /\ [Next]_vars => TypeOK'
  BY NextTypes
<1> QED
  BY <1>1, <1>2, PTL DEF Spec

=============================================================================
