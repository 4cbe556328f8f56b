------------------------ MODULE KprHTTPClientProofs ------------------------
(***************************************************************************)
(* The HTTP client keeps its promise to messages, for every pool, every set *)
(* of messages and priorities, and every bound: no message is lost or       *)
(* completed twice (Custody), the client implements KprService, requests are *)
(* made in turn (NoOvertaking) and, where room is made known, none is left   *)
(* behind (NothingForgotten).                                               *)
(*                                                                          *)
(* Custody is not inductive: it says where a message is, not that the       *)
(* places agree with `asked' or that a connection without request has no    *)
(* target.  Inv adds both.  Every action moves at most one message from     *)
(* one place to another; the lemmas of the first part say what a move does  *)
(* to each place.                                                           *)
(***************************************************************************)
EXTENDS KprHTTPClient, ListTheorems, WellFoundedInduction

(* An invoke callback is posted once; who is anywhere was asked for. *)
Known ==
  /\ \A i, j \in DOMAIN inbox : inbox[i].ev = "invoke" /\ inbox[i] = inbox[j] => i = j
  /\ \A m \in Message : Invoked(m) \/ Queued(m) \/ Served(m) \/ posts[m] > 0 => m \in asked

(* KprHTTPConnectionAvailable asks the client; the connection's target agrees. *)
Paired ==
  /\ \A c \in Connections : c \in busy <=> target[c] # None
  /\ \A c \in due : target[c] = None

Inv == TypeOK /\ Custody /\ Known /\ Paired

-----------------------------------------------------------------------------
(* Types. *)

(* What the clients, the list and the loop hold after each operation. *)
LoopType == [phase : {"rest", "close", "sweep", "assign", "stopped"}, at : Nat]

LEMMA LoopFacts ==
  ASSUME NEW i \in Nat
  PROVE  \A p \in {"rest", "close", "sweep", "assign", "stopped"} : At(p, i) \in LoopType
BY DEF At, LoopType

LEMMA TouchedType ==
  ASSUME TypeOK, NEW c \in Connections
  PROVE  Touched(c) \in [Connections -> Connections]
<1> DEFINE p == CHOOSE i \in Connections : order[i] = c
<1>1. PoolSize \in Nat
  BY ConstantsAssumption
<1>2. \A k \in Connections : k # PoolSize => k + 1 \in Connections
  BY <1>1 DEF Connections
<1>3. \A k \in Connections : order[k] \in Connections
  BY DEF TypeOK
<1>4. Touched(c) = [k \in Connections |->
         IF k = PoolSize THEN c ELSE IF k < p THEN order[k] ELSE order[k + 1]]
  BY DEF Touched
<1> HIDE DEF p
<1>5. \A k \in Connections :
        (IF k = PoolSize THEN c ELSE IF k < p THEN order[k] ELSE order[k + 1]) \in Connections
  BY <1>2, <1>3
<1> QED BY <1>4, <1>5

(* The parts of TypeOK that an operation touches together. *)
MessageType ==
  /\ posts \in [Message -> Nat]
  /\ url \in [Message -> Host]
  /\ redirects \in [Message -> 0 .. MaxRedirects]
  /\ cached \subseteq Message

PoolType ==
  /\ target \in [Connections -> Message \union {None}]
  /\ client \in [Connections -> Host \union {None}]
  /\ priority \in [Connections -> Int]
  /\ busy \subseteq Connections
  /\ due \subseteq Connections
  /\ order \in [Connections -> Connections]

ShellType ==
  /\ asked \subseteq Message
  /\ waiting \subseteq asked
  /\ inbox \in Seq([ev : {"invoke", "cancel"}, m : Message])

ListType ==
  /\ targets \in Seq(Message)
  /\ drops \in 0 .. MaxDrops
  /\ loop \in LoopType

LEMMA TypeParts ==
  /\ TypeOK <=> MessageType /\ PoolType /\ ShellType /\ ListType
  /\ TypeOK' <=> MessageType' /\ PoolType' /\ ShellType' /\ ListType'
BY DEF TypeOK, MessageType, PoolType, ShellType, ListType, LoopType

LEMMA ResumeTypes ==
  ASSUME TypeOK, NEW m \in Message, KprHTTPClientResumeTarget(m), UNCHANGED url
  PROVE  MessageType'
<1>1. MaxRedirects \in Nat
  BY ConstantsAssumption
<1> QED BY <1>1 DEF TypeOK, MessageType, KprHTTPClientResumeTarget

LEMMA IterateTypes ==
  ASSUME TypeOK, KprHTTPClientIterate \/ UNCHANGED loop
  PROVE  loop' \in LoopType
BY DEF TypeOK, KprHTTPClientIterate, LoopType, At

LEMMA AddTypes ==
  ASSUME TypeOK, NEW m \in Message, KprHTTPClientAddTarget(m)
  PROVE  targets' \in Seq(Message) /\ loop' \in LoopType
<1>1. targets \in Seq(Message)
  BY DEF TypeOK
<1>2. PICK i \in 1 .. Len(targets) + 1 : targets' = InsertAt(targets, i, m)
  BY DEF KprHTTPClientAddTarget
<1>3. targets' \in Seq(Message)
  BY <1>1, <1>2, InsertAtElements
<1>4. loop' \in LoopType
  BY IterateTypes DEF KprHTTPClientAddTarget
<1> QED BY <1>3, <1>4

LEMMA CloseTypes ==
  ASSUME TypeOK, NEW c \in Connections, KprHTTPConnectionClose(c), UNCHANGED order
  PROVE  PoolType'
BY DEF TypeOK, PoolType, KprHTTPConnectionClose

LEMMA ProcessTypes ==
  ASSUME TypeOK, NEW c \in Connections, NEW m \in Message, NEW new,
         KprHTTPConnectionProcess(c, m, new)
  PROVE  PoolType'
<1>1. order' \in [Connections -> Connections]
  BY TouchedType DEF KprHTTPConnectionProcess
<1>2. url[m] \in Host /\ Priority[m] \in Int
  BY ConstantsAssumption DEF TypeOK
<1>3. priority' \in [Connections -> Int]
  BY <1>2 DEF TypeOK, KprHTTPConnectionProcess
<1>4. client' \in [Connections -> Host \union {None}]
  BY <1>2 DEF TypeOK, KprHTTPConnectionProcess
<1>5. target' \in [Connections -> Message \union {None}] /\ busy' \subseteq Connections /\ due' \subseteq Connections
  BY DEF TypeOK, KprHTTPConnectionProcess
<1> QED BY <1>1, <1>3, <1>4, <1>5 DEF PoolType

LEMMA ReleasedTypes ==
  ASSUME TypeOK, NEW c \in Connections, NEW how, Released(c, how)
  PROVE  PoolType' /\ target[c] \in Message
<1>1. target[c] \in Message
  BY DEF Released, TypeOK
<1>2. CASE KprHTTPConnectionClose(c) /\ UNCHANGED order
  BY <1>1, <1>2, CloseTypes
<1>3. CASE /\ target' = [target EXCEPT ![c] = None]
           /\ busy' = busy \ {c}
           /\ due' = due \union {c}
           /\ UNCHANGED <<client, priority, order>>
  BY <1>1, <1>3 DEF TypeOK, PoolType
<1> QED BY <1>2, <1>3 DEF Released

LEMMA ReceiveTypes ==
  ASSUME TypeOK, NEW k, NEW m \in Message, Receive(k, m)
  PROVE  inbox' \in Seq([ev : {"invoke", "cancel"}, m : Message])
BY DEF TypeOK, Receive

LEMMA TypeShell ==
  ASSUME TypeOK, Shell
  PROVE  TypeOK'
<1>1. ASSUME NEW m \in Message, KprMessageInvoke(m) PROVE TypeOK'
  BY <1>1 DEF KprMessageInvoke, TypeOK, Event, messageVars, poolVars
<1>2. ASSUME NEW m \in Message, KprMessageCancel(m) PROVE TypeOK'
  BY <1>2 DEF KprMessageCancel, TypeOK, Event, messageVars, poolVars
<1>3. ASSUME NEW m \in Message, KprMessageComplete(m) PROVE TypeOK'
  BY <1>3 DEF KprMessageComplete, TypeOK, messageVars, poolVars
<1> QED BY <1>1, <1>2, <1>3 DEF Shell

LEMMA TypeReceived ==
  ASSUME TypeOK, Received
  PROVE  TypeOK'
<1> USE TypeParts
<1>1. ASSUME NEW m \in Message, InvokeCancelled(m) \/ InvokeFresh(m) PROVE TypeOK'
  <2>1. MessageType'
    BY <1>1, ResumeTypes DEF InvokeCancelled, InvokeFresh
  <2>2. ShellType'
    BY <1>1, ReceiveTypes DEF InvokeCancelled, InvokeFresh, ShellType
  <2>3. PoolType' /\ ListType'
    BY <1>1 DEF InvokeCancelled, InvokeFresh, PoolType, ListType, poolVars
  <2> QED BY <2>1, <2>2, <2>3
<1>2. ASSUME NEW m \in Message, InvokeTarget(m) PROVE TypeOK'
  <2>1. MessageType'
    BY <1>2 DEF InvokeTarget, MessageType
  <2>2. ShellType'
    BY <1>2, ReceiveTypes DEF InvokeTarget, ShellType
  <2>3. PoolType'
    BY <1>2 DEF InvokeTarget, PoolType, poolVars
  <2>4. ListType'
    BY <1>2, AddTypes DEF InvokeTarget, ListType
  <2> QED BY <2>1, <2>2, <2>3, <2>4
<1>3. ASSUME NEW m \in Message, KprHTTPClientCancel(m) PROVE TypeOK'
  <2>1. MessageType' /\ PoolType'
    BY <1>3 DEF KprHTTPClientCancel, MessageType, PoolType, messageVars, poolVars
  <2>2. ShellType'
    BY <1>3, ReceiveTypes DEF KprHTTPClientCancel, ShellType
  <2>3. ListType'
    BY <1>3, IterateTypes DEF KprHTTPClientCancel, ListType
  <2> QED BY <2>1, <2>2, <2>3
<1> QED BY <1>1, <1>2, <1>3 DEF Received

LEMMA AssignTypes ==
  ASSUME TypeOK, NEW c \in Connections, NEW i \in DOMAIN targets, NEW new, Assign(c, i, new)
  PROVE  TypeOK'
<1> USE TypeParts
<1>0. targets \in Seq(Message)
  BY DEF TypeOK
<1>1. targets \in Seq(Message) /\ i \in 1 .. Len(targets) /\ targets[i] \in Message
  BY <1>0
<1>2. PoolType'
  BY <1>1, ProcessTypes DEF Assign
<1>3. RemoveAt(targets, i) \in Seq(Message)
  BY <1>1, RemoveAtElements
<1>4. MessageType' /\ ShellType' /\ ListType'
  BY <1>3 DEF Assign, MessageType, ShellType, ListType, messageVars
<1> QED BY <1>2, <1>4

LEMMA TypeIterating ==
  ASSUME TypeOK, Iterating
  PROVE  TypeOK'
<1> USE TypeParts
<1>1. ASSUME NEW c \in Connections, NextConnection(c) PROVE loop' \in LoopType
  <2>1. c \in Nat /\ c + 1 \in Nat
    BY ConstantsAssumption DEF Connections
  <2> QED BY <1>1, <2>1 DEF NextConnection, At, LoopType
<1>2. ASSUME NEW c \in Connections, CloseCancelled(c) PROVE TypeOK'
  <2>1. target[c] \in Message
    BY <1>2 DEF CloseCancelled, Cancelled, TypeOK
  <2>2. MessageType'
    BY <1>2, <2>1, ResumeTypes DEF CloseCancelled
  <2>3. PoolType'
    BY <1>2, CloseTypes DEF CloseCancelled
  <2>4. ShellType' /\ ListType'
    BY <1>2, <1>1 DEF CloseCancelled, ShellType, ListType
  <2> QED BY <2>2, <2>3, <2>4
<1>3. ASSUME NEW c \in Connections, KeepConnection(c) PROVE TypeOK'
  BY <1>3, <1>1 DEF KeepConnection, MessageType, PoolType, ShellType, ListType, messageVars, poolVars
<1>4. ASSUME NEW i \in 1 .. Len(targets) + 1,
             SweepNext(i) \/ SweepEnd(i) \/ AssignLater(i) \/ AssignFull(i) \/ AssignEnd(i)
      PROVE  TypeOK'
  <2>1. i + 1 \in Nat
    BY DEF TypeOK
  <2>2. loop' \in LoopType
    BY <1>4, <2>1 DEF SweepNext, SweepEnd, AssignLater, AssignFull, AssignEnd, At, Rest, LoopType
  <2> QED BY <1>4, <2>2 DEF SweepNext, SweepEnd, AssignLater, AssignFull, AssignEnd,
             MessageType, PoolType, ShellType, ListType, messageVars, poolVars
<1>5. ASSUME NEW i \in 1 .. Len(targets) + 1, SweepCancelled(i) PROVE TypeOK'
  <2>1. targets \in Seq(Message) /\ i \in 1 .. Len(targets) /\ targets[i] \in Message
    BY <1>5 DEF SweepCancelled, Sweeping, TypeOK
  <2>2. MessageType'
    BY <1>5, <2>1, ResumeTypes DEF SweepCancelled
  <2>3. targets' \in Seq(Message)
    BY <1>5, <2>1, RemoveAtElements DEF SweepCancelled
  <2> QED BY <1>5, <2>2, <2>3 DEF SweepCancelled, PoolType, ShellType, ListType, poolVars
<1>6. ASSUME NEW i \in 1 .. Len(targets) + 1, AssignCandidate(i) \/ AssignOther(i) \/ AssignReplace(i)
      PROVE  TypeOK'
  <2>5. targets \in Seq(Message)
    BY DEF TypeOK
  <2>6. Assigning(i)
    BY <1>6 DEF AssignCandidate, AssignOther, AssignReplace
  <2>7. targets \in Seq(Message) /\ i \in Nat /\ i <= Len(targets)
    BY <2>5, <2>6 DEF Assigning
  <2>1. i \in DOMAIN targets
    BY <1>6, <2>7
  <2>2. CASE AssignCandidate(i)
    BY <2>1, <2>2, AssignTypes DEF AssignCandidate
  <2>3. CASE AssignOther(i)
    BY <2>3, AssignTypes DEF AssignOther
  <2>4. CASE AssignReplace(i)
    BY <2>1, <2>4, AssignTypes DEF AssignReplace
  <2> QED BY <1>6, <2>2, <2>3, <2>4
<1> QED BY <1>2, <1>3, <1>4, <1>5, <1>6 DEF Iterating

LEMMA TypeCallbacks ==
  ASSUME TypeOK, NEW c \in Connections,
         KprHTTPConnectionCompleteCallback(c) \/ ClosedKeep(c) \/ ClosedLost(c)
  PROVE  TypeOK'
<1> USE TypeParts
<1>1. CASE CompleteDropped(c)
  <2>1. target[c] \in Message
    BY <1>1 DEF CompleteDropped, TypeOK
  <2>2. PoolType'
    BY <1>1, <2>1, ProcessTypes DEF CompleteDropped
  <2>3. drops' \in 0 .. MaxDrops
    BY <1>1, ConstantsAssumption DEF CompleteDropped, TypeOK
  <2> QED BY <1>1, <2>2, <2>3 DEF CompleteDropped, MessageType, ShellType, ListType
<1>2. CASE CompleteDone(c) \/ CompleteFailed(c)
  <2>1. PoolType' /\ target[c] \in Message
    BY <1>2, ReleasedTypes DEF CompleteDone, CompleteFailed
  <2>2. MessageType'
    BY <1>2, <2>1, ResumeTypes DEF CompleteDone, CompleteFailed
  <2>3. loop' \in LoopType
    BY <1>2, IterateTypes DEF CompleteDone, CompleteFailed, IterateUnless
  <2> QED BY <1>2, <2>1, <2>2, <2>3 DEF CompleteDone, CompleteFailed, ShellType, ListType
<1>3. CASE CompleteAgain(c)
  <2>1. PoolType' /\ target[c] \in Message
    BY <1>3, ReleasedTypes DEF CompleteAgain
  <2>2. redirects' \in [Message -> 0 .. MaxRedirects]
    BY <1>3, <2>1, ConstantsAssumption DEF CompleteAgain, TypeOK
  <2>3. url' \in [Message -> Host]
    BY <1>3, <2>1, ConstantsAssumption DEF CompleteAgain, TypeOK
  <2>4. targets' \in Seq(Message) /\ loop' \in LoopType
    BY <1>3, <2>1, AddTypes DEF CompleteAgain
  <2> QED BY <1>3, <2>1, <2>2, <2>3, <2>4 DEF CompleteAgain, MessageType, ShellType, ListType
<1>4. CASE CompleteUnreadable(c)
  <2>1. PoolType' /\ target[c] \in Message
    BY <1>4, ReleasedTypes DEF CompleteUnreadable
  <2>2. targets' \in Seq(Message) /\ loop' \in LoopType
    BY <1>4, <2>1, AddTypes DEF CompleteUnreadable
  <2> QED BY <1>4, <2>1, <2>2 DEF CompleteUnreadable, MessageType, ShellType, ListType
<1>5. CASE ClosedKeep(c)
  <2>1. loop' \in LoopType
    BY <1>5, IterateTypes DEF ClosedKeep
  <2> QED BY <1>5, <2>1 DEF ClosedKeep, MessageType, PoolType, ShellType, ListType, messageVars
<1>6. CASE ClosedLost(c)
  <2>1. loop' \in LoopType /\ PoolType'
    BY <1>6, IterateTypes, CloseTypes DEF ClosedLost
  <2> QED BY <1>6, <2>1 DEF ClosedLost, MessageType, ShellType, ListType, messageVars
<1> QED BY <1>1, <1>2, <1>3, <1>4, <1>5, <1>6 DEF KprHTTPConnectionCompleteCallback

LEMMA TypeStep ==
  ASSUME TypeOK, [Next]_vars
  PROVE  TypeOK'
<1>1. CASE KprHTTPClientStop
  BY <1>1 DEF KprHTTPClientStop, TypeOK, At, messageVars
<1>2. CASE UNCHANGED vars
  BY <1>2 DEF vars, TypeOK, messageVars, poolVars
<1> QED BY <1>1, <1>2, TypeShell, TypeReceived, TypeIterating, TypeCallbacks DEF Next

\* The code keeps every variable in its type: in particular no message is
\* redirected more often than the limit, and the flag stays with messages that
\* were invoked.
THEOREM TypeCorrect == Spec => []TypeOK
<1>1. Init => TypeOK
  BY ConstantsAssumption DEF Init, TypeOK, Rest, At, Connections
<1> QED BY <1>1, TypeStep, PTL DEF Spec

-----------------------------------------------------------------------------
(* Moves.  Except for the stop callback, an action takes one message from   *)
(* one place to another, or none anywhere.                                  *)

Moves == {<<"new", "invoked">>, <<"invoked", "queued">>, <<"invoked", "posted">>,
          <<"queued", "served">>, <<"served", "queued">>,
          <<"queued", "posted">>, <<"served", "posted">>}

IsAt(m, p) ==
  /\ p = "new" => m \notin asked
  /\ p = "invoked" => Invoked(m)
  /\ p = "queued" => Queued(m)
  /\ p = "served" => Served(m)

Move(m, p, q) ==
  /\ IsAt(m, p)
  /\ ~Stopped /\ ~Stopped'
  /\ asked' = IF p = "new" THEN asked \union {m} ELSE asked
  /\ posts' = IF q = "posted" THEN [posts EXCEPT ![m] = @ + 1] ELSE posts
  /\ \A n \in Message :
       /\ Invoked(n)' <=> IF n = m /\ "invoked" \in {p, q} THEN q = "invoked" ELSE Invoked(n)
       /\ Queued(n)' <=> IF n = m /\ "queued" \in {p, q} THEN q = "queued" ELSE Queued(n)
       /\ Served(n)' <=> IF n = m /\ "served" \in {p, q} THEN q = "served" ELSE Served(n)

Stays ==
  /\ UNCHANGED <<asked, posts>>
  /\ Stopped' <=> Stopped
  /\ \A n \in Message :
       (Invoked(n)' <=> Invoked(n)) /\ (Queued(n)' <=> Queued(n)) /\ (Served(n)' <=> Served(n))

(* What Custody and Known say of one message. *)
Placed(m) ==
  /\ posts[m] <= 1
  /\ Invoked(m) => ~Queued(m) /\ ~Served(m) /\ posts[m] = 0
  /\ Queued(m) => ~Served(m) /\ posts[m] = 0
  /\ Served(m) => posts[m] = 0
  /\ m \in asked /\ ~Stopped => Invoked(m) \/ Queued(m) \/ Served(m) \/ posts[m] = 1
  /\ Invoked(m) \/ Queued(m) \/ Served(m) \/ posts[m] > 0 => m \in asked

AllPlaced == \A m \in Message : Placed(m)

(* What they say of the three lists. *)
InvokedOnce ==
  \A i, j \in DOMAIN inbox : inbox[i].ev = "invoke" /\ inbox[i] = inbox[j] => i = j
QueuedOnce == \A i, j \in DOMAIN targets : targets[i] = targets[j] => i = j
ServedOnce ==
  \A c, d \in Connections : target[c] # None /\ target[c] = target[d] => c = d
Unique == InvokedOnce /\ QueuedOnce /\ ServedOnce

LEMMA InvParts ==
  /\ Custody /\ Known <=> AllPlaced /\ Unique
  /\ (Custody /\ Known)' <=> AllPlaced' /\ Unique'
BY DEF Custody, Known, AllPlaced, Placed, Unique, InvokedOnce, QueuedOnce, ServedOnce

LEMMA MoveKeeps ==
  ASSUME TypeOK, AllPlaced, NEW m \in Message, NEW p, NEW q, <<p, q>> \in Moves, Move(m, p, q)
  PROVE  AllPlaced'
<1> SUFFICES ASSUME NEW n \in Message PROVE Placed(n)'
  BY DEF AllPlaced
<1>1. Placed(n) /\ Placed(m) /\ posts[n] \in Nat /\ posts[m] \in Nat
  BY DEF AllPlaced, TypeOK
<1>2. posts'[n] = IF q = "posted" /\ n = m THEN posts[n] + 1 ELSE posts[n]
  BY DEF Move, TypeOK
<1>3. n \in asked' <=> n \in asked \/ (p = "new" /\ n = m)
  BY DEF Move
<1>4. CASE n # m
  BY <1>1, <1>2, <1>3, <1>4 DEF Placed, Move
<1>5. ASSUME n = m, NEW a, NEW b, a = p, b = q, <<a, b>> \in Moves PROVE Placed(n)'
  BY <1>1, <1>2, <1>3, <1>5 DEF Placed, Move, Moves, IsAt
<1> QED BY <1>4, <1>5

LEMMA StayKeeps ==
  ASSUME AllPlaced, Stays
  PROVE  AllPlaced'
BY DEF AllPlaced, Placed, Stays

LEMMA MoveImplements ==
  ASSUME TypeOK, AllPlaced, NEW m \in Message, NEW p, NEW q, <<p, q>> \in Moves, Move(m, p, q)
  PROVE  [Service!Next]_(Service!vars)
<1>1. Placed(m)
  BY DEF AllPlaced
<1>2. (Stopped = FALSE) /\ (Stopped' = FALSE)
  BY DEF Move, Stopped
<1>3. CASE p = "new"
  <2>1. q = "invoked"
    BY <1>3 DEF Moves
  <2>2. Held' = Held
    BY <1>3, <2>1 DEF Move, Held
  <2>3. Service!Ask(m)
    BY <1>2, <1>3, <2>1, <2>2 DEF Service!Ask, Move, IsAt
  <2> QED BY <2>3 DEF Service!Next
<1>4. CASE p = "invoked"
  <2>1. q \in {"queued", "posted"}
    BY <1>4 DEF Moves
  <2>2. Service!Fresh(m)
    BY <1>1, <1>4 DEF Service!Fresh, Placed, Held, Move, IsAt
  <2>3. CASE q = "queued"
    <3>1. Held' = Held \union {m}
      BY <1>4, <2>3 DEF Move, Held
    <3>2. Service!Take(m)
      BY <1>2, <1>4, <2>2, <2>3, <3>1 DEF Service!Take, Move
    <3> QED BY <3>2 DEF Service!Next
  <2>4. CASE q = "posted"
    <3>1. Held' = Held
      BY <1>4, <2>4 DEF Move, Held
    <3>2. Service!Return(m)
      BY <1>2, <1>4, <2>2, <2>4, <3>1 DEF Service!Return, Service!Completed, Move
    <3> QED BY <3>2 DEF Service!Next
  <2> QED BY <2>1, <2>3, <2>4
<1>5. CASE p \in {"queued", "served"}
  <2>1. m \in Held
    BY <1>5 DEF Held, Move, IsAt
  <2>2. CASE q = "posted"
    <3>1. Held' = Held \ {m}
      BY <1>1, <1>5, <2>2 DEF Move, Held, Placed, IsAt
    <3>2. Service!Finish(m)
      BY <1>2, <1>5, <2>1, <2>2, <3>1 DEF Service!Finish, Service!Completed, Move
    <3> QED BY <3>2 DEF Service!Next
  <2>3. CASE q \in {"queued", "served"} /\ p # q
    <3>1. Held' = Held
      BY <1>5, <2>3 DEF Move, Held, IsAt
    <3> QED BY <1>2, <1>5, <2>3, <3>1 DEF Service!vars, Move
  <2>4. q = "posted" \/ (q \in {"queued", "served"} /\ p # q)
    BY <1>5 DEF Moves
  <2> QED BY <2>2, <2>3, <2>4
<1>6. p = "new" \/ p = "invoked" \/ p \in {"queued", "served"}
  BY DEF Moves
<1> QED BY <1>3, <1>4, <1>5, <1>6

LEMMA StayImplements ==
  ASSUME Stays
  PROVE  [Service!Next]_(Service!vars)
<1>1. Held' = Held
  BY DEF Stays, Held
<1>2. Stopped' = Stopped
  BY DEF Stays, Stopped
<1> QED BY <1>1, <1>2 DEF Service!vars, Stays

(* What happens to a place when its list changes. *)

LEMMA InboxSame ==
  ASSUME UNCHANGED inbox
  PROVE  (InvokedOnce => InvokedOnce') /\ \A n \in Message : Invoked(n)' <=> Invoked(n)
BY DEF InvokedOnce, Invoked

LEMMA TargetsSame ==
  ASSUME UNCHANGED targets
  PROVE  (QueuedOnce => QueuedOnce') /\ \A n \in Message : Queued(n)' <=> Queued(n)
BY DEF QueuedOnce, Queued

LEMMA TargetSame ==
  ASSUME UNCHANGED target
  PROVE  (ServedOnce => ServedOnce') /\ \A n \in Message : Served(n)' <=> Served(n)
BY DEF ServedOnce, Served

LEMMA InboxTail ==
  ASSUME TypeOK, InvokedOnce, NEW k, NEW m \in Message, Receive(k, m)
  PROVE  /\ InvokedOnce'
         /\ k = "invoke" => Invoked(m)
         /\ \A n \in Message : Invoked(n)' <=> Invoked(n) /\ ~(k = "invoke" /\ n = m)
<1> DEFINE T == [ev : {"invoke", "cancel"}, m : Message]
<1>1. /\ inbox \in Seq(T) /\ inbox # <<>> /\ Len(inbox) \in Nat /\ Len(inbox) >= 1
      /\ DOMAIN inbox = 1 .. Len(inbox)
      /\ inbox[1] = Event(k, m)
  BY DEF TypeOK, Receive
<1>2. /\ DOMAIN inbox' = 1 .. Len(inbox) - 1
      /\ \A i \in 1 .. Len(inbox) - 1 : inbox'[i] = inbox[i + 1]
  BY <1>1 DEF Receive
<1>3. InvokedOnce'
  <2> SUFFICES ASSUME NEW i \in DOMAIN inbox', NEW j \in DOMAIN inbox',
                      inbox'[i].ev = "invoke", inbox'[i] = inbox'[j]
               PROVE  i = j
    BY DEF InvokedOnce
  <2>1. i + 1 \in DOMAIN inbox /\ j + 1 \in DOMAIN inbox /\ i \in Nat /\ j \in Nat
    BY <1>1, <1>2
  <2>2. inbox[i + 1] = inbox[j + 1] /\ inbox[i + 1].ev = "invoke"
    BY <1>2
  <2>3. i + 1 = j + 1
    BY <2>1, <2>2 DEF InvokedOnce
  <2> QED BY <2>1, <2>3
<1>4. k = "invoke" => Invoked(m)
  BY <1>1 DEF Invoked
<1>5. ASSUME NEW n \in Message PROVE Invoked(n)' <=> Invoked(n) /\ ~(k = "invoke" /\ n = m)
  <2>1. ASSUME Invoked(n)' PROVE Invoked(n) /\ ~(k = "invoke" /\ n = m)
    <3>1. PICK i \in 1 .. Len(inbox) - 1 : inbox[i + 1] = Event("invoke", n)
      BY <2>1, <1>2 DEF Invoked, Event
    <3>2. i + 1 \in DOMAIN inbox /\ 1 \in DOMAIN inbox /\ i + 1 # 1
      BY <1>1
    <3>3. Event("invoke", n).ev = "invoke"
      BY DEF Event
    <3>4. inbox[1] # inbox[i + 1]
      BY <3>1, <3>2, <3>3 DEF InvokedOnce
    <3> QED BY <1>1, <3>1, <3>2, <3>4 DEF Invoked
  <2>2. ASSUME Invoked(n), ~(k = "invoke" /\ n = m) PROVE Invoked(n)'
    <3>1. PICK i \in DOMAIN inbox : inbox[i] = Event("invoke", n)
      BY <2>2 DEF Invoked
    <3>2. i # 1
      BY <3>1, <1>1, <2>2 DEF Event
    <3>3. i - 1 \in 1 .. Len(inbox) - 1 /\ inbox'[i - 1] = inbox[i]
      BY <3>2, <1>1, <1>2
    <3>4. i - 1 \in DOMAIN inbox' /\ inbox'[i - 1] = Event("invoke", n)
      BY <3>1, <3>3, <1>2
    <3> QED BY <3>4 DEF Invoked, Event
  <2> QED BY <2>1, <2>2
<1> QED BY <1>3, <1>4, <1>5

LEMMA InboxAppend ==
  ASSUME TypeOK, InvokedOnce, NEW k \in {"invoke", "cancel"}, NEW m \in Message,
         k = "invoke" => ~Invoked(m),
         inbox' = Append(inbox, Event(k, m))
  PROVE  /\ InvokedOnce'
         /\ \A n \in Message : Invoked(n)' <=> Invoked(n) \/ (k = "invoke" /\ n = m)
<1> DEFINE T == [ev : {"invoke", "cancel"}, m : Message]
           l == Len(inbox) + 1
<1>1. /\ inbox \in Seq(T) /\ Len(inbox) \in Nat
      /\ DOMAIN inbox = 1 .. Len(inbox)
  BY DEF TypeOK
<1>2. /\ DOMAIN inbox' = 1 .. l
      /\ \A i \in 1 .. Len(inbox) : inbox'[i] = inbox[i]
      /\ inbox'[l] = Event(k, m)
  BY <1>1
<1>3. \A i \in DOMAIN inbox : i \in DOMAIN inbox' /\ i # l
  BY <1>1, <1>2
<1>4. \A i \in DOMAIN inbox' : i \in DOMAIN inbox \/ i = l
  BY <1>1, <1>2
<1>5. l \in DOMAIN inbox'
  BY <1>1, <1>2
<1> HIDE DEF l
<1>6. \A n \in Message : Invoked(n)' <=> Invoked(n) \/ (k = "invoke" /\ n = m)
  <2> TAKE n \in Message
  <2>1. Invoked(n)' => Invoked(n) \/ (k = "invoke" /\ n = m)
    BY <1>1, <1>2, <1>4 DEF Invoked, Event
  <2>2. Invoked(n) => Invoked(n)'
    BY <1>1, <1>2, <1>3 DEF Invoked, Event
  <2>3. k = "invoke" /\ n = m => Invoked(n)'
    BY <1>2, <1>5 DEF Invoked, Event
  <2> QED BY <2>1, <2>2, <2>3
<1>7. InvokedOnce'
  <2> SUFFICES ASSUME NEW i \in DOMAIN inbox', NEW j \in DOMAIN inbox',
                      inbox'[i].ev = "invoke", inbox'[i] = inbox'[j]
               PROVE  i = j
    BY DEF InvokedOnce
  <2>1. CASE i \in DOMAIN inbox /\ j \in DOMAIN inbox
    BY <2>1, <1>1, <1>2 DEF InvokedOnce
  <2>2. ASSUME NEW x \in DOMAIN inbox, inbox'[x] = inbox'[l], inbox'[x].ev = "invoke" PROVE FALSE
    <3>1. inbox[x] = Event(k, m) /\ Event(k, m).ev = "invoke"
      BY <2>2, <1>1, <1>2
    <3>2. k = "invoke"
      BY <3>1 DEF Event
    <3> QED BY <3>1, <3>2 DEF Invoked
  <2> QED BY <2>1, <2>2, <1>4
<1> QED BY <1>6, <1>7

LEMMA Removed ==
  ASSUME TypeOK, QueuedOnce, NEW i \in DOMAIN targets, targets' = RemoveAt(targets, i)
  PROVE  /\ QueuedOnce'
         /\ targets[i] \in Message /\ Queued(targets[i])
         /\ \A n \in Message : Queued(n)' <=> Queued(n) /\ n # targets[i]
<1>1. targets \in Seq(Message)
  BY DEF TypeOK
<1>2. i \in 1 .. Len(targets) /\ targets[i] \in Message
  BY <1>1
<1>3. \A j, k \in DOMAIN targets : targets[j] = targets[k] => j = k
  BY DEF QueuedOnce
<1>4. LET r == RemoveAt(targets, i) IN
      /\ r \in Seq(Message)
      /\ \A j, k \in DOMAIN r : r[j] = r[k] => j = k
      /\ \A e : (\E k \in DOMAIN r : r[k] = e) <=> (\E k \in DOMAIN targets : targets[k] = e) /\ e # targets[i]
  BY ONLY <1>1, <1>2, <1>3, RemoveAtFacts, Zenon
<1> QED BY <1>2, <1>4 DEF QueuedOnce, Queued

\* FskListInsertAfter and FskListPrepend add one element and keep the others.
LEMMA Added ==
  ASSUME TypeOK, QueuedOnce, NEW m \in Message, ~Queued(m), KprHTTPClientAddTarget(m)
  PROVE  /\ QueuedOnce'
         /\ \A n \in Message : Queued(n)' <=> Queued(n) \/ n = m
<1>1. PICK i \in 1 .. Len(targets) + 1 : targets' = InsertAt(targets, i, m)
  BY DEF KprHTTPClientAddTarget
<1>2. targets \in Seq(Message)
  BY DEF TypeOK
<1>3. /\ Len(targets) \in Nat /\ DOMAIN targets = 1 .. Len(targets)
      /\ i \in 1 .. Len(targets) + 1
  BY <1>1, <1>2
<1>4. /\ DOMAIN targets' = 1 .. Len(targets) + 1
      /\ \A k \in 1 .. Len(targets) + 1 :
           targets'[k] = IF k < i THEN targets[k] ELSE IF k = i THEN m ELSE targets[k - 1]
  <2>1. /\ DOMAIN InsertAt(targets, i, m) = 1 .. Len(targets) + 1
        /\ \A k \in 1 .. Len(targets) + 1 :
             InsertAt(targets, i, m)[k] = IF k < i THEN targets[k] ELSE IF k = i THEN m ELSE targets[k - 1]
    BY <1>2, <1>3, InsertAtElements
  <2> QED BY ONLY <1>1, <2>1
<1>5. /\ \A j, k \in DOMAIN targets : targets[j] = targets[k] => j = k
      /\ \A k \in DOMAIN targets : targets[k] # m
  BY DEF QueuedOnce, Queued
<1>6. QueuedOnce'
  <2> DEFINE g(k) == IF k < i THEN k ELSE k - 1
  <2>1. \A k \in DOMAIN targets' : k # i => g(k) \in DOMAIN targets /\ targets'[k] = targets[g(k)]
    BY <1>3, <1>4
  <2>2. \A j, k \in DOMAIN targets' : j # i /\ k # i /\ g(j) = g(k) => j = k
    BY <1>3, <1>4
  <2>3. targets'[i] = m
    BY <1>3, <1>4
  <2> HIDE DEF g
  <2> QED BY <1>5, <2>1, <2>2, <2>3 DEF QueuedOnce
<1>7. ASSUME NEW n \in Message PROVE Queued(n)' <=> Queued(n) \/ n = m
  <2>1. ASSUME NEW k \in DOMAIN targets', targets'[k] = n PROVE Queued(n) \/ n = m
    <3>1. CASE k < i
      BY <3>1, <2>1, <1>3, <1>4 DEF Queued
    <3>2. CASE k = i
      BY <3>2, <2>1, <1>3, <1>4
    <3>3. CASE k > i
      <4>1. k - 1 \in DOMAIN targets /\ targets[k - 1] = n
        BY <3>3, <2>1, <1>3, <1>4
      <4> QED BY <4>1 DEF Queued
    <3>4. k < i \/ k = i \/ k > i
      BY <1>3, <1>4
    <3> QED BY <3>1, <3>2, <3>3, <3>4
  <2>2. ASSUME NEW l \in DOMAIN targets, targets[l] = n PROVE Queued(n)'
    <3>1. CASE l < i
      <4>1. l \in DOMAIN targets' /\ targets'[l] = n
        BY <3>1, <2>2, <1>3, <1>4
      <4> QED BY <4>1 DEF Queued
    <3>2. CASE ~(l < i)
      <4>1. l + 1 \in DOMAIN targets' /\ targets'[l + 1] = n
        BY <3>2, <2>2, <1>3, <1>4
      <4> QED BY <4>1 DEF Queued
    <3> QED BY <3>1, <3>2
  <2>3. i \in DOMAIN targets' /\ targets'[i] = m
    BY <1>3, <1>4
  <2> QED BY <2>1, <2>2, <2>3 DEF Queued
<1> QED BY <1>6, <1>7

LEMMA LetGo ==
  ASSUME TypeOK, ServedOnce, NEW c \in Connections, target[c] # None,
         target' = [target EXCEPT ![c] = None]
  PROVE  /\ ServedOnce'
         /\ target[c] \in Message /\ Served(target[c])
         /\ \A n \in Message : Served(n)' <=> Served(n) /\ n # target[c]
<1>1. None \notin Message
  BY ConstantsAssumption
<1>2. target[c] \in Message
  BY DEF TypeOK
<1>3. \A d \in Connections : target'[d] = IF d = c THEN None ELSE target[d]
  BY DEF TypeOK
<1> QED BY <1>1, <1>2, <1>3 DEF ServedOnce, Served

LEMMA Given ==
  ASSUME TypeOK, ServedOnce, NEW c \in Connections, target[c] = None,
         NEW m \in Message, ~Served(m),
         target' = [target EXCEPT ![c] = m]
  PROVE  /\ ServedOnce'
         /\ \A n \in Message : Served(n)' <=> Served(n) \/ n = m
<1>1. None \notin Message
  BY ConstantsAssumption
<1>3. \A d \in Connections : target'[d] = IF d = c THEN m ELSE target[d]
  BY DEF TypeOK
<1> QED BY <1>1, <1>3 DEF ServedOnce, Served

-----------------------------------------------------------------------------
(* Every action but the stop callback moves one message, or none. *)

OneMove == \E m \in Message : \E p, q : <<p, q>> \in Moves /\ Move(m, p, q)
Kept == Unique' /\ Paired' /\ (Stays \/ OneMove)
Good == TypeOK /\ AllPlaced /\ Unique /\ Paired

LEMMA MoveIntro ==
  ASSUME NEW m \in Message, NEW p, NEW q, <<p, q>> \in Moves, Move(m, p, q)
  PROVE  OneMove
BY DEF OneMove

LEMMA PhaseFacts ==
  /\ Resting => ~Stopped
  /\ \A i : \A p \in {"close", "sweep", "assign"} : loop = At(p, i) => ~Stopped
  /\ \A i : \A p \in {"close", "sweep", "assign", "rest"} : loop' = At(p, i) => ~Stopped'
  /\ loop' = loop => (Stopped' <=> Stopped)
BY DEF Resting, Rest, Stopped, At

LEMMA KeptShell ==
  ASSUME Good, Shell
  PROVE  Kept
<1> USE DEF Good
<1>0. ASSUME UNCHANGED <<posts, messageVars, targets, poolVars, drops, loop>>
      PROVE  /\ QueuedOnce' /\ ServedOnce' /\ Paired' /\ posts' = posts /\ (Stopped' <=> Stopped)
             /\ \A n \in Message : (Queued(n)' <=> Queued(n)) /\ (Served(n)' <=> Served(n))
  BY <1>0, TargetsSame, TargetSame, PhaseFacts DEF poolVars, Unique, Paired
<1>1. ASSUME NEW m \in Message, KprMessageInvoke(m) PROVE Kept
  <2>1. m \notin asked /\ ~Invoked(m)
    BY <1>1 DEF KprMessageInvoke, AllPlaced, Placed
  <2>2. InvokedOnce' /\ \A n \in Message : Invoked(n)' <=> Invoked(n) \/ n = m
    BY <1>1, <2>1, InboxAppend DEF KprMessageInvoke, Unique
  <2>3. Move(m, "new", "invoked")
    BY <1>0, <1>1, <2>1, <2>2 DEF KprMessageInvoke, Move, IsAt
  <2>4. OneMove
    BY <2>3, MoveIntro DEF Moves
  <2> QED BY <1>0, <1>1, <2>2, <2>4 DEF KprMessageInvoke, Kept, Unique
<1>2. ASSUME NEW m \in Message, KprMessageCancel(m) PROVE Kept
  <2>1. InvokedOnce' /\ \A n \in Message : Invoked(n)' <=> Invoked(n)
    BY <1>2, InboxAppend DEF KprMessageCancel, Unique
  <2> QED BY <1>0, <1>2, <2>1 DEF KprMessageCancel, Kept, Unique, Stays
<1>3. ASSUME NEW m \in Message, KprMessageComplete(m) PROVE Kept
  <2>1. InvokedOnce' /\ \A n \in Message : Invoked(n)' <=> Invoked(n)
    BY <1>3, InboxSame DEF KprMessageComplete, Unique
  <2> QED BY <1>0, <1>3, <2>1 DEF KprMessageComplete, Kept, Unique, Stays
<1> QED BY <1>1, <1>2, <1>3 DEF Shell

LEMMA KeptReceived ==
  ASSUME Good, Received
  PROVE  Kept
<1> USE DEF Good
<1>0. ASSUME NEW k, NEW m \in Message, Receive(k, m), UNCHANGED poolVars
      PROVE  /\ InvokedOnce' /\ ServedOnce' /\ Paired' /\ ~Stopped
             /\ k = "invoke" => Invoked(m) /\ ~Queued(m)
             /\ \A n \in Message : /\ Invoked(n)' <=> Invoked(n) /\ ~(k = "invoke" /\ n = m)
                                   /\ Served(n)' <=> Served(n)
  <2>1. /\ InvokedOnce' /\ (k = "invoke" => Invoked(m))
        /\ \A n \in Message : Invoked(n)' <=> Invoked(n) /\ ~(k = "invoke" /\ n = m)
    BY <1>0, InboxTail DEF Unique
  <2>2. ServedOnce' /\ \A n \in Message : Served(n)' <=> Served(n)
    BY <1>0, TargetSame DEF poolVars, Unique
  <2>3. k = "invoke" => ~Queued(m)
    BY <2>1 DEF AllPlaced, Placed
  <2>4. Paired' /\ ~Stopped
    BY <1>0, PhaseFacts DEF Paired, poolVars, Receive
  <2> QED BY <2>1, <2>2, <2>3, <2>4
<1>1. ASSUME NEW m \in Message, InvokeCancelled(m) \/ InvokeFresh(m) PROVE Kept
  <2>1. /\ Receive("invoke", m) /\ KprHTTPClientResumeTarget(m)
        /\ UNCHANGED <<asked, targets, poolVars, loop>>
    BY <1>1 DEF InvokeCancelled, InvokeFresh
  <2>2. QueuedOnce' /\ \A n \in Message : Queued(n)' <=> Queued(n)
    BY <2>1, TargetsSame DEF Unique
  <2>3. Move(m, "invoked", "posted")
    BY <1>0, <2>1, <2>2, PhaseFacts DEF Move, IsAt, KprHTTPClientResumeTarget
  <2>4. OneMove
    BY <2>3, MoveIntro DEF Moves
  <2> QED BY <1>0, <2>1, <2>2, <2>4 DEF Kept, Unique
<1>2. ASSUME NEW m \in Message, InvokeTarget(m) PROVE Kept
  <2>1. /\ Receive("invoke", m) /\ KprHTTPClientAddTarget(m)
        /\ UNCHANGED <<asked, posts, poolVars>>
    BY <1>2 DEF InvokeTarget
  <2>2. QueuedOnce' /\ \A n \in Message : Queued(n)' <=> Queued(n) \/ n = m
    BY <1>0, <2>1, Added DEF Unique
  <2>3. ~Stopped'
    BY <2>1, PhaseFacts DEF KprHTTPClientAddTarget, KprHTTPClientIterate
  <2>4. Move(m, "invoked", "queued")
    BY <1>0, <2>1, <2>2, <2>3 DEF Move, IsAt
  <2>5. OneMove
    BY <2>4, MoveIntro DEF Moves
  <2> QED BY <1>0, <2>1, <2>2, <2>5 DEF Kept, Unique
<1>3. ASSUME NEW m \in Message, KprHTTPClientCancel(m) PROVE Kept
  <2>1. /\ Receive("cancel", m) /\ KprHTTPClientIterate
        /\ UNCHANGED <<asked, posts, targets, poolVars>>
    BY <1>3 DEF KprHTTPClientCancel
  <2>2. QueuedOnce' /\ \A n \in Message : Queued(n)' <=> Queued(n)
    BY <2>1, TargetsSame DEF Unique
  <2>3. ~Stopped'
    BY <2>1, PhaseFacts DEF KprHTTPClientIterate
  <2> QED BY <1>0, <2>1, <2>2, <2>3 DEF Kept, Unique, Stays
<1> QED BY <1>1, <1>2, <1>3 DEF Received

(* Connections, in the middle of Iterate or when it rests. *)

LEMMA Closed ==
  ASSUME Good, NEW c \in Connections, KprHTTPConnectionClose(c), UNCHANGED <<inbox, targets>>
  PROVE  /\ Paired' /\ Unique'
         /\ target[c] # None => target[c] \in Message /\ Served(target[c])
         /\ \A n \in Message : /\ Invoked(n)' <=> Invoked(n)
                               /\ Queued(n)' <=> Queued(n)
                               /\ Served(n)' <=> Served(n) /\ n # target[c]
<1> USE DEF Good
<1>1. target' = [target EXCEPT ![c] = None]
  BY DEF KprHTTPConnectionClose
<1>2. /\ InvokedOnce' /\ QueuedOnce'
      /\ \A n \in Message : (Invoked(n)' <=> Invoked(n)) /\ (Queued(n)' <=> Queued(n))
  BY InboxSame, TargetsSame DEF Unique
<1>3. Paired'
  BY DEF Paired, KprHTTPConnectionClose, TypeOK
<1>4. CASE target[c] # None
  BY <1>1, <1>2, <1>3, <1>4, LetGo DEF Unique
<1>5. CASE target[c] = None
  <2>1. target' = target
    BY <1>1, <1>5 DEF TypeOK
  <2>2. \A n \in Message : Served(n) => n # target[c]
    BY <1>5, ConstantsAssumption
  <2> QED BY <1>2, <1>3, <1>5, <2>1, <2>2, TargetSame DEF Unique
<1> QED BY <1>4, <1>5

LEMMA KeptAssign ==
  ASSUME Good, NEW c \in Connections, NEW i \in DOMAIN targets, NEW new,
         Available(c), ~Stopped, Assign(c, i, new)
  PROVE  Kept
<1> USE DEF Good
<1> DEFINE m == targets[i]
<1>1. /\ QueuedOnce' /\ m \in Message /\ Queued(m)
      /\ \A n \in Message : Queued(n)' <=> Queued(n) /\ n # m
  BY Removed DEF Assign, Unique
<1> HIDE DEF m
<1>2. target' = [target EXCEPT ![c] = m] /\ busy' = busy \union {c} /\ due' = due \ {c}
  BY DEF Assign, KprHTTPConnectionProcess, m
<1>3. target[c] = None /\ ~Served(m)
  BY <1>1 DEF Available, Paired, AllPlaced, Placed
<1>4. ServedOnce' /\ \A n \in Message : Served(n)' <=> Served(n) \/ n = m
  BY <1>1, <1>2, <1>3, Given DEF Unique
<1>5. InvokedOnce' /\ \A n \in Message : Invoked(n)' <=> Invoked(n)
  BY InboxSame DEF Assign, Unique
<1>6. Paired'
  <2>1. m # None
    BY <1>1, ConstantsAssumption
  <2>2. \A d \in Connections : target'[d] = IF d = c THEN m ELSE target[d]
    BY <1>2 DEF TypeOK
  <2> QED BY <1>2, <2>1, <2>2 DEF Paired, TypeOK
<1>7. UNCHANGED <<asked, posts>> /\ ~Stopped'
  BY PhaseFacts DEF Assign
<1>8. Move(m, "queued", "served")
  BY <1>1, <1>4, <1>5, <1>7 DEF Move, IsAt
<1>9. OneMove
  BY <1>1, <1>8, MoveIntro DEF Moves
<1> QED BY <1>1, <1>4, <1>5, <1>6, <1>9 DEF Kept, Unique

LEMMA KeptIterating ==
  ASSUME Good, Iterating
  PROVE  Kept
<1> USE DEF Good
<1>1. ASSUME NEW c \in Connections, CloseCancelled(c) PROVE Kept
  <2> DEFINE m == target[c]
  <2>1. /\ KprHTTPConnectionClose(c) /\ KprHTTPClientResumeTarget(m) /\ m # None
        /\ UNCHANGED <<asked, inbox, targets>>
    BY <1>1 DEF CloseCancelled, Cancelled
  <2>2. ~Stopped /\ ~Stopped'
    BY <1>1, PhaseFacts DEF CloseCancelled, Closing, NextConnection
  <2>3. /\ Paired' /\ Unique' /\ m \in Message /\ Served(m)
        /\ \A n \in Message : /\ Invoked(n)' <=> Invoked(n)
                              /\ Queued(n)' <=> Queued(n)
                              /\ Served(n)' <=> Served(n) /\ n # m
    BY <2>1, Closed
  <2> HIDE DEF m
  <2>4. Move(m, "served", "posted")
    BY <2>1, <2>2, <2>3 DEF Move, IsAt, KprHTTPClientResumeTarget
  <2>5. OneMove
    BY <2>3, <2>4, MoveIntro DEF Moves
  <2> QED BY <2>3, <2>5 DEF Kept
<1>2. ASSUME UNCHANGED <<asked, inbox, posts, targets, poolVars>>, ~Stopped, ~Stopped'
      PROVE  Kept
  <2>1. Unique' /\ \A n \in Message : /\ Invoked(n)' <=> Invoked(n)
                                      /\ Queued(n)' <=> Queued(n)
                                      /\ Served(n)' <=> Served(n)
    BY <1>2, InboxSame, TargetsSame, TargetSame DEF Unique, poolVars
  <2>2. Paired'
    BY <1>2 DEF Paired, poolVars
  <2> QED BY <1>2, <2>1, <2>2 DEF Kept, Stays
<1>3. ASSUME NEW c \in Connections, KeepConnection(c) PROVE Kept
  BY <1>2, <1>3, PhaseFacts DEF KeepConnection, Closing, NextConnection
<1>4. ASSUME NEW i \in 1 .. Len(targets) + 1,
             SweepNext(i) \/ SweepEnd(i) \/ AssignLater(i) \/ AssignFull(i) \/ AssignEnd(i)
      PROVE  Kept
  <2>1. ~Stopped /\ ~Stopped'
    BY <1>4, PhaseFacts DEF SweepNext, SweepEnd, AssignLater, AssignFull, AssignEnd,
         Sweeping, Assigning, Rest
  <2>2. UNCHANGED <<asked, inbox, posts, targets, poolVars>>
    BY <1>4 DEF SweepNext, SweepEnd, AssignLater, AssignFull, AssignEnd
  <2> QED BY <1>2, <2>1, <2>2
<1>5. ASSUME NEW i \in 1 .. Len(targets) + 1, Sweeping(i) \/ Assigning(i)
      PROVE  i \in DOMAIN targets /\ ~Stopped
  <2>1. targets \in Seq(Message)
    BY DEF TypeOK
  <2>2. i <= Len(targets) /\ ~Stopped
    BY <1>5, PhaseFacts DEF Sweeping, Assigning
  <2> QED BY <2>1, <2>2
<1>6. ASSUME NEW i \in 1 .. Len(targets) + 1, SweepCancelled(i) PROVE Kept
  <2> DEFINE m == targets[i]
  <2>1. i \in DOMAIN targets /\ ~Stopped /\ ~Stopped'
    BY <1>5, <1>6, PhaseFacts DEF SweepCancelled
  <2>2. /\ QueuedOnce' /\ m \in Message /\ Queued(m)
        /\ \A n \in Message : Queued(n)' <=> Queued(n) /\ n # m
    BY <1>6, <2>1, Removed DEF SweepCancelled, Unique
  <2>3. KprHTTPClientResumeTarget(m) /\ UNCHANGED <<asked, inbox, poolVars>>
    BY <1>6 DEF SweepCancelled
  <2>4. /\ InvokedOnce' /\ ServedOnce' /\ Paired'
        /\ \A n \in Message : (Invoked(n)' <=> Invoked(n)) /\ (Served(n)' <=> Served(n))
    BY <2>3, InboxSame, TargetSame DEF Unique, poolVars, Paired
  <2> HIDE DEF m
  <2>5. Move(m, "queued", "posted")
    BY <2>1, <2>2, <2>3, <2>4 DEF Move, IsAt, KprHTTPClientResumeTarget
  <2>6. OneMove
    BY <2>2, <2>5, MoveIntro DEF Moves
  <2> QED BY <2>2, <2>4, <2>6 DEF Kept, Unique
<1>7. ASSUME NEW i \in 1 .. Len(targets) + 1, AssignCandidate(i) PROVE Kept
  BY <1>5, <1>7, KeptAssign DEF AssignCandidate
<1>8. ASSUME NEW i \in 1 .. Len(targets) + 1, AssignOther(i) PROVE Kept
  BY <1>5, <1>8, KeptAssign DEF AssignOther, Oldest
<1>9. ASSUME NEW i \in 1 .. Len(targets) + 1, AssignReplace(i) PROVE Kept
  BY <1>5, <1>9, KeptAssign DEF AssignReplace, Oldest
<1> QED BY <1>1, <1>3, <1>4, <1>6, <1>7, <1>8, <1>9 DEF Iterating

LEMMA LetGoReleased ==
  ASSUME Good, NEW c \in Connections, NEW how, Released(c, how), UNCHANGED inbox
  PROVE  /\ Paired' /\ InvokedOnce' /\ ServedOnce' /\ ~Stopped
         /\ target[c] \in Message /\ Served(target[c]) /\ ~Queued(target[c])
         /\ \A n \in Message : /\ Invoked(n)' <=> Invoked(n)
                               /\ Served(n)' <=> Served(n) /\ n # target[c]
<1> USE DEF Good
<1>1. /\ target[c] # None /\ target' = [target EXCEPT ![c] = None] /\ busy' = busy \ {c}
      /\ due' \subseteq due \union {c} /\ ~Stopped
  BY PhaseFacts DEF Released, KprHTTPConnectionClose
<1>2. /\ ServedOnce' /\ target[c] \in Message /\ Served(target[c])
      /\ \A n \in Message : Served(n)' <=> Served(n) /\ n # target[c]
  BY <1>1, LetGo DEF Unique
<1>3. InvokedOnce' /\ \A n \in Message : Invoked(n)' <=> Invoked(n)
  BY InboxSame DEF Unique
<1>4. Paired'
  <2>1. \A d \in Connections : target'[d] = IF d = c THEN None ELSE target[d]
    BY <1>1 DEF TypeOK
  <2> QED BY <1>1, <2>1 DEF Paired, TypeOK
<1>5. ~Queued(target[c])
  BY <1>2 DEF AllPlaced, Placed
<1> QED BY <1>1, <1>2, <1>3, <1>4, <1>5

LEMMA KeptCallbacks ==
  ASSUME Good, NEW c \in Connections,
         KprHTTPConnectionCompleteCallback(c) \/ ClosedKeep(c) \/ ClosedLost(c)
  PROVE  Kept
<1> USE DEF Good
<1> DEFINE m == target[c]
<1>1. CASE CompleteDropped(c)
  <2>1. /\ m # None /\ target' = [target EXCEPT ![c] = m] /\ busy' = busy \union {c} /\ due' = due \ {c}
        /\ UNCHANGED <<asked, inbox, posts, targets, loop>>
    BY <1>1 DEF CompleteDropped, KprHTTPConnectionProcess
  <2>2. target' = target
    BY <2>1 DEF TypeOK
  <2>3. Paired'
    BY <2>1, <2>2 DEF Paired, TypeOK
  <2>4. Unique' /\ \A n \in Message : /\ Invoked(n)' <=> Invoked(n)
                                      /\ Queued(n)' <=> Queued(n)
                                      /\ Served(n)' <=> Served(n)
    BY <2>1, <2>2, InboxSame, TargetsSame, TargetSame DEF Unique
  <2> QED BY <2>1, <2>3, <2>4, PhaseFacts DEF Kept, Stays
<1>2. CASE CompleteDone(c) \/ CompleteFailed(c)
  <2>1. /\ KprHTTPClientResumeTarget(m) /\ UNCHANGED <<asked, inbox, targets>>
        /\ (KprHTTPClientIterate \/ UNCHANGED loop)
    BY <1>2 DEF CompleteDone, CompleteFailed, IterateUnless
  <2>2. /\ Paired' /\ InvokedOnce' /\ ServedOnce' /\ ~Stopped
        /\ m \in Message /\ Served(m)
        /\ \A n \in Message : (Invoked(n)' <=> Invoked(n)) /\ (Served(n)' <=> Served(n) /\ n # m)
    BY <1>2, <2>1, LetGoReleased DEF CompleteDone, CompleteFailed
  <2>3. QueuedOnce' /\ \A n \in Message : Queued(n)' <=> Queued(n)
    BY <2>1, TargetsSame DEF Unique
  <2>4. ~Stopped'
    BY <2>1, <2>2, PhaseFacts DEF KprHTTPClientIterate
  <2> HIDE DEF m
  <2>5. Move(m, "served", "posted")
    BY <2>1, <2>2, <2>3, <2>4 DEF Move, IsAt, KprHTTPClientResumeTarget
  <2>6. OneMove
    BY <2>2, <2>5, MoveIntro DEF Moves
  <2> QED BY <2>2, <2>3, <2>6 DEF Kept, Unique
<1>3. CASE CompleteAgain(c) \/ CompleteUnreadable(c)
  <2>1. /\ KprHTTPClientAddTarget(m) /\ UNCHANGED <<asked, inbox, posts>>
    BY <1>3 DEF CompleteAgain, CompleteUnreadable
  <2>2. /\ Paired' /\ InvokedOnce' /\ ServedOnce' /\ ~Stopped
        /\ m \in Message /\ Served(m) /\ ~Queued(m)
        /\ \A n \in Message : (Invoked(n)' <=> Invoked(n)) /\ (Served(n)' <=> Served(n) /\ n # m)
    BY <1>3, <2>1, LetGoReleased DEF CompleteAgain, CompleteUnreadable
  <2> HIDE DEF m
  <2>3. QueuedOnce' /\ \A n \in Message : Queued(n)' <=> Queued(n) \/ n = m
    BY <2>1, <2>2, Added DEF Unique
  <2>4. ~Stopped'
    BY <2>1, PhaseFacts DEF KprHTTPClientAddTarget, KprHTTPClientIterate
  <2>5. Move(m, "served", "queued")
    BY <2>1, <2>2, <2>3, <2>4 DEF Move, IsAt
  <2>6. OneMove
    BY <2>2, <2>5, MoveIntro DEF Moves
  <2> QED BY <2>2, <2>3, <2>6 DEF Kept, Unique
<1>4. CASE ClosedKeep(c)
  <2>1. /\ UNCHANGED <<asked, inbox, posts, targets, target, busy>> /\ due' = due \ {c}
        /\ ~Stopped /\ ~Stopped'
    BY <1>4, PhaseFacts DEF ClosedKeep, KprHTTPClientIterate
  <2>2. Unique' /\ \A n \in Message : /\ Invoked(n)' <=> Invoked(n)
                                      /\ Queued(n)' <=> Queued(n)
                                      /\ Served(n)' <=> Served(n)
    BY <2>1, InboxSame, TargetsSame, TargetSame DEF Unique
  <2>3. Paired'
    BY <2>1 DEF Paired, TypeOK
  <2> QED BY <2>1, <2>2, <2>3 DEF Kept, Stays
<1>5. CASE ClosedLost(c)
  <2>1. /\ KprHTTPConnectionClose(c) /\ UNCHANGED <<asked, inbox, posts, targets>>
        /\ ~Stopped /\ ~Stopped'
    BY <1>5, PhaseFacts DEF ClosedLost, KprHTTPClientIterate
  <2>2. m = None
    BY <1>5 DEF ClosedLost, Available, Paired
  <2>3. \A n \in Message : n # m
    BY <2>2, ConstantsAssumption
  <2>4. /\ Paired' /\ Unique'
        /\ \A n \in Message : /\ Invoked(n)' <=> Invoked(n)
                              /\ Queued(n)' <=> Queued(n)
                              /\ Served(n)' <=> Served(n)
    BY <2>1, <2>3, Closed
  <2> QED BY <2>1, <2>4 DEF Kept, Stays
<1> QED BY <1>1, <1>2, <1>3, <1>4, <1>5 DEF KprHTTPConnectionCompleteCallback

-----------------------------------------------------------------------------
(* The theorems. *)

(* The stop callback drops what the client holds. *)
LEMMA StopStep ==
  ASSUME Good, KprHTTPClientStop
  PROVE  AllPlaced' /\ Unique' /\ Paired' /\ Service!Next
<1> USE DEF Good
<1>1. /\ targets' = <<>> /\ target' = [c \in Connections |-> None] /\ busy' = {} /\ due' = {}
      /\ UNCHANGED <<asked, inbox, posts>>
  BY DEF KprHTTPClientStop
<1>2. Stopped' = TRUE /\ Stopped = FALSE
  BY PhaseFacts DEF KprHTTPClientStop, Stopped, At
<1>3. \A n \in Message : ~Queued(n)' /\ ~Served(n)' /\ (Invoked(n)' <=> Invoked(n))
  <2>1. DOMAIN targets' = {}
    BY <1>1
  <2>2. \A n \in Message : n # None
    BY ConstantsAssumption
  <2> QED BY <1>1, <2>1, <2>2 DEF Queued, Served, Invoked
<1>4. Unique'
  <2>1. DOMAIN targets' = {}
    BY <1>1
  <2> QED BY <1>1, <2>1 DEF Unique, InvokedOnce, QueuedOnce, ServedOnce
<1>5. Paired'
  BY <1>1 DEF Paired
<1>6. AllPlaced'
  BY <1>1, <1>2, <1>3 DEF AllPlaced, Placed
<1>7. Held' = {}
  BY <1>3 DEF Held
<1>8. Service!Stop
  BY <1>1, <1>2, <1>7 DEF Service!Stop
<1> QED BY <1>4, <1>5, <1>6, <1>8 DEF Service!Next

LEMMA InvStep ==
  ASSUME Inv, [Next]_vars
  PROVE  Inv' /\ [Service!Next]_(Service!vars)
<1>1. Good
  BY InvParts DEF Inv, Good
<1>2. TypeOK'
  BY TypeStep DEF Inv
<1>3. CASE KprHTTPClientStop
  BY <1>1, <1>2, <1>3, StopStep, InvParts DEF Inv
<1>4. CASE UNCHANGED vars
  <2>1. Stays /\ Unique' /\ Paired'
    BY <1>1, <1>4, InboxSame, TargetsSame, TargetSame, PhaseFacts
    DEF vars, poolVars, Good, Unique, Stays, Paired
  <2> QED BY <1>1, <1>2, <2>1, StayKeeps, StayImplements, InvParts DEF Inv, Good
<1>5. CASE Kept
  <2>1. CASE Stays
    BY <1>1, <1>2, <1>5, <2>1, StayKeeps, StayImplements, InvParts DEF Inv, Good, Kept
  <2>2. CASE OneMove
    <3>1. PICK m \in Message : \E p, q : <<p, q>> \in Moves /\ Move(m, p, q)
      BY <2>2 DEF OneMove
    <3>2. PICK p, q : <<p, q>> \in Moves /\ Move(m, p, q)
      BY <3>1
    <3>3. AllPlaced' /\ [Service!Next]_(Service!vars)
      BY <1>1, <3>2, MoveKeeps, MoveImplements DEF Good
    <3> QED BY <1>2, <1>5, <3>3, InvParts DEF Inv, Kept
  <2> QED BY <1>5, <2>1, <2>2 DEF Kept
<1> QED BY <1>1, <1>3, <1>4, <1>5, KeptShell, KeptReceived, KeptIterating, KeptCallbacks DEF Next

LEMMA InvInit == Init => Inv /\ Service!Init
<1> SUFFICES ASSUME Init PROVE Inv /\ Service!Init
  OBVIOUS
<1>1. TypeOK
  BY ConstantsAssumption DEF Init, TypeOK, Rest, At, Connections
<1>2. Stopped = FALSE
  BY DEF Init, Stopped, Rest, At
<1>7. /\ DOMAIN inbox = {} /\ DOMAIN targets = {} /\ asked = {}
      /\ \A c \in Connections : target[c] = None
  BY DEF Init
<1>8. \A m \in Message : m # None
  BY ConstantsAssumption
<1>3. \A m \in Message : ~Invoked(m) /\ ~Queued(m) /\ ~Served(m)
  BY <1>7, <1>8 DEF Invoked, Queued, Served
<1>4. Custody /\ Known
  <2>1. \A m \in Message : posts[m] = 0
    BY DEF Init
  <2> QED BY <1>3, <1>7, <2>1 DEF Custody, Known
<1>5. Paired
  BY DEF Init, Paired
<1>6. Held = {}
  BY <1>3 DEF Held
<1> QED BY <1>1, <1>2, <1>4, <1>5, <1>6 DEF Inv, Init, Service!Init

\* No message is lost and none is completed twice, whatever is retried,
\* redirected, dropped or cancelled and in whatever order: it is in one place
\* until it is completed (KprHTTPClientAddTarget, KprHTTPClientIterate,
\* KprHTTPConnectionCompleteCallback).
THEOREM InCustody == Spec => []Custody
<1>1. Inv => Custody
  BY DEF Inv
<1>2. Inv /\ [Next]_vars => Inv'
  BY InvStep
<1> QED BY InvInit, <1>1, <1>2, PTL DEF Spec

\* The HTTP client implements what KprMessage relies on: it holds a message it
\* was asked for and posts its completion once.
THEOREM ClientImplementsService == Spec => ImplementsService
<1>1. Inv /\ [Next]_vars => Inv' /\ [Service!Next]_(Service!vars)
  BY InvStep
<1> QED BY InvInit, <1>1, PTL DEF Spec, ImplementsService, Service!Spec

-----------------------------------------------------------------------------
(* The order of requests.  Passed is what Iterate's third loop knows of the *)
(* part of the list behind it: it walked past a message only because the    *)
(* first connection for it was busy, and within the loop connections only   *)
(* get busier.  The shell thread may cancel the message that keeps this     *)
(* connection busy: that is Cut.                                            *)

(* The list is sorted by priority. *)
Sorted == \A i, j \in DOMAIN targets : i < j => Rank(targets[i]) >= Rank(targets[j])

Patient == \A m \in Message : Priority[m] >= 0

(* The client of a connection speaks to the host of its target. *)
Matched ==
  \A c \in Connections :
    target[c] # None => /\ client[c] = url[target[c]]
                        /\ Patient => priority[c] = Priority[target[c]]

Passed ==
  loop.phase = "assign" =>
    \A l \in DOMAIN targets :
      l < loop.at /\ targets[l] \in waiting => HeldBack(targets[l]) \/ Cut(targets[l])

OrderInv == Sorted /\ Matched /\ Passed

LEMMA Least ==
  ASSUME NEW S, S \subseteq Nat, S # {}
  PROVE  \E x \in S : \A y \in S : ~(y < x)
<1>1. PICK x \in S : \A y \in S : ~(<<y, x>> \in OpToRel(<, Nat))
  BY NatLessThanWellFounded, WFMin
<1>2. \A y \in S : y < x => <<y, x>> \in OpToRel(<, Nat)
  BY DEF OpToRel
<1> QED BY <1>1, <1>2

LEMMA RankFacts ==
  \A m \in Message : Rank(m) \in Int /\ (Patient => Rank(m) = Priority[m])
BY ConstantsAssumption DEF Rank, Abs, Patient

(* A list is sorted after an element has been taken from it, *)
LEMMA SortedRemove ==
  ASSUME TypeOK, Sorted, NEW i \in DOMAIN targets, targets' = RemoveAt(targets, i)
  PROVE  Sorted'
<1>1. targets \in Seq(Message)
  BY DEF TypeOK
<1>2. /\ Len(targets) \in Nat /\ DOMAIN targets = 1 .. Len(targets)
      /\ \A k \in 1 .. Len(targets) : targets[k] \in Message
  BY <1>1
<1>3. i \in 1 .. Len(targets)
  BY <1>2
<1>4. /\ DOMAIN targets' = 1 .. Len(targets) - 1
      /\ \A k \in 1 .. Len(targets) - 1 : targets'[k] = IF k < i THEN targets[k] ELSE targets[k + 1]
  BY <1>1, <1>3, RemoveAtElements
<1> DEFINE g(k) == IF k < i THEN k ELSE k + 1
<1>5. \A k \in DOMAIN targets' : g(k) \in DOMAIN targets /\ targets'[k] = targets[g(k)]
  BY <1>2, <1>3, <1>4
<1>6. \A j, k \in DOMAIN targets' : j < k => g(j) < g(k)
  BY <1>2, <1>3, <1>4
<1> HIDE DEF g
<1>7. \A j, k \in DOMAIN targets' : j < k => Rank(targets'[j]) >= Rank(targets'[k])
  BY <1>5, <1>6 DEF Sorted
<1> QED BY <1>7 DEF Sorted, Rank

(* and after KprHTTPClientAddTarget. *)
LEMMA SortedAdd ==
  ASSUME TypeOK, Sorted, NEW m \in Message, KprHTTPClientAddTarget(m)
  PROVE  Sorted'
<1>1. PICK i \in 1 .. Len(targets) + 1 : StopsAt(targets, m, i) /\ targets' = InsertAt(targets, i, m)
  BY DEF KprHTTPClientAddTarget
<1>2. targets \in Seq(Message)
  BY DEF TypeOK
<1>3. /\ Len(targets) \in Nat /\ DOMAIN targets = 1 .. Len(targets)
      /\ i \in 1 .. Len(targets) + 1
      /\ \A k \in 1 .. Len(targets) : targets[k] \in Message
  BY <1>1, <1>2
<1>4. /\ DOMAIN targets' = 1 .. Len(targets) + 1
      /\ \A k \in 1 .. Len(targets) + 1 :
           targets'[k] = IF k < i THEN targets[k] ELSE IF k = i THEN m ELSE targets[k - 1]
  <2>1. /\ DOMAIN InsertAt(targets, i, m) = 1 .. Len(targets) + 1
        /\ \A k \in 1 .. Len(targets) + 1 :
             InsertAt(targets, i, m)[k] = IF k < i THEN targets[k] ELSE IF k = i THEN m ELSE targets[k - 1]
    BY <1>2, <1>3, InsertAtElements
  <2> QED BY ONLY <1>1, <2>1
<1>5. \A n \in Message : Rank(n) \in Int
  BY RankFacts
<1>6. /\ \A j \in 1 .. i - 1 : Rank(targets[j]) >= Rank(m)
      /\ i <= Len(targets) => Rank(m) >= Rank(targets[i])
  <2>1. \A j \in 1 .. i - 1 : j \in 1 .. Len(targets) /\ Rank(targets[j]) \in Int
    BY <1>3, <1>5
  <2>2. i <= Len(targets) => i \in 1 .. Len(targets) /\ Rank(targets[i]) \in Int
    BY <1>3, <1>5
  <2>3. Rank(m) \in Int
    BY <1>5
  <2> QED BY <1>1, <2>1, <2>2, <2>3 DEF StopsAt
<1>7. \A j \in 1 .. Len(targets) : j >= i => Rank(m) >= Rank(targets[j])
  <2> SUFFICES ASSUME NEW j \in 1 .. Len(targets), j >= i PROVE Rank(m) >= Rank(targets[j])
    OBVIOUS
  <2>1. i \in 1 .. Len(targets) /\ (i = j \/ i < j)
    BY <1>3
  <2>2. i < j => Rank(targets[i]) >= Rank(targets[j])
    BY <1>3, <2>1 DEF Sorted
  <2>3. Rank(m) \in Int /\ Rank(targets[i]) \in Int /\ Rank(targets[j]) \in Int
    BY <1>3, <1>5, <2>1
  <2>4. Rank(m) >= Rank(targets[i])
    BY <1>6, <2>1
  <2> QED BY <2>1, <2>2, <2>3, <2>4
<1>8. ASSUME NEW j \in DOMAIN targets', NEW k \in DOMAIN targets', j < k
      PROVE  Rank(targets'[j]) >= Rank(targets'[k])
  <2>1. CASE j = i
    <3>1. targets'[j] = m /\ targets'[k] = targets[k - 1] /\ k - 1 \in 1 .. Len(targets) /\ k - 1 >= i
      BY <1>3, <1>4, <1>8, <2>1
    <3> QED BY <1>7, <3>1
  <2>2. CASE k = i
    <3>1. targets'[k] = m /\ targets'[j] = targets[j] /\ j \in 1 .. i - 1
      BY <1>3, <1>4, <1>8, <2>2
    <3> QED BY <1>6, <3>1
  <2>3. CASE j # i /\ k # i
    <3> DEFINE g(x) == IF x < i THEN x ELSE x - 1
    <3>1. /\ targets'[j] = targets[g(j)] /\ targets'[k] = targets[g(k)]
          /\ g(j) \in DOMAIN targets /\ g(k) \in DOMAIN targets /\ g(j) < g(k)
      BY <1>3, <1>4, <1>8, <2>3
    <3> HIDE DEF g
    <3> QED BY <3>1 DEF Sorted
  <2> QED BY <2>1, <2>2, <2>3
<1> QED BY <1>8 DEF Sorted, Rank

(* A request that is given to a free connection. *)
LEMMA AssignFacts ==
  ASSUME TypeOK, NEW c \in Connections, NEW i \in DOMAIN targets, NEW new, Assign(c, i, new)
  PROVE  /\ targets[i] \in Message
         /\ \A d \in Connections :
              /\ target'[d] = IF d = c THEN targets[i] ELSE target[d]
              /\ client'[d] = IF d = c THEN url[targets[i]] ELSE client[d]
              /\ priority'[d] = IF d = c THEN (IF new THEN Priority[targets[i]] ELSE priority[c]) ELSE priority[d]
         /\ busy' = busy \union {c}
         /\ UNCHANGED <<waiting, url, inbox, loop>>
         /\ targets' = RemoveAt(targets, i)
<1>1. targets \in Seq(Message)
  BY DEF TypeOK
<1>2. targets[i] \in Message
  BY <1>1
<1> QED BY <1>2 DEF Assign, KprHTTPConnectionProcess, TypeOK, messageVars

(* A message that is held back stays so while others are assigned. *)
LEMMA HeldBackAssign ==
  ASSUME TypeOK, Paired, Matched, NEW c \in Connections, NEW i \in DOMAIN targets, NEW new,
         Assign(c, i, new), Available(c), NEW m \in Message, HeldBack(m)
  PROVE  HeldBack(m)'
<1>1. PICK a \in Connections : FirstCandidate(a, m) /\ ~Available(a)
  BY DEF HeldBack
<1>2. a # c /\ a \in busy' /\ c \in busy'
  BY <1>1, AssignFacts DEF Available
<1>3. UNCHANGED <<waiting, url>>
  BY AssignFacts
<1>4. \A n \in Message : RequestTarget(n)' = RequestTarget(n)
  BY <1>3 DEF RequestTarget
<1>5. \A d \in Connections : d # c => (Candidate(d, m)' <=> Candidate(d, m))
  <2> SUFFICES ASSUME NEW d \in Connections, d # c PROVE Candidate(d, m)' <=> Candidate(d, m)
    OBVIOUS
  <2>1. target'[d] = target[d] /\ client'[d] = client[d] /\ priority'[d] = priority[d]
    BY AssignFacts
  <2>2. RequestTarget(target[d])' = RequestTarget(target[d])
    BY <1>3, <2>1 DEF RequestTarget
  <2>3. Rank(m)' = Rank(m)
    BY DEF Rank
  <2> QED BY <1>3, <1>4, <2>1, <2>2, <2>3 DEF Candidate, RequestTarget
<1> DEFINE S == {d \in Connections : Candidate(d, m)'}
<1>6. a \in S
  BY <1>1, <1>2, <1>5 DEF FirstCandidate
<1>7. S \subseteq Nat /\ Connections \subseteq Nat
  BY ConstantsAssumption DEF Connections
<1>8. PICK d \in S : \A e \in S : ~(e < d)
  BY <1>6, <1>7, Least
<1>9. FirstCandidate(d, m)'
  BY <1>8 DEF FirstCandidate
<1>10. d \in busy'
  <2>1. CASE d = a \/ d = c
    BY <1>2, <2>1
  <2>2. CASE d # a /\ d # c
    <3>1. Candidate(d, m)
      BY <1>5, <1>8, <2>2
    <3>2. ~(d < a)
      BY <1>1, <1>8, <3>1 DEF FirstCandidate
    <3>3. a < d
      BY <1>7, <2>2, <3>2
    <3> QED BY <1>6, <1>8, <3>3
  <2> QED BY <2>1, <2>2
<1> QED BY <1>8, <1>9, <1>10 DEF HeldBack, Available

LEMMA CutAssign ==
  ASSUME TypeOK, Paired, NEW c \in Connections, NEW i \in DOMAIN targets, NEW new,
         Assign(c, i, new), Available(c), NEW m \in Message, Cut(m)
  PROVE  Cut(m)'
<1>1. PICK a \in Connections : /\ Cancelled(a) /\ Owner[target[a]] = Owner[m]
                               /\ client[a] = url[m] /\ priority[a] = Rank(m)
  BY DEF Cut
<1>2. a # c
  BY <1>1 DEF Cancelled, Paired, Available
<1>3. target'[a] = target[a] /\ client'[a] = client[a] /\ priority'[a] = priority[a]
  BY <1>2, AssignFacts
<1>4. waiting' = waiting /\ url' = url
  BY AssignFacts
<1>5. Rank(m)' = Rank(m)
  BY DEF Rank
<1> QED BY <1>1, <1>3, <1>4, <1>5 DEF Cut, Cancelled, Rank

(* The shell thread changes one flag; the list, the pool and the loop stay. *)
LEMMA ShellFacts ==
  ASSUME Shell
  PROVE  UNCHANGED <<posts, messageVars, targets, poolVars, drops, loop>>
BY DEF Shell, KprMessageInvoke, KprMessageCancel, KprMessageComplete

(* A flag that is set or cleared, of a message nobody holds, is not noticed. *)
LEMMA HeldBackSame ==
  ASSUME TypeOK, NEW m \in Message, UNCHANGED <<url, target, client, priority, busy>>,
         \A n \in Message : n = m \/ Served(n) => (n \in waiting' <=> n \in waiting)
  PROVE  /\ HeldBack(m)' <=> HeldBack(m)
         /\ NoCandidate(m)' <=> NoCandidate(m)
         /\ Cut(m)' <=> Cut(m)
<1>1. RequestTarget(m)' = RequestTarget(m) /\ Rank(m)' = Rank(m)
  BY DEF RequestTarget, Rank
<1>2. \A c \in Connections : target[c] # None =>
        /\ target[c] \in Message
        /\ target[c] \in waiting' <=> target[c] \in waiting
        /\ RequestTarget(target[c])' = RequestTarget(target[c])
  <2> SUFFICES ASSUME NEW c \in Connections, target[c] # None
               PROVE  /\ target[c] \in Message
                      /\ target[c] \in waiting' <=> target[c] \in waiting
                      /\ RequestTarget(target[c])' = RequestTarget(target[c])
    OBVIOUS
  <2>1. target[c] \in Message /\ Served(target[c]) /\ target' = target
    BY DEF TypeOK, Served
  <2>2. target[c] \in waiting' <=> target[c] \in waiting
    BY <2>1
  <2> QED BY <2>1, <2>2 DEF RequestTarget
<1>3. /\ target' = target /\ client' = client /\ priority' = priority /\ busy' = busy /\ url' = url
  OBVIOUS
<1>4. \A c \in Connections : Candidate(c, m)' <=> Candidate(c, m)
  <2> SUFFICES ASSUME NEW c \in Connections PROVE Candidate(c, m)' <=> Candidate(c, m)
    OBVIOUS
  <2>1. CASE target[c] = None
    BY <1>1, <1>3, <2>1 DEF Candidate
  <2>2. CASE target[c] # None
    BY <1>1, <1>2, <1>3, <2>2 DEF Candidate
  <2> QED BY <2>1, <2>2
<1>5. \A c \in Connections : FirstCandidate(c, m)' <=> FirstCandidate(c, m)
  BY <1>4 DEF FirstCandidate
<1>6. \A c \in Connections : Available(c)' <=> Available(c)
  BY <1>3 DEF Available
<1>7. HeldBack(m)' <=> HeldBack(m)
  BY <1>5, <1>6 DEF HeldBack
<1>8. NoCandidate(m)' <=> NoCandidate(m)
  BY <1>4 DEF NoCandidate
<1>9. \A c \in Connections : Cancelled(c)' <=> Cancelled(c)
  BY <1>2, <1>3 DEF Cancelled
<1>10. Cut(m)' <=> Cut(m)
  BY <1>1, <1>3, <1>9 DEF Cut
<1> QED BY <1>7, <1>8, <1>10

(* A message that waits for a connection waits for the one it is held back  *)
(* by, or the message of that connection has just been cancelled.           *)
LEMMA HeldBackCancel ==
  ASSUME TypeOK, Paired, Matched, UNCHANGED <<url, poolVars>>, NEW x \in Message,
         waiting' = waiting \ {x}, NEW m \in Message, m \in waiting',
         HeldBack(m) \/ Cut(m)
  PROVE  HeldBack(m)' \/ Cut(m)'
<1>1. /\ target' = target /\ client' = client /\ priority' = priority /\ busy' = busy /\ url' = url
      /\ Rank(m)' = Rank(m)
  BY DEF poolVars, Rank
<1>2. CASE Cut(m)
  <2>1. PICK a \in Connections : /\ Cancelled(a) /\ Owner[target[a]] = Owner[m]
                                 /\ client[a] = url[m] /\ priority[a] = Rank(m)
    BY <1>2 DEF Cut
  <2>2. Cancelled(a)'
    BY <1>1, <2>1 DEF Cancelled
  <2> QED BY <1>1, <2>1, <2>2 DEF Cut
<1>3. CASE HeldBack(m) /\ ~Served(x)
  <2>1. \A n \in Message : n = m \/ Served(n) => (n \in waiting' <=> n \in waiting)
    BY <1>3
  <2> QED BY <1>1, <1>3, <2>1, HeldBackSame
<1>4. CASE HeldBack(m) /\ Served(x)
  <2>1. PICK c \in Connections : target[c] = x
    BY <1>4 DEF Served
  <2>2. PICK a \in Connections : FirstCandidate(a, m) /\ ~Available(a)
    BY <1>4 DEF HeldBack
  <2>3. target[a] # None /\ target[a] \in Message /\ client[a] = url[target[a]] /\ client[a] # None
    <3>1. target[a] # None /\ target[a] \in Message
      BY <2>2 DEF Available, Paired, TypeOK
    <3>2. client[a] = url[target[a]] /\ url[target[a]] \in Host
      BY <3>1 DEF Matched, TypeOK
    <3> QED BY <3>1, <3>2, ConstantsAssumption
  <2>4. client[a] = url[m] /\ priority[a] = Rank(m) /\ RequestTarget(target[a]) = RequestTarget(m)
    BY <2>2, <2>3 DEF FirstCandidate, Candidate
  <2>5. m \in waiting /\ Owner[m] # None
    BY ConstantsAssumption
  <2>6. target[a] \in waiting /\ Owner[target[a]] = Owner[m]
    BY <2>4, <2>5 DEF RequestTarget
  <2>7. CASE target[a] = x
    <3>1. Cancelled(a)'
      BY <1>1, <2>3, <2>7 DEF Cancelled
    <3> QED BY <1>1, <2>4, <2>6, <3>1 DEF Cut
  <2>8. CASE target[a] # x
    <3>1. target[a] \in waiting'
      BY <2>6, <2>8
    <3>2. Candidate(a, m)'
      BY <1>1, <2>4, <2>5, <2>6, <3>1 DEF Candidate, RequestTarget
    <3>3. ASSUME NEW d \in Connections, d < a PROVE ~Candidate(d, m)'
      <4>1. ~Candidate(d, m)
        BY <2>2, <3>3 DEF FirstCandidate
      <4>2. target[d] \in waiting' => target[d] \in waiting
        OBVIOUS
      <4>3. RequestTarget(m)' = Owner[m] /\ RequestTarget(m) = Owner[m]
        BY <2>5 DEF RequestTarget
      <4>4. RequestTarget(target[d])' = Owner[m] => RequestTarget(target[d]) = Owner[m]
        BY <1>1, <2>5, <4>2 DEF RequestTarget
      <4> QED BY <1>1, <4>1, <4>3, <4>4 DEF Candidate
    <3>4. FirstCandidate(a, m)'
      BY <3>2, <3>3 DEF FirstCandidate
    <3> QED BY <1>1, <2>2, <3>4 DEF HeldBack, Available
  <2> QED BY <2>7, <2>8
<1> QED BY <1>2, <1>3, <1>4

(* Elements before the one that is taken keep their places. *)
LEMMA RemoveKeeps ==
  ASSUME TypeOK, NEW i \in DOMAIN targets, targets' = RemoveAt(targets, i),
         NEW l \in DOMAIN targets', l < i
  PROVE  l \in DOMAIN targets /\ targets'[l] = targets[l] /\ targets[l] \in Message
<1>1. targets \in Seq(Message)
  BY DEF TypeOK
<1>2. /\ Len(targets) \in Nat /\ DOMAIN targets = 1 .. Len(targets)
      /\ \A k \in 1 .. Len(targets) : targets[k] \in Message
  BY <1>1
<1>3. i \in 1 .. Len(targets)
  BY <1>2
<1>4. /\ DOMAIN targets' = 1 .. Len(targets) - 1
      /\ \A k \in 1 .. Len(targets) - 1 : targets'[k] = IF k < i THEN targets[k] ELSE targets[k + 1]
  BY <1>1, <1>3, RemoveAtElements
<1>5. l \in 1 .. Len(targets) - 1 /\ l \in 1 .. Len(targets)
  BY <1>2, <1>4
<1> QED BY <1>2, <1>4, <1>5

(* The third loop, at position i, gives the message at p to connection c. *)
Gives(i, c, p, new) ==
  /\ loop = At("assign", i) /\ i \in DOMAIN targets /\ p \in DOMAIN targets /\ i <= p
  /\ Available(c) /\ Assign(c, p, new)
  /\ ~new => priority[c] = Rank(targets[p])

Assigns(i) == AssignCandidate(i) \/ AssignOther(i) \/ AssignReplace(i)

LEMMA AssigningFacts ==
  ASSUME TypeOK, NEW i \in 1 .. Len(targets) + 1, Assigning(i)
  PROVE  loop = At("assign", i) /\ i \in DOMAIN targets /\ i \in Nat
<1>1. targets \in Seq(Message)
  BY DEF TypeOK
<1> QED BY <1>1 DEF Assigning

LEMMA AssignGives ==
  ASSUME TypeOK, NEW i \in 1 .. Len(targets) + 1, Assigns(i)
  PROVE  \E c \in Connections, p \in DOMAIN targets, new \in BOOLEAN : Gives(i, c, p, new)
<1>1. loop = At("assign", i) /\ i \in DOMAIN targets /\ i <= i
  <2>1. Assigning(i)
    BY DEF Assigns, AssignCandidate, AssignOther, AssignReplace
  <2>2. loop = At("assign", i) /\ i \in DOMAIN targets /\ i \in Nat
    BY <2>1, AssigningFacts
  <2> QED BY <2>2
<1>2. CASE AssignCandidate(i)
  <2>1. PICK c \in Connections : /\ FirstCandidate(c, targets[i]) /\ Available(c)
                                 /\ Assign(c, i, client[c] = None)
    BY <1>2 DEF AssignCandidate
  <2>2. PICK new \in BOOLEAN : new = (client[c] = None)
    OBVIOUS
  <2>3. Assign(c, i, new)
    BY <2>1, <2>2
  <2>4. ~new => priority[c] = Rank(targets[i])
    BY <2>1, <2>2 DEF FirstCandidate, Candidate
  <2> QED BY <1>1, <2>1, <2>3, <2>4 DEF Gives
<1>3. CASE AssignOther(i)
  <2>1. PICK c \in Connections, p \in DOMAIN targets :
          NoCandidate(targets[i]) /\ Oldest(c) /\ FirstOther(c, i, p) /\ Assign(c, p, FALSE)
    BY <1>3 DEF AssignOther
  <2>2. PICK new \in BOOLEAN : new = FALSE
    OBVIOUS
  <2>3. Assign(c, p, new)
    BY <2>1, <2>2
  <2>4. i <= p /\ Available(c)
    BY <2>1 DEF FirstOther, Oldest
  <2>5. client[c] # None
    BY <2>1 DEF NoCandidate, Candidate
  <2>6. priority[c] = Rank(targets[p])
    BY <2>1, <2>5 DEF FirstOther, Reuses, Candidate
  <2> QED BY <1>1, <2>3, <2>4, <2>6 DEF Gives
<1>4. CASE AssignReplace(i)
  <2>1. PICK c \in Connections : Oldest(c) /\ Assign(c, i, TRUE)
    BY <1>4 DEF AssignReplace
  <2>2. PICK new \in BOOLEAN : new = TRUE
    OBVIOUS
  <2>3. Assign(c, i, new) /\ Available(c)
    BY <2>1, <2>2 DEF Oldest
  <2> QED BY <1>1, <2>2, <2>3 DEF Gives
<1> QED BY <1>2, <1>3, <1>4 DEF Assigns

LEMMA GivesOrder ==
  ASSUME Inv, OrderInv, NEW i \in Nat, NEW c \in Connections, NEW p \in DOMAIN targets,
         NEW new \in BOOLEAN, Gives(i, c, p, new)
  PROVE  OrderInv'
<1>1. TypeOK /\ Paired /\ Sorted /\ Matched /\ Passed /\ Assign(c, p, new) /\ Available(c)
  BY DEF Inv, OrderInv, Gives
<1>2. /\ targets[p] \in Message
      /\ \A d \in Connections :
           /\ target'[d] = IF d = c THEN targets[p] ELSE target[d]
           /\ client'[d] = IF d = c THEN url[targets[p]] ELSE client[d]
           /\ priority'[d] = IF d = c THEN (IF new THEN Priority[targets[p]] ELSE priority[c]) ELSE priority[d]
      /\ UNCHANGED <<waiting, url, inbox, loop>>
      /\ targets' = RemoveAt(targets, p)
  BY <1>1, AssignFacts
<1>3. Sorted'
  BY <1>1, <1>2, SortedRemove
<1>4. Matched'
  <2>1. Patient => priority'[c] = Priority[targets[p]]
    BY <1>2, RankFacts DEF Gives
  <2> QED BY <1>1, <1>2, <2>1 DEF Matched, Patient
<1>5. Passed'
  <2>1. loop = At("assign", i) /\ loop' = loop /\ loop.at = i /\ loop.phase = "assign"
    BY <1>2 DEF Gives, At
  <2>2. ASSUME NEW l \in DOMAIN targets', l < loop'.at, targets'[l] \in waiting'
        PROVE  (HeldBack(targets[l]) \/ Cut(targets[l]))'
    <3>1. l < p
      <4>1. targets \in Seq(Message)
        BY <1>1 DEF TypeOK
      <4>2. DOMAIN targets = 1 .. Len(targets) /\ Len(targets) \in Nat
        BY <4>1
      <4>3. DOMAIN targets' = 1 .. Len(targets) - 1
        BY <1>2, <4>1, <4>2, RemoveAtElements
      <4>4. p \in Nat /\ l \in Nat
        BY <4>2, <4>3
      <4>5. i <= p /\ l < i
        BY <2>1, <2>2 DEF Gives
      <4> QED BY <4>4, <4>5
    <3>2. l \in DOMAIN targets /\ targets'[l] = targets[l] /\ targets[l] \in Message
      BY <1>1, <1>2, <3>1, RemoveKeeps
    <3>3. HeldBack(targets[l]) \/ Cut(targets[l])
      BY <1>1, <1>2, <2>1, <2>2, <3>2 DEF Passed
    <3>4. PICK m \in Message : m = targets[l]
      BY <3>2
    <3>5. HeldBack(m)' \/ Cut(m)'
      BY <1>1, <3>3, <3>4, HeldBackAssign, CutAssign
    <3> QED BY <3>2, <3>4, <3>5
  <2> QED BY <2>2 DEF Passed
<1> QED BY <1>3, <1>4, <1>5 DEF OrderInv

(* Outside of the third loop, Passed says nothing. *)
LEMMA PassedElsewhere ==
  ASSUME TypeOK', loop'.phase # "assign" \/ loop'.at = 1
  PROVE  Passed'
<1>1. targets' \in Seq(Message)
  BY DEF TypeOK
<1>2. \A l \in DOMAIN targets' : l \in Nat /\ l >= 1
  BY <1>1
<1>3. \A l \in DOMAIN targets' : l < loop'.at => loop'.phase # "assign"
  BY <1>2
<1> QED BY <1>3 DEF Passed

LEMMA LoopPhase ==
  /\ Resting => loop.phase = "rest"
  /\ \A i : \A p : loop = At(p, i) => loop.phase = p /\ loop.at = i
  /\ \A i : \A p : loop' = At(p, i) => loop'.phase = p /\ loop'.at = i
  /\ KprHTTPClientIterate => loop'.phase = "close"
BY DEF Resting, Rest, At, KprHTTPClientIterate

LEMMA SameOrder ==
  /\ UNCHANGED targets => (Sorted => Sorted')
  /\ UNCHANGED <<target, client, priority, url>> => (Matched => Matched')
BY DEF Sorted, Matched, Rank, Patient

LEMMA OrderShell ==
  ASSUME Inv, OrderInv, Shell
  PROVE  OrderInv'
<1>1. UNCHANGED <<posts, messageVars, targets, poolVars, drops, loop>>
  BY ShellFacts
<1>2. TypeOK /\ Custody /\ Known /\ Paired /\ Sorted /\ Matched /\ Passed
  BY DEF Inv, OrderInv
<1>3. UNCHANGED <<url, poolVars, targets, loop>> /\ UNCHANGED <<target, client, priority, url>>
  BY <1>1 DEF messageVars, poolVars
<1>4. Sorted' /\ Matched'
  BY <1>2, <1>3, SameOrder
<1>5. ASSUME NEW l \in DOMAIN targets, l < loop.at, loop.phase = "assign", targets[l] \in waiting'
      PROVE  (HeldBack(targets[l]) \/ Cut(targets[l]))'
  <2>1. targets[l] \in Message /\ Queued(targets[l])
    <3>1. targets \in Seq(Message)
      BY <1>2 DEF TypeOK
    <3> QED BY <3>1 DEF Queued
  <2>2. PICK m \in Message : m = targets[l]
    BY <2>1
  <2>3. m \in waiting => HeldBack(m) \/ Cut(m)
    BY <1>2, <1>5, <2>2 DEF Passed
  <2>4. m \in asked /\ posts[m] = 0 /\ \A n \in Message : Served(n) => n \in asked /\ posts[n] = 0
    BY <1>2, <2>1, <2>2 DEF Custody, Known
  <2>5. ASSUME NEW x \in Message, KprMessageInvoke(x) PROVE HeldBack(m)' \/ Cut(m)'
    <3>1. x \notin asked /\ waiting' = waiting \union {x}
      BY <2>5 DEF KprMessageInvoke
    <3>2. \A n \in Message : n = m \/ Served(n) => (n \in waiting' <=> n \in waiting)
      BY <2>4, <3>1
    <3>3. m \in waiting
      BY <1>5, <2>2, <3>2
    <3> QED BY <1>2, <1>3, <2>3, <3>2, <3>3, HeldBackSame DEF poolVars
  <2>6. ASSUME NEW x \in Message, KprMessageCancel(x) \/ KprMessageComplete(x)
        PROVE  HeldBack(m)' \/ Cut(m)'
    <3>1. waiting' = waiting \ {x}
      BY <2>6 DEF KprMessageCancel, KprMessageComplete
    <3>2. m \in waiting /\ m \in waiting'
      BY <1>5, <2>2, <3>1
    <3> QED BY <1>2, <1>3, <2>3, <3>1, <3>2, HeldBackCancel
  <2>7. HeldBack(m)' \/ Cut(m)'
    BY <2>5, <2>6 DEF Shell
  <2>8. m = targets'[l]
    BY <1>3, <2>2
  <2> QED BY <2>7, <2>8
<1>6. Passed'
  BY <1>3, <1>5 DEF Passed
<1> QED BY <1>4, <1>6 DEF OrderInv

LEMMA OrderReceived ==
  ASSUME Inv, OrderInv, Received, TypeOK'
  PROVE  OrderInv'
<1>1. TypeOK /\ Sorted /\ Matched
  BY DEF Inv, OrderInv
<1>2. PICK m \in Message : InvokeCancelled(m) \/ InvokeFresh(m) \/ InvokeTarget(m) \/ KprHTTPClientCancel(m)
  BY DEF Received
<1>3. UNCHANGED <<target, client, priority, url>>
  BY <1>2 DEF InvokeCancelled, InvokeFresh, InvokeTarget, KprHTTPClientCancel, poolVars, messageVars
<1>4. UNCHANGED targets \/ KprHTTPClientAddTarget(m)
  BY <1>2 DEF InvokeCancelled, InvokeFresh, InvokeTarget, KprHTTPClientCancel
<1>5. loop'.phase # "assign"
  <2>1. Resting /\ (UNCHANGED loop \/ KprHTTPClientIterate)
    BY <1>2 DEF InvokeCancelled, InvokeFresh, InvokeTarget, KprHTTPClientCancel, Receive, KprHTTPClientAddTarget
  <2> QED BY <2>1, LoopPhase
<1> QED BY <1>1, <1>3, <1>4, <1>5, SameOrder, SortedAdd, PassedElsewhere DEF OrderInv

LEMMA MatchedFewer ==
  ASSUME Matched, NEW c, UNCHANGED url, TypeOK,
         \A d \in Connections : d # c => UNCHANGED <<target[d], client[d], priority[d]>>,
         c \in Connections => target'[c] = None
  PROVE  Matched'
BY DEF Matched, Patient

LEMMA OrderIterating ==
  ASSUME Inv, OrderInv, Iterating, TypeOK'
  PROVE  OrderInv'
<1>1. TypeOK /\ Paired /\ Sorted /\ Matched /\ Passed
  BY DEF Inv, OrderInv
<1>2. ASSUME NEW c \in Connections, CloseCancelled(c) PROVE OrderInv'
  <2>1. KprHTTPConnectionClose(c) /\ UNCHANGED <<url, targets>>
    BY <1>2 DEF CloseCancelled
  <2>2. /\ target'[c] = None
        /\ \A d \in Connections : d # c => UNCHANGED <<target[d], client[d], priority[d]>>
    BY <1>1, <2>1 DEF KprHTTPConnectionClose, TypeOK
  <2>3. loop'.phase # "assign"
    BY <1>2, LoopPhase DEF CloseCancelled, NextConnection
  <2> QED BY <1>1, <2>1, <2>2, <2>3, MatchedFewer, SameOrder, PassedElsewhere DEF OrderInv
<1>3. ASSUME NEW c \in Connections, KeepConnection(c) PROVE OrderInv'
  <2>1. UNCHANGED <<target, client, priority, url>> /\ UNCHANGED targets
    BY <1>3 DEF KeepConnection, poolVars, messageVars
  <2>2. loop'.phase # "assign"
    BY <1>3, LoopPhase DEF KeepConnection, NextConnection
  <2> QED BY <1>1, <2>1, <2>2, SameOrder, PassedElsewhere DEF OrderInv
<1>4. ASSUME NEW i \in 1 .. Len(targets) + 1, SweepNext(i) \/ SweepEnd(i) \/ AssignFull(i) \/ AssignEnd(i)
      PROVE  OrderInv'
  <2>1. UNCHANGED <<target, client, priority, url>> /\ UNCHANGED targets
    BY <1>4 DEF SweepNext, SweepEnd, AssignFull, AssignEnd, poolVars, messageVars
  <2>2. loop'.phase # "assign" \/ loop'.at = 1
    BY <1>4, LoopPhase DEF SweepNext, SweepEnd, AssignFull, AssignEnd, Rest
  <2> QED BY <1>1, <2>1, <2>2, SameOrder, PassedElsewhere DEF OrderInv
<1>5. ASSUME NEW i \in 1 .. Len(targets) + 1, SweepCancelled(i) PROVE OrderInv'
  <2>1. UNCHANGED <<target, client, priority, url>> /\ UNCHANGED loop /\ targets' = RemoveAt(targets, i)
    BY <1>5 DEF SweepCancelled, poolVars
  <2>2. loop'.phase # "assign" /\ i \in DOMAIN targets
    <3>1. targets \in Seq(Message) /\ i <= Len(targets) /\ loop = At("sweep", i)
      BY <1>1, <1>5 DEF SweepCancelled, Sweeping, TypeOK
    <3>2. i \in DOMAIN targets
      BY <3>1
    <3> QED BY <2>1, <3>1, <3>2, LoopPhase
  <2> QED BY <1>1, <2>1, <2>2, SameOrder, SortedRemove, PassedElsewhere DEF OrderInv
<1>6. ASSUME NEW i \in 1 .. Len(targets) + 1, AssignLater(i) PROVE OrderInv'
  <2>1. /\ UNCHANGED <<target, client, priority, url>> /\ UNCHANGED targets
        /\ UNCHANGED <<url, poolVars>> /\ UNCHANGED waiting
    BY <1>6 DEF AssignLater, poolVars, messageVars
  <2>2. /\ HeldBack(targets[i]) /\ i \in DOMAIN targets /\ i \in Nat
        /\ loop.phase = "assign" /\ loop.at = i /\ loop'.at = i + 1
    BY <1>1, <1>6, AssigningFacts, LoopPhase DEF AssignLater, HeldBack
  <2>3. ASSUME NEW l \in DOMAIN targets, l < i + 1, targets[l] \in waiting
        PROVE  (HeldBack(targets[l]) \/ Cut(targets[l]))'
    <3>1. targets \in Seq(Message)
      BY <1>1 DEF TypeOK
    <3>2. l \in Nat /\ targets[l] \in Message
      BY <3>1
    <3>3. l = i \/ l < i
      BY <2>2, <2>3, <3>2
    <3>4. HeldBack(targets[l]) \/ Cut(targets[l])
      BY <1>1, <2>2, <2>3, <3>3 DEF Passed
    <3>5. PICK m \in Message : m = targets[l]
      BY <3>2
    <3>6. HeldBack(m)' \/ Cut(m)'
      BY <1>1, <2>1, <3>4, <3>5, HeldBackSame DEF poolVars
    <3>7. m = targets'[l]
      BY <2>1, <3>5
    <3> QED BY <3>6, <3>7
  <2>4. Passed'
    BY <2>1, <2>2, <2>3 DEF Passed
  <2> QED BY <1>1, <2>1, <2>4, SameOrder DEF OrderInv
<1>7. ASSUME NEW i \in 1 .. Len(targets) + 1, Assigns(i) PROVE OrderInv'
  <2>1. PICK c \in Connections, p \in DOMAIN targets, new \in BOOLEAN : Gives(i, c, p, new)
    BY <1>1, <1>7, AssignGives
  <2>2. i \in Nat
    OBVIOUS
  <2> QED BY <2>1, <2>2, GivesOrder
<1> QED BY <1>2, <1>3, <1>4, <1>5, <1>6, <1>7 DEF Iterating, Assigns

LEMMA ReleasedFacts ==
  ASSUME TypeOK, NEW c \in Connections, NEW how, Released(c, how)
  PROVE  /\ Resting /\ target[c] \in Message /\ target'[c] = None
         /\ \A d \in Connections : d # c => UNCHANGED <<target[d], client[d], priority[d]>>
         /\ how \in Closes \/ c \in due'
BY DEF Released, KprHTTPConnectionClose, TypeOK

LEMMA OrderCallbacks ==
  ASSUME Inv, OrderInv, TypeOK', NEW c \in Connections,
         KprHTTPConnectionCompleteCallback(c) \/ ClosedKeep(c) \/ ClosedLost(c)
  PROVE  OrderInv'
<1>1. TypeOK /\ Paired /\ Custody /\ Sorted /\ Matched
  BY DEF Inv, OrderInv
<1>2. CASE CompleteDropped(c)
  <2>1. /\ UNCHANGED <<targets, loop, url>> /\ target[c] # None
        /\ KprHTTPConnectionProcess(c, target[c], TRUE) /\ Resting
    BY <1>2 DEF CompleteDropped
  <2>2. \A d \in Connections :
          /\ target'[d] = target[d]
          /\ client'[d] = IF d = c THEN url[target[c]] ELSE client[d]
          /\ priority'[d] = IF d = c THEN Priority[target[c]] ELSE priority[d]
    BY <1>1, <2>1 DEF KprHTTPConnectionProcess, TypeOK
  <2>3. Matched'
    BY <1>1, <2>1, <2>2 DEF Matched, Patient
  <2> QED BY <1>1, <2>1, <2>3, LoopPhase, SameOrder, PassedElsewhere DEF OrderInv
<1>3. CASE CompleteDone(c) \/ CompleteFailed(c)
  <2>1. \E how : Released(c, how)
    BY <1>3 DEF CompleteDone, CompleteFailed
  <2>2. UNCHANGED <<targets, url>> /\ (KprHTTPClientIterate \/ UNCHANGED loop)
    BY <1>3 DEF CompleteDone, CompleteFailed, IterateUnless
  <2>3. /\ Resting /\ target'[c] = None
        /\ \A d \in Connections : d # c => UNCHANGED <<target[d], client[d], priority[d]>>
    BY <1>1, <2>1, ReleasedFacts
  <2>4. Matched'
    BY <1>1, <2>2, <2>3, MatchedFewer
  <2>5. loop'.phase # "assign"
    BY <2>2, <2>3, LoopPhase
  <2> QED BY <1>1, <2>2, <2>4, <2>5, SameOrder, PassedElsewhere DEF OrderInv
<1>4. CASE CompleteAgain(c) \/ CompleteUnreadable(c)
  <2>1. /\ Released(c, "again") /\ KprHTTPClientAddTarget(target[c])
        /\ \A m \in Message : m # target[c] => url'[m] = url[m]
    BY <1>1, <1>4 DEF CompleteAgain, CompleteUnreadable, TypeOK
  <2>2. /\ target[c] \in Message /\ target'[c] = None
        /\ \A d \in Connections : d # c => UNCHANGED <<target[d], client[d], priority[d]>>
    BY <1>1, <2>1, ReleasedFacts
  <2>3. Sorted' /\ loop'.phase # "assign"
    BY <1>1, <2>1, <2>2, SortedAdd, LoopPhase DEF KprHTTPClientAddTarget
  <2>4. \A d \in Connections : d # c /\ target[d] # None => target[d] \in Message /\ target[d] # target[c]
    BY <1>1, <2>2 DEF Custody, TypeOK
  <2>5. Matched'
    BY <1>1, <2>1, <2>2, <2>4 DEF Matched, Patient
  <2> QED BY <2>3, <2>5, PassedElsewhere DEF OrderInv
<1>5. CASE ClosedKeep(c)
  <2>1. UNCHANGED <<target, client, priority, url>> /\ UNCHANGED targets /\ KprHTTPClientIterate
    BY <1>5 DEF ClosedKeep, messageVars
  <2> QED BY <1>1, <2>1, LoopPhase, SameOrder, PassedElsewhere DEF OrderInv
<1>6. CASE ClosedLost(c)
  <2>1. UNCHANGED <<targets, url>> /\ KprHTTPClientIterate /\ KprHTTPConnectionClose(c)
    BY <1>6 DEF ClosedLost, messageVars
  <2>2. /\ target'[c] = None
        /\ \A d \in Connections : d # c => UNCHANGED <<target[d], client[d], priority[d]>>
    BY <1>1, <2>1 DEF KprHTTPConnectionClose, TypeOK
  <2> QED BY <1>1, <2>1, <2>2, LoopPhase, SameOrder, MatchedFewer, PassedElsewhere DEF OrderInv
<1> QED BY <1>2, <1>3, <1>4, <1>5, <1>6 DEF KprHTTPConnectionCompleteCallback

LEMMA OrderStep ==
  ASSUME Inv, OrderInv, [Next]_vars
  PROVE  OrderInv'
<1>1. TypeOK'
  BY InvStep DEF Inv
<1>2. CASE KprHTTPClientStop
  <2>1. /\ targets' = <<>> /\ \A c \in Connections : target'[c] = None
        /\ loop'.phase # "assign"
    BY <1>2, LoopPhase DEF KprHTTPClientStop
  <2>2. DOMAIN targets' = {}
    BY <2>1
  <2> QED BY <1>1, <2>1, <2>2, PassedElsewhere DEF OrderInv, Sorted, Matched
<1>3. CASE UNCHANGED vars
  <2>1. /\ UNCHANGED <<target, client, priority, url>> /\ UNCHANGED targets /\ UNCHANGED <<url, poolVars>>
        /\ UNCHANGED waiting /\ UNCHANGED loop
    BY <1>3 DEF vars, poolVars, messageVars
  <2>2. TypeOK /\ Passed
    BY DEF Inv, OrderInv
  <2>3. \A m \in Message : (HeldBack(m)' <=> HeldBack(m)) /\ (Cut(m)' <=> Cut(m))
    BY <2>1, <2>2, HeldBackSame DEF poolVars
  <2>4. \A l \in DOMAIN targets : targets[l] \in Message
    BY <2>2 DEF TypeOK
  <2>5. ASSUME NEW l \in DOMAIN targets, HeldBack(targets[l]) \/ Cut(targets[l])
        PROVE  (HeldBack(targets[l]) \/ Cut(targets[l]))'
    <3>1. PICK m \in Message : m = targets[l]
      BY <2>4
    <3>2. HeldBack(m)' \/ Cut(m)'
      BY <2>3, <2>5, <3>1
    <3>3. m = targets'[l]
      BY <2>1, <3>1
    <3> QED BY <3>2, <3>3
  <2>6. Passed'
    BY <2>1, <2>2, <2>5 DEF Passed
  <2> QED BY <2>1, <2>6, SameOrder DEF OrderInv
<1> QED BY <1>1, <1>2, <1>3, OrderShell, OrderReceived, OrderIterating, OrderCallbacks DEF Next

LEMMA OrderInit == Init => OrderInv
<1> SUFFICES ASSUME Init PROVE OrderInv
  OBVIOUS
<1>1. DOMAIN targets = {} /\ \A c \in Connections : target[c] = None
  BY DEF Init
<1> QED BY <1>1 DEF OrderInv, Sorted, Matched, Passed

(* A request begins in the third loop of Iterate and nowhere else. *)
LEMMA BeginsAssigned ==
  ASSUME Inv, [Next]_vars, NEW m \in Message, Begins(m)
  PROVE  \E i \in 1 .. Len(targets) + 1 : Assigns(i)
<1>1. PICK c \in Connections : target[c] # m /\ target'[c] = m
  BY DEF Begins
<1>2. m # None /\ TypeOK
  BY ConstantsAssumption DEF Inv
<1>3. target' # target
  BY <1>1
<1>4. ~Shell
  BY <1>3, ShellFacts DEF poolVars
<1>5. ~Received
  BY <1>3 DEF Received, InvokeCancelled, InvokeFresh, InvokeTarget, KprHTTPClientCancel, poolVars
<1>6. ASSUME NEW d \in Connections, target' = [target EXCEPT ![d] = None] PROVE FALSE
  BY <1>1, <1>2, <1>6 DEF TypeOK
<1>7. ~KprHTTPClientStop
  BY <1>1, <1>2 DEF KprHTTPClientStop
<1>8. ASSUME NEW d \in Connections, CloseCancelled(d) \/ KeepConnection(d) PROVE FALSE
  BY <1>3, <1>6, <1>8 DEF CloseCancelled, KprHTTPConnectionClose, KeepConnection, poolVars
<1>9. ASSUME NEW d \in Connections, CompleteDropped(d) PROVE FALSE
  BY <1>1, <1>2, <1>9 DEF CompleteDropped, KprHTTPConnectionProcess, TypeOK
<1>10. ASSUME NEW d \in Connections, NEW how, Released(d, how) PROVE FALSE
  BY <1>6, <1>10 DEF Released, KprHTTPConnectionClose
<1>11. ASSUME NEW d \in Connections, ClosedKeep(d) \/ ClosedLost(d) PROVE FALSE
  BY <1>3, <1>6, <1>11 DEF ClosedKeep, ClosedLost, KprHTTPConnectionClose
<1>12. ASSUME NEW i \in 1 .. Len(targets) + 1,
              SweepCancelled(i) \/ SweepNext(i) \/ SweepEnd(i) \/ AssignLater(i) \/ AssignFull(i) \/ AssignEnd(i)
       PROVE  FALSE
  BY <1>3, <1>12 DEF SweepCancelled, SweepNext, SweepEnd, AssignLater, AssignFull, AssignEnd, poolVars
<1>13. ASSUME NEW d \in Connections, KprHTTPConnectionCompleteCallback(d) PROVE FALSE
  BY <1>9, <1>10, <1>13 DEF KprHTTPConnectionCompleteCallback, CompleteDone, CompleteFailed,
       CompleteAgain, CompleteUnreadable
<1>14. ~UNCHANGED vars
  BY <1>3 DEF vars, poolVars
<1> QED BY <1>4, <1>5, <1>7, <1>8, <1>11, <1>12, <1>13, <1>14 DEF Next, Iterating, Assigns

(* Messages that share their server, priority and owner have the same       *)
(* candidates.                                                              *)
LEMMA SameCandidates ==
  ASSUME NEW c \in Connections, NEW m, NEW n, SameQueue(m, n), Candidate(c, n)
  PROVE  Candidate(c, m)
BY DEF SameQueue, Candidate

LEMMA OvertakingStep ==
  ASSUME Inv, OrderInv, [Next]_vars
  PROVE  InTurn
<1> SUFFICES ASSUME NEW k \in DOMAIN targets, NEW j \in DOMAIN targets, k < j,
                    {targets[k], targets[j]} \subseteq waiting, Begins(targets[j])
             PROVE  \/ HeldBack(targets[k]) \/ Cut(targets[k])
                    \/ Rank(targets[k]) = Rank(targets[j]) /\ ~SameQueue(targets[k], targets[j])
  BY DEF InTurn
<1>1. TypeOK /\ Custody /\ Sorted /\ Matched /\ Passed
  BY DEF Inv, OrderInv
<1>2. /\ targets \in Seq(Message)
      /\ Len(targets) \in Nat /\ DOMAIN targets = 1 .. Len(targets)
      /\ \A x \in DOMAIN targets : targets[x] \in Message
  BY <1>1 DEF TypeOK
<1>3. k \in Nat /\ j \in Nat /\ targets[k] \in Message /\ targets[j] \in Message
  BY <1>2
<1>4. PICK i \in 1 .. Len(targets) + 1 : Assigns(i)
  BY <1>3, BeginsAssigned
<1>5. /\ loop = At("assign", i) /\ i \in DOMAIN targets /\ i \in Nat
      /\ loop.phase = "assign" /\ loop.at = i
  BY <1>1, <1>4, AssigningFacts, LoopPhase DEF Assigns, AssignCandidate, AssignOther, AssignReplace
<1>6. CASE k < i
  BY <1>1, <1>5, <1>6 DEF Passed
<1>7. ASSUME NEW c \in Connections, NEW p \in DOMAIN targets, NEW new, Assign(c, p, new)
      PROVE  j = p
  <2>1. \A d \in Connections : target'[d] = IF d = c THEN targets[p] ELSE target[d]
    BY <1>1, <1>7, AssignFacts
  <2>2. targets[j] = targets[p]
    BY <2>1 DEF Begins
  <2> QED BY <1>1, <2>2 DEF Custody
<1>8. ~(k < i) => j # i
  BY <1>3, <1>5
<1>9. CASE ~(k < i)
  <2>1. AssignOther(i)
    <3>1. ~AssignCandidate(i)
      <4> SUFFICES ASSUME AssignCandidate(i) PROVE FALSE
        OBVIOUS
      <4>1. PICK c \in Connections : Assign(c, i, client[c] = None)
        BY DEF AssignCandidate
      <4>2. PICK new \in BOOLEAN : new = (client[c] = None)
        OBVIOUS
      <4>3. Assign(c, i, new)
        BY <4>1, <4>2
      <4> QED BY <1>5, <1>7, <1>8, <1>9, <4>3
    <3>2. ~AssignReplace(i)
      <4> SUFFICES ASSUME AssignReplace(i) PROVE FALSE
        OBVIOUS
      <4>1. PICK c \in Connections : Assign(c, i, TRUE)
        BY DEF AssignReplace
      <4>2. PICK new \in BOOLEAN : new = TRUE
        OBVIOUS
      <4>3. Assign(c, i, new)
        BY <4>1, <4>2
      <4> QED BY <1>5, <1>7, <1>8, <1>9, <4>3
    <3> QED BY <1>4, <3>1, <3>2 DEF Assigns
  <2>2. PICK c \in Connections, p \in DOMAIN targets :
          NoCandidate(targets[i]) /\ FirstOther(c, i, p) /\ Assign(c, p, FALSE)
    BY <2>1 DEF AssignOther
  <2>3. PICK new \in BOOLEAN : new = FALSE
    OBVIOUS
  <2>4. j = p
    BY <1>7, <2>2, <2>3
  <2>5. Candidate(c, targets[j]) /\ Rank(targets[j]) >= Rank(targets[i])
    BY <2>2, <2>4 DEF FirstOther, Reuses
  <2>6. /\ Rank(targets[i]) \in Int /\ Rank(targets[j]) \in Int /\ Rank(targets[k]) \in Int
        /\ targets[i] \in Message
    BY <1>2, <1>3, <1>5, RankFacts
  <2>7. k = i \/ i < k
    BY <1>3, <1>5, <1>9
  <2>8. Rank(targets[k]) >= Rank(targets[j]) /\ (i < k => Rank(targets[i]) >= Rank(targets[k]))
    BY <1>1, <1>5 DEF Sorted
  <2>9. Rank(targets[k]) = Rank(targets[j])
    BY <2>5, <2>6, <2>7, <2>8
  <2>10. ~Candidate(c, targets[k])
    <3>1. CASE k = i
      BY <2>2, <3>1 DEF NoCandidate
    <3>2. CASE i < k
      <4>1. k \in i + 1 .. j - 1
        BY <1>3, <1>5, <3>2
      <4> QED BY <2>2, <2>4, <4>1 DEF FirstOther
    <3> QED BY <2>7, <3>1, <3>2
  <2>11. ~SameQueue(targets[k], targets[j])
    BY <2>5, <2>10, SameCandidates
  <2> QED BY <2>9, <2>11
<1> QED BY <1>6, <1>9

\* Requests are made in turn, for every pool and every set of priorities: a
\* message is overtaken only while the first connection for it is busy, or by
\* one of equal priority that can use a connection it cannot
\* (KprHTTPClientIterate).
THEOREM RequestsInTurn == Spec => NoOvertaking
<1>1. Inv /\ OrderInv /\ [Next]_vars => (Inv /\ OrderInv)' /\ InTurn
  BY InvStep, OrderStep, OvertakingStep
<1>2. Init => Inv /\ OrderInv
  BY InvInit, OrderInit
<1> QED BY <1>1, <1>2, PTL DEF Spec, NoOvertaking

-----------------------------------------------------------------------------
(* Nothing is forgotten.  When Iterate returns, every message it left in    *)
(* the list is held back or finds all connections busy, unless a cancel is  *)
(* on its way, which will call Iterate again.  What the services thread     *)
(* does until then must not make room in silence.                           *)

CancelPosted == \E i \in DOMAIN inbox : inbox[i].ev = "cancel"

LeftFor(m) == HeldBack(m) \/ (NoCandidate(m) /\ \A c \in Connections : ~Available(c))

Offered ==
  /\ loop.phase = "assign" /\ ~CancelPosted =>
       \A l \in DOMAIN targets : l < loop.at => HeldBack(targets[l])
  /\ Resting /\ ~CancelPosted /\ due = {} =>
       \A l \in DOMAIN targets : LeftFor(targets[l])

(* When every end of an exchange makes room known: a connection that closes *)
(* does not lose its finished callback without a call of Iterate, neither   *)
(* for a failure nor by the race on message->error; and a new client after  *)
(* a drop has the priority of the old one, which urgent messages, whose     *)
(* priority is negative, do not give it.                                    *)
RoomIsKnown ==
  /\ "failed" \notin Closes
  /\ Racy => "done" \notin Closes
  /\ MaxDrops = 0 \/ Patient

LEMMA PostedAppend ==
  ASSUME TypeOK, NEW k \in {"invoke", "cancel"}, NEW m \in Message, inbox' = Append(inbox, Event(k, m))
  PROVE  CancelPosted' <=> CancelPosted \/ k = "cancel"
<1>1. inbox \in Seq([ev : {"invoke", "cancel"}, m : Message])
  BY DEF TypeOK
<1>2. Event(k, m) \in [ev : {"invoke", "cancel"}, m : Message] /\ Event(k, m).ev = k
  BY DEF Event
<1> DEFINE e == Event(k, m)
<1> HIDE DEF e
<1>3. /\ DOMAIN inbox = 1 .. Len(inbox) /\ Len(inbox) \in Nat
      /\ DOMAIN Append(inbox, e) = 1 .. Len(inbox) + 1
      /\ \A i \in 1 .. Len(inbox) : Append(inbox, e)[i] = inbox[i]
      /\ Append(inbox, e)[Len(inbox) + 1] = e
  BY <1>1
<1>4. inbox' = Append(inbox, e) /\ e.ev = k
  BY <1>2 DEF e
<1>5. \A i \in 1 .. Len(inbox) + 1 : i \in 1 .. Len(inbox) \/ i = Len(inbox) + 1
  BY <1>3
<1>6. Len(inbox) + 1 \in 1 .. Len(inbox) + 1 /\ \A i \in 1 .. Len(inbox) : i \in 1 .. Len(inbox) + 1
  BY <1>3
<1> QED BY <1>3, <1>4, <1>5, <1>6 DEF CancelPosted

LEMMA PostedTail ==
  ASSUME TypeOK, NEW m \in Message, Receive("invoke", m), CancelPosted
  PROVE  CancelPosted'
<1>1. inbox \in Seq([ev : {"invoke", "cancel"}, m : Message]) /\ inbox # <<>> /\ inbox' = Tail(inbox)
  BY DEF TypeOK, Receive
<1>2. /\ DOMAIN inbox = 1 .. Len(inbox) /\ Len(inbox) \in Nat
      /\ DOMAIN Tail(inbox) = 1 .. Len(inbox) - 1
      /\ \A i \in 1 .. Len(inbox) - 1 : Tail(inbox)[i] = inbox[i + 1]
      /\ Head(inbox) = inbox[1]
  BY <1>1
<1>3. inbox[1].ev = "invoke"
  BY <1>2 DEF Receive, Event
<1>4. PICK i \in 1 .. Len(inbox) : inbox[i].ev = "cancel"
  BY <1>2 DEF CancelPosted
<1>5. i # 1
  BY <1>3, <1>4
<1>6. i - 1 \in 1 .. Len(inbox) - 1 /\ (i - 1) + 1 = i
  BY <1>2, <1>5
<1>7. inbox'[i - 1].ev = "cancel" /\ i - 1 \in DOMAIN inbox'
  BY <1>1, <1>2, <1>4, <1>6
<1> QED BY <1>7 DEF CancelPosted

LEMMA TargetsFacts ==
  ASSUME TypeOK
  PROVE  \A l \in DOMAIN targets : l \in Nat /\ l >= 1 /\ targets[l] \in Message /\ Queued(targets[l])
<1>1. targets \in Seq(Message)
  BY DEF TypeOK
<1> QED BY <1>1 DEF Queued

(* A step that no message of the list can notice. *)
LEMMA OfferedSame ==
  ASSUME TypeOK, Offered, UNCHANGED <<url, target, client, priority, busy, due, targets, loop>>,
         \A n \in Message : Queued(n) \/ Served(n) => (n \in waiting' <=> n \in waiting),
         CancelPosted => CancelPosted'
  PROVE  Offered'
<1>1. ASSUME NEW l \in DOMAIN targets
      PROVE  (HeldBack(targets[l])' <=> HeldBack(targets[l])) /\ (LeftFor(targets[l])' <=> LeftFor(targets[l]))
  <2>1. PICK m \in Message : m = targets[l] /\ Queued(m)
    BY TargetsFacts
  <2>2. \A n \in Message : n = m \/ Served(n) => (n \in waiting' <=> n \in waiting)
    BY <2>1
  <2>3. (HeldBack(m)' <=> HeldBack(m)) /\ (NoCandidate(m)' <=> NoCandidate(m))
    BY <2>2, HeldBackSame
  <2>4. \A c \in Connections : Available(c)' <=> Available(c)
    BY DEF Available
  <2>5. LeftFor(m)' <=> LeftFor(m)
    BY <2>3, <2>4 DEF LeftFor
  <2>6. m = targets'[l]
    BY <2>1
  <2> QED BY <2>1, <2>3, <2>5, <2>6
<1> QED BY <1>1 DEF Offered, Resting

LEMMA OfferedElsewhere ==
  ASSUME TypeOK', ~Resting' \/ due' # {}, loop'.phase # "assign" \/ loop'.at = 1
  PROVE  Offered'
<1>1. targets' \in Seq(Message)
  BY DEF TypeOK
<1>2. \A l \in DOMAIN targets' : l \in Nat /\ l >= 1
  BY <1>1
<1>3. \A l \in DOMAIN targets' : l < loop'.at => loop'.phase # "assign"
  BY <1>2
<1> QED BY <1>3 DEF Offered

LEMMA OfferedShell ==
  ASSUME Inv, Offered, Shell, TypeOK'
  PROVE  Offered'
<1>1. UNCHANGED <<url, target, client, priority, busy, due, targets, loop>>
  BY ShellFacts DEF messageVars, poolVars
<1>2. TypeOK /\ \A n \in Message : Queued(n) \/ Served(n) => n \in asked /\ posts[n] = 0
  BY DEF Inv, Custody, Known
<1>3. ASSUME NEW m \in Message, KprMessageInvoke(m) PROVE Offered'
  <2>1. m \notin asked /\ waiting' = waiting \union {m} /\ (CancelPosted => CancelPosted')
    BY <1>2, <1>3, PostedAppend DEF KprMessageInvoke
  <2> QED BY <1>1, <1>2, <2>1, OfferedSame
<1>4. ASSUME NEW m \in Message, KprMessageCancel(m) PROVE Offered'
  <2>1. CancelPosted'
    BY <1>2, <1>4, PostedAppend DEF KprMessageCancel
  <2> QED BY <2>1 DEF Offered
<1>5. ASSUME NEW m \in Message, KprMessageComplete(m) PROVE Offered'
  <2>1. posts[m] > 0 /\ waiting' = waiting \ {m} /\ inbox' = inbox
    BY <1>5 DEF KprMessageComplete
  <2>2. CancelPosted => CancelPosted'
    BY <2>1 DEF CancelPosted
  <2> QED BY <1>1, <1>2, <2>1, <2>2, OfferedSame
<1> QED BY <1>3, <1>4, <1>5 DEF Shell

LEMMA PhaseOffered ==
  ASSUME TypeOK', \/ loop'.phase \in {"close", "sweep", "stopped"}
                  \/ loop'.phase = "assign" /\ loop'.at = 1
  PROVE  Offered'
<1>1. ~Resting'
  BY DEF Resting, Rest, At
<1> QED BY <1>1, OfferedElsewhere

(* With every connection busy, the first candidate, if there is one, is. *)
LEMMA FullLeaves ==
  ASSUME NEW m \in Message, \A c \in Connections : ~Available(c)
  PROVE  LeftFor(m)
<1>1. CASE NoCandidate(m)
  BY <1>1 DEF LeftFor
<1>2. CASE ~NoCandidate(m)
  <2> DEFINE S == {c \in Connections : Candidate(c, m)}
  <2>1. S # {}
    BY <1>2 DEF NoCandidate
  <2>2. S \subseteq Nat
    BY ConstantsAssumption DEF Connections
  <2>3. PICK c \in S : \A d \in S : ~(d < c)
    BY <2>1, <2>2, Least
  <2>4. FirstCandidate(c, m)
    BY <2>3 DEF FirstCandidate
  <2> QED BY <2>3, <2>4 DEF HeldBack, LeftFor
<1> QED BY <1>1, <1>2

LEMMA OfferedReceived ==
  ASSUME Inv, Offered, Received, TypeOK'
  PROVE  Offered'
<1>1. TypeOK
  BY DEF Inv
<1>2. ASSUME NEW m \in Message, InvokeCancelled(m) \/ InvokeFresh(m) PROVE Offered'
  <2>1. /\ UNCHANGED <<url, target, client, priority, busy, due, targets, loop>>
        /\ UNCHANGED waiting /\ Receive("invoke", m)
    BY <1>2 DEF InvokeCancelled, InvokeFresh, poolVars
  <2>2. CancelPosted => CancelPosted'
    BY <1>1, <2>1, PostedTail
  <2> QED BY <1>1, <2>1, <2>2, OfferedSame
<1>3. ASSUME NEW m \in Message, InvokeTarget(m) \/ KprHTTPClientCancel(m) PROVE Offered'
  <2>1. KprHTTPClientIterate
    BY <1>3 DEF InvokeTarget, KprHTTPClientCancel, KprHTTPClientAddTarget
  <2> QED BY <2>1, LoopPhase, PhaseOffered
<1> QED BY <1>2, <1>3 DEF Received

LEMMA OfferedIterating ==
  ASSUME Inv, Matched, Offered, Iterating, TypeOK'
  PROVE  Offered'
<1>1. TypeOK /\ Paired
  BY DEF Inv
<1>2. ASSUME NEW c \in Connections, CloseCancelled(c) \/ KeepConnection(c) PROVE Offered'
  <2>1. loop'.phase \in {"close", "sweep"}
    BY <1>2, LoopPhase DEF CloseCancelled, KeepConnection, NextConnection
  <2> QED BY <2>1, PhaseOffered
<1>3. ASSUME NEW i \in 1 .. Len(targets) + 1, SweepCancelled(i) \/ SweepNext(i) \/ SweepEnd(i)
      PROVE  Offered'
  <2>1. loop'.phase = "sweep" \/ (loop'.phase = "assign" /\ loop'.at = 1)
    BY <1>3, LoopPhase DEF SweepCancelled, SweepNext, SweepEnd, Sweeping
  <2> QED BY <2>1, PhaseOffered
<1>4. ASSUME NEW i \in 1 .. Len(targets) + 1, AssignLater(i) PROVE Offered'
  <2>1. /\ UNCHANGED <<url, target, client, priority, busy>> /\ UNCHANGED <<targets, inbox, waiting>>
    BY <1>4 DEF AssignLater, poolVars, messageVars
  <2>2. /\ HeldBack(targets[i]) /\ i \in DOMAIN targets /\ i \in Nat
        /\ loop.phase = "assign" /\ loop.at = i /\ loop'.at = i + 1 /\ loop'.phase = "assign"
    BY <1>1, <1>4, AssigningFacts, LoopPhase DEF AssignLater, HeldBack
  <2>3. ASSUME NEW l \in DOMAIN targets, l < i + 1, ~CancelPosted
        PROVE  HeldBack(targets[l])'
    <3>1. PICK m \in Message : m = targets[l] /\ l \in Nat
      BY <1>1, TargetsFacts
    <3>2. l = i \/ l < i
      BY <2>2, <2>3, <3>1
    <3>3. HeldBack(m)
      BY <2>2, <2>3, <3>1, <3>2 DEF Offered
    <3>4. HeldBack(m)'
      BY <1>1, <2>1, <3>3, HeldBackSame
    <3>5. m = targets'[l]
      BY <2>1, <3>1
    <3> QED BY <3>4, <3>5
  <2>4. CancelPosted' <=> CancelPosted
    BY <2>1 DEF CancelPosted
  <2>5. ~Resting'
    BY <2>2 DEF Resting, Rest, At
  <2> QED BY <2>1, <2>2, <2>3, <2>4, <2>5 DEF Offered
<1>5. ASSUME NEW i \in 1 .. Len(targets) + 1, Assigns(i) PROVE Offered'
  <2>1. PICK c \in Connections, p \in DOMAIN targets, new \in BOOLEAN : Gives(i, c, p, new)
    BY <1>1, <1>5, AssignGives
  <2>2. Assign(c, p, new) /\ Available(c) /\ loop = At("assign", i) /\ i <= p
    BY <2>1 DEF Gives
  <2>3. loop' = loop /\ inbox' = inbox /\ targets' = RemoveAt(targets, p)
    BY <1>1, <2>2, AssignFacts
  <2>4. loop.phase = "assign" /\ loop.at = i
    BY <2>2, LoopPhase
  <2>5. ASSUME NEW l \in DOMAIN targets', l < i, ~CancelPosted
        PROVE  HeldBack(targets[l])'
    <3>1. l < p
      <4>1. p \in Nat /\ i \in Nat /\ l \in Nat
        <5>1. targets' \in Seq(Message)
          BY DEF TypeOK
        <5>2. l \in Nat
          BY <5>1
        <5> QED BY <1>1, <5>2, TargetsFacts
      <4> QED BY <2>2, <2>5, <4>1
    <3>2. l \in DOMAIN targets /\ targets'[l] = targets[l] /\ targets[l] \in Message
      BY <1>1, <2>3, <3>1, RemoveKeeps
    <3>3. PICK m \in Message : m = targets[l]
      BY <3>2
    <3>4. HeldBack(m)
      BY <2>4, <2>5, <3>2, <3>3 DEF Offered
    <3>5. HeldBack(m)'
      BY <1>1, <2>2, <3>4, HeldBackAssign
    <3> QED BY <3>2, <3>3, <3>5
  <2>6. CancelPosted' <=> CancelPosted
    BY <2>3 DEF CancelPosted
  <2>7. ~Resting'
    BY <2>3, <2>4 DEF Resting, Rest, At
  <2> QED BY <2>3, <2>4, <2>5, <2>6, <2>7 DEF Offered
<1>6. ASSUME NEW i \in 1 .. Len(targets) + 1, AssignFull(i) \/ AssignEnd(i) PROVE Offered'
  <2>1. /\ UNCHANGED <<url, target, client, priority, busy>> /\ UNCHANGED <<targets, inbox, waiting>>
        /\ loop' = Rest /\ loop = At("assign", i)
    BY <1>6 DEF AssignFull, AssignEnd, Assigning, poolVars, messageVars
  <2>2. ASSUME NEW l \in DOMAIN targets, ~CancelPosted PROVE LeftFor(targets[l])'
    <3>1. PICK m \in Message : m = targets[l] /\ l \in Nat
      BY <1>1, TargetsFacts
    <3>2. LeftFor(m)
      <4>1. CASE AssignFull(i)
        <5>1. \A c \in Connections : ~Available(c)
          BY <4>1 DEF AssignFull
        <5> QED BY <5>1, FullLeaves
      <4>2. CASE AssignEnd(i)
        <5>1. targets \in Seq(Message) /\ i > Len(targets)
          BY <1>1, <4>2 DEF AssignEnd, TypeOK
        <5>2. l < i
          BY <5>1
        <5>3. loop.phase = "assign" /\ loop.at = i
          BY <2>1, LoopPhase
        <5> QED BY <2>2, <3>1, <5>2, <5>3 DEF Offered, LeftFor
      <4> QED BY <1>6, <4>1, <4>2
    <3>3. (HeldBack(m)' <=> HeldBack(m)) /\ (NoCandidate(m)' <=> NoCandidate(m))
      BY <1>1, <2>1, HeldBackSame
    <3>4. \A c \in Connections : Available(c)' <=> Available(c)
      BY <2>1 DEF Available
    <3>5. LeftFor(m)'
      BY <3>2, <3>3, <3>4 DEF LeftFor
    <3>6. m = targets'[l]
      BY <2>1, <3>1
    <3> QED BY <3>5, <3>6
  <2>3. CancelPosted' <=> CancelPosted
    BY <2>1 DEF CancelPosted
  <2>4. loop'.phase # "assign"
    BY <2>1 DEF Rest, At
  <2> QED BY <2>1, <2>2, <2>3, <2>4 DEF Offered
<1> QED BY <1>2, <1>3, <1>4, <1>5, <1>6 DEF Iterating, Assigns

LEMMA OfferedCallbacks ==
  ASSUME RoomIsKnown, Inv, Matched, Offered, TypeOK', NEW c \in Connections,
         KprHTTPConnectionCompleteCallback(c) \/ ClosedKeep(c) \/ ClosedLost(c)
  PROVE  Offered'
<1>1. TypeOK /\ Paired
  BY DEF Inv
<1>2. CASE KprHTTPClientIterate
  BY <1>2, LoopPhase, PhaseOffered
<1>3. CASE CompleteDropped(c)
  <2>1. /\ UNCHANGED <<targets, loop, url, inbox, waiting>> /\ target[c] # None /\ drops < MaxDrops
        /\ KprHTTPConnectionProcess(c, target[c], TRUE)
    BY <1>3 DEF CompleteDropped
  <2>2. Patient
    <3>1. drops \in 0 .. MaxDrops
      BY <1>1 DEF TypeOK
    <3>2. MaxDrops # 0
      BY <2>1, <3>1
    <3> QED BY <3>2 DEF RoomIsKnown
  <2>3. client[c] = url[target[c]] /\ priority[c] = Priority[target[c]]
    BY <2>1, <2>2 DEF Matched
  <2>4. UNCHANGED <<target, client, priority>>
    BY <1>1, <2>1, <2>3 DEF KprHTTPConnectionProcess, TypeOK
  <2>5. UNCHANGED <<busy, due>>
    BY <1>1, <2>1 DEF KprHTTPConnectionProcess, Paired, TypeOK
  <2>6. CancelPosted => CancelPosted'
    BY <2>1 DEF CancelPosted
  <2> QED BY <1>1, <2>1, <2>4, <2>5, <2>6, OfferedSame
<1>4. CASE (CompleteDone(c) \/ CompleteFailed(c)) /\ ~KprHTTPClientIterate
  <2>1. UNCHANGED loop
    BY <1>4 DEF CompleteDone, CompleteFailed, IterateUnless
  <2>2. PICK how : Released(c, how) /\ how \notin Closes
    <3>1. CASE CompleteDone(c)
      <4>1. Released(c, "done") /\ Racy
        BY <1>4, <3>1 DEF CompleteDone, IterateUnless
      <4> QED BY <4>1 DEF RoomIsKnown
    <3>2. CASE CompleteFailed(c)
      BY <3>2 DEF CompleteFailed, RoomIsKnown
    <3> QED BY <1>4, <3>1, <3>2
  <2>3. Resting /\ c \in due'
    BY <1>1, <2>2, ReleasedFacts
  <2> QED BY <2>1, <2>3, LoopPhase, OfferedElsewhere
<1>5. ClosedKeep(c) \/ ClosedLost(c) \/ CompleteAgain(c) \/ CompleteUnreadable(c) => KprHTTPClientIterate
  BY DEF ClosedKeep, ClosedLost, CompleteAgain, CompleteUnreadable, KprHTTPClientAddTarget
<1> QED BY <1>2, <1>3, <1>4, <1>5 DEF KprHTTPConnectionCompleteCallback

LEMMA OfferedStep ==
  ASSUME RoomIsKnown, Inv, OrderInv, Offered, [Next]_vars
  PROVE  Offered'
<1>1. TypeOK' /\ TypeOK /\ Matched
  BY InvStep DEF Inv, OrderInv
<1>2. CASE KprHTTPClientStop
  <2>1. loop'.phase = "stopped"
    BY <1>2, LoopPhase DEF KprHTTPClientStop
  <2> QED BY <1>1, <2>1, PhaseOffered
<1>3. CASE UNCHANGED vars
  <2>1. /\ UNCHANGED <<url, target, client, priority, busy, due, targets, loop>>
        /\ UNCHANGED <<waiting, inbox>>
    BY <1>3 DEF vars, poolVars, messageVars
  <2>2. CancelPosted => CancelPosted'
    BY <2>1 DEF CancelPosted
  <2> QED BY <1>1, <2>1, <2>2, OfferedSame
<1> QED BY <1>1, <1>2, <1>3, OfferedShell, OfferedReceived, OfferedIterating, OfferedCallbacks DEF Next

LEMMA OfferedForgets ==
  ASSUME TypeOK, Offered
  PROVE  NothingForgotten
<1> SUFFICES ASSUME Resting, inbox = <<>>, due = {}, NEW m \in Message, Queued(m)
             PROVE  LeftFor(m)
  BY DEF NothingForgotten, LeftFor
<1>1. ~CancelPosted
  BY DEF CancelPosted
<1>2. PICK l \in DOMAIN targets : targets[l] = m
  BY DEF Queued
<1> QED BY <1>1, <1>2 DEF Offered

\* Where every end of an exchange makes room known, no request is left behind
\* that a connection could take, for every pool and every set of messages
\* (KprHTTPClientIterate, KprHTTPConnectionCompleteCallback,
\* KprHTTPConnectionClosedCallback).
THEOREM NobodyForgotten ==
  ASSUME RoomIsKnown
  PROVE  Spec => []NothingForgotten
<1> DEFINE I == Inv /\ OrderInv /\ Offered
<1>1. I /\ [Next]_vars => I'
  BY InvStep, OrderStep, OfferedStep
<1>2. Init => I
  <2> SUFFICES ASSUME Init PROVE I
    OBVIOUS
  <2>1. DOMAIN targets = {}
    BY DEF Init
  <2> QED BY <2>1, InvInit, OrderInit DEF Offered
<1>3. I => NothingForgotten
  BY OfferedForgets DEF Inv
<1> QED BY <1>1, <1>2, <1>3, PTL DEF Spec

=============================================================================
