-------------------------- MODULE FskThreadProofs --------------------------
(***************************************************************************)
(* The services thread, for every number of posters, timers and events.    *)
(*                                                                          *)
(* None of the invariants is inductive as it stands.  Held says who has the *)
(* mutex of gThreads and until when the thread is listed; Attended lists    *)
(* who will see that the queue is not empty, and Noticed that there always  *)
(* is one; Numbered counts the events of the two lists; and Chain says what *)
(* callbacks keep of the list of timers: no timer twice, by trigger, the    *)
(* marked ones first.                                                       *)
(***************************************************************************)
EXTENDS FskThread, ListTheorems

Holding == {"append", "wake", "count", "send"}

Held ==
  /\ \A q \in Caller \ {Shell} :
       /\ step[q] \notin {"join", "acquire", "freed"}
       /\ step[q] \in Holding \union {"release"} => lock = q
       /\ step[q] \in Holding => listed
       /\ step[q] = "append" => posted < MaxPosts
  /\ step[Shell] \notin {"append", "release"}
  /\ step[Shell] = "freed" => loop = "gone"
  /\ listed <=> loop \notin {"dispose", "release", "gone"}

Attended ==
  \/ wakePending \/ datagrams > 0
  \/ \E q \in Caller : Waking(q)
  \/ loop \in {"clear", "one", "cycle"}
  \/ loop = "handle" /\ back = "cycle"

Noticed ==
  /\ step[Shell] # "idle" => quitting
  /\ queue # <<>> /\ ~Finished => Attended \/ loop \in {"service", "fire", "callback", "take"}
  /\ step[Shell] = "acquire" /\ ~Finished => Attended

Numbered ==
  /\ ~Finished =>
       /\ Len(batch) + Len(queue) = posted - handled
       /\ \A i \in DOMAIN batch : batch[i] = handled + i
       /\ \A i \in DOMAIN queue : queue[i] = handled + Len(batch) + i
  /\ batch # <<>> => loop = "events" \/ (loop = "handle" /\ back = "events")

Chain(s) ==
  \A j, k \in DOMAIN s : j < k =>
    /\ s[j] # s[k]
    /\ trigger[s[j]] <= trigger[s[k]]
    /\ s[k] \in marked => s[j] \in marked

Marks(s) ==
  \A k \in DOMAIN s : s[k] \in marked => Due(s[k]) /\ loop \in {"fire", "callback"}

Inv ==
  /\ TypeOK /\ Held /\ NoSpin /\ Noticed /\ Numbered
  /\ Chain(timers) /\ Marks(timers) /\ OnTime
-----------------------------------------------------------------------------
(* Types. *)

LEMMA CallerFacts ==
  /\ Shell \in Caller /\ Services \in Caller /\ None \notin Caller /\ None \notin Timer
  /\ Poster \subseteq Caller /\ Services # Shell /\ Shell \notin Poster
BY ConstantsAssumption DEF Caller

(* What FskTimeCallbackRemove leaves, and where sInsertInTime puts a timer. *)
LEMMA WithoutType ==
  ASSUME TypeOK, NEW t \in Timer
  PROVE  Without(t) \in Seq(Timer)
<1>1. timers \in Seq(Timer)
  BY DEF TypeOK
<1>2. CASE Listed(t)
  <2> DEFINE i == CHOOSE i \in DOMAIN timers : timers[i] = t
  <2>1. i \in DOMAIN timers
    BY <1>2 DEF Listed
  <2>2. i \in 1 .. Len(timers)
    BY <2>1, <1>1
  <2>3. Without(t) = RemoveAt(timers, i)
    BY <1>2 DEF Without
  <2> HIDE DEF i
  <2> QED BY <1>1, <2>2, <2>3, RemoveAtElements
<1>3. CASE ~Listed(t)
  BY <1>1, <1>3 DEF Without
<1> QED BY <1>2, <1>3

LEMMA InsertType ==
  ASSUME TypeOK, NEW t \in Timer, NEW when \in 0 .. MaxTime, sInsertInTime(t, when)
  PROVE  timers' \in Seq(Timer) /\ trigger' \in [Timer -> 0 .. MaxTime]
<1> DEFINE at == IF when < now THEN now ELSE when
<1>1. at \in 0 .. MaxTime
  BY DEF TypeOK
<1>2. PICK i \in 1 .. Len(Without(t)) + 1 :
        /\ timers' = InsertAt(Without(t), i, t)
        /\ trigger' = [trigger EXCEPT ![t] = at]
  BY DEF sInsertInTime
<1> HIDE DEF at
<1>3. timers' \in Seq(Timer)
  BY <1>2, WithoutType, InsertAtElements
<1>4. trigger' \in [Timer -> 0 .. MaxTime]
  BY <1>1, <1>2 DEF TypeOK
<1> QED BY <1>3, <1>4

(* The parts of TypeOK that an operation touches together. *)
PostType ==
  /\ lock \in Caller \union {None}
  /\ listed \in BOOLEAN
  /\ posted \in 0 .. MaxPosts
  /\ step \in [Caller -> {"idle", "append", "wake", "count", "send", "release",
                          "join", "acquire", "freed"}]

EventType ==
  /\ queue \in Seq(Nat) /\ batch \in Seq(Nat)
  /\ handled \in Nat
  /\ wakePending \in BOOLEAN /\ datagrams \in Nat

TimerType ==
  /\ timers \in Seq(Timer)
  /\ trigger \in [Timer -> 0 .. MaxTime]
  /\ marked \subseteq Timer
  /\ current \in Timer \union {None}
  /\ now \in 0 .. MaxTime /\ calls \in 0 .. MaxCalls

LoopType ==
  /\ loop \in {"cycle", "service", "fire", "callback", "take", "events", "handle",
               "poll", "clear", "one"} \union Ended
  /\ back \in {"cycle", "events"}
  /\ deadline \in 0 .. Never
  /\ quitting \in BOOLEAN

LEMMA TypeParts ==
  /\ TypeOK <=> PostType /\ EventType /\ TimerType /\ LoopType
  /\ TypeOK' <=> PostType' /\ EventType' /\ TimerType' /\ LoopType'
BY DEF TypeOK, PostType, EventType, TimerType, LoopType, Ended

LEMMA TypeStuttering ==
  /\ UNCHANGED postVars /\ PostType => PostType'
  /\ UNCHANGED <<eventVars, wakeVars>> /\ EventType => EventType'
  /\ UNCHANGED <<timerVars, clockVars>> /\ TimerType => TimerType'
  /\ UNCHANGED <<loopVars, quitting>> /\ LoopType => LoopType'
BY DEF PostType, EventType, TimerType, LoopType, postVars, eventVars, wakeVars, timerVars,
       clockVars, loopVars, Ended

LEMMA TypePost ==
  ASSUME TypeOK, Held, NEW q \in Caller, Post(q) \/ (FskThreadPostEvent(q) /\ q # Shell)
  PROVE  TypeOK'
<1> USE TypeParts, TypeStuttering
<1>1. CASE PostAppend(q)
  <2>1. q # Shell => posted < MaxPosts
    BY <1>1 DEF Held, PostAppend
  <2>2. q # Shell
    BY <1>1 DEF Held, PostAppend
  <2>3. MaxPosts \in Nat
    BY ConstantsAssumption
  <2>4. PostType' /\ EventType'
    BY <1>1, <2>1, <2>2, <2>3 DEF PostAppend, Goes, PostType, EventType, wakeVars
  <2>5. UNCHANGED <<timerVars, clockVars>> /\ UNCHANGED <<loopVars, quitting>>
    BY <1>1 DEF PostAppend
  <2> QED BY <2>4, <2>5
<1>2. CASE WakeTest(q) \/ WakeCount(q) \/ WakeSend(q) \/ PostRelease(q) \/ FskThreadPostEvent(q)
  <2>1. PostType'
    BY <1>2 DEF WakeTest, WakeCount, WakeSend, PostRelease, FskThreadPostEvent, Goes, Woken,
       PostType
  <2>2. UNCHANGED eventVars /\ datagrams' \in Nat
    BY <1>2 DEF WakeTest, WakeCount, WakeSend, PostRelease, FskThreadPostEvent, EventType, wakeVars
  <2>3. wakePending' \in BOOLEAN
    BY <1>2 DEF WakeTest, WakeCount, WakeSend, PostRelease, FskThreadPostEvent, EventType, wakeVars
  <2>4. EventType'
    BY <2>2, <2>3 DEF EventType, eventVars
  <2>5. UNCHANGED <<timerVars, clockVars>> /\ UNCHANGED <<loopVars, quitting>>
    BY <1>2 DEF WakeTest, WakeCount, WakeSend, PostRelease, FskThreadPostEvent
  <2> QED BY <2>1, <2>4, <2>5
<1> QED BY <1>1, <1>2 DEF Post

LEMMA TypeShell ==
  ASSUME TypeOK, KprServicesStop \/ Join
  PROVE  TypeOK'
<1> USE TypeParts, TypeStuttering
<1>1. PostType' /\ (quitting' \in BOOLEAN)
  BY CallerFacts DEF KprServicesStop, Join, FskThreadJoin, JoinDispose, Goes, PostType, LoopType
<1>2. UNCHANGED <<timerVars, clockVars>> /\ UNCHANGED <<eventVars, wakeVars>> /\ UNCHANGED loopVars
  BY DEF KprServicesStop, Join, FskThreadJoin, JoinDispose
<1>3. LoopType'
  BY <1>1, <1>2 DEF LoopType, loopVars, Ended
<1> QED BY <1>1, <1>2, <1>3

LEMMA SetFacts ==
  ASSUME NEW t \in Timer, FskTimeCallbackScheduleFuture(t) \/ FskTimeCallbackScheduleNextRun(t),
         TypeOK
  PROVE  /\ \E when \in 0 .. MaxTime : sInsertInTime(t, when)
         /\ marked' = marked \ {t}
         /\ Uses(t)
         /\ UNCHANGED <<postVars, wakeVars, eventVars, current, loopVars, now, quitting>>
<1>1. Delays \subseteq Nat /\ MaxTime \in Nat
  BY ConstantsAssumption
<1>2. CASE FskTimeCallbackScheduleFuture(t)
  <2>1. PICK d \in Delays : Uses(t) /\ now + d <= MaxTime /\ FskTimeCallbackSet(t, now + d)
    BY <1>2 DEF FskTimeCallbackScheduleFuture
  <2>2. now + d \in 0 .. MaxTime
    BY <1>1, <2>1 DEF TypeOK
  <2> QED BY <2>1, <2>2 DEF FskTimeCallbackSet
<1>3. CASE FskTimeCallbackScheduleNextRun(t)
  <2>1. 0 \in 0 .. MaxTime
    BY <1>1
  <2> QED BY <1>3, <2>1 DEF FskTimeCallbackScheduleNextRun, FskTimeCallbackSet
<1> QED BY <1>2, <1>3

LEMMA TypeTimer ==
  ASSUME TypeOK, NEW t \in Timer,
         \/ FskTimeCallbackScheduleFuture(t) \/ FskTimeCallbackScheduleNextRun(t)
         \/ FskTimeCallbackRemove(t)
  PROVE  TypeOK'
<1> USE TypeParts, TypeStuttering
<1>1. Uses(t) => calls' \in 0 .. MaxCalls
  BY ConstantsAssumption DEF Uses, TypeOK
<1>2. CASE FskTimeCallbackRemove(t)
  <2>1. TimerType'
    BY <1>1, <1>2, WithoutType DEF FskTimeCallbackRemove, TimerType
  <2> QED BY <1>2, <2>1 DEF FskTimeCallbackRemove
<1>3. CASE FskTimeCallbackScheduleFuture(t) \/ FskTimeCallbackScheduleNextRun(t)
  <2>1. /\ timers' \in Seq(Timer) /\ trigger' \in [Timer -> 0 .. MaxTime]
        /\ marked' = marked \ {t} /\ Uses(t)
        /\ UNCHANGED <<current, now>> /\ UNCHANGED postVars
        /\ UNCHANGED <<eventVars, wakeVars>> /\ UNCHANGED <<loopVars, quitting>>
    BY <1>3, SetFacts, InsertType
  <2>2. TimerType'
    BY <1>1, <2>1 DEF TimerType
  <2> QED BY <2>1, <2>2
<1> QED BY <1>2, <1>3

LEMMA TypeService ==
  ASSUME TypeOK, ServiceMark \/ ServiceFire \/ ServiceReturn \/ ServiceEnd \/ Tick
  PROVE  TypeOK'
<1> USE TypeParts, TypeStuttering
<1>1. CASE ServiceMark
  <2>1. \A i \in DOMAIN timers : timers[i] \in Timer
    BY DEF TypeOK
  <2>2. TimerType' /\ LoopType'
    BY <1>1, <2>1 DEF ServiceMark, TimerType, LoopType, At, clockVars
  <2> QED BY <1>1, <2>2 DEF ServiceMark
<1>2. CASE ServiceFire
  <2>1. timers # <<>> /\ timers \in Seq(Timer)
    BY <1>2 DEF ServiceFire, FirstMarked, TypeOK
  <2>2. Head(timers) \in Timer /\ Tail(timers) \in Seq(Timer)
    BY <2>1
  <2>3. TimerType' /\ LoopType'
    BY <1>2, <2>2 DEF ServiceFire, TimerType, LoopType, At, clockVars
  <2> QED BY <1>2, <2>3 DEF ServiceFire
<1>3. CASE ServiceReturn
  <2>1. TimerType' /\ LoopType'
    BY <1>3 DEF ServiceReturn, TimerType, LoopType, At, clockVars
  <2> QED BY <1>3, <2>1 DEF ServiceReturn
<1>4. CASE ServiceEnd
  <2>1. LoopType'
    BY <1>4 DEF ServiceEnd, LoopType, At
  <2> QED BY <1>4, <2>1 DEF ServiceEnd
<1>5. CASE Tick
  <2>1. now' \in 0 .. MaxTime
    BY <1>5, ConstantsAssumption DEF Tick, TypeOK
  <2>2. TimerType'
    BY <1>5, <2>1 DEF Tick, TimerType, timerVars
  <2> QED BY <1>5, <2>2 DEF Tick
<1> QED BY <1>1, <1>2, <1>3, <1>4, <1>5

LEMMA TypeEvents ==
  ASSUME TypeOK, TakeEvents \/ NextEvent \/ EventReturn \/ OneEvent \/ NoEvent \/ DisposeQueue
  PROVE  TypeOK'
<1> USE TypeParts, TypeStuttering
<1>1. \A s \in Seq(Nat) : s # <<>> => Head(s) \in Nat /\ Tail(s) \in Seq(Nat)
  OBVIOUS
<1>2. queue \in Seq(Nat) /\ batch \in Seq(Nat) /\ <<>> \in Seq(Nat)
  BY DEF TypeOK
<1>3. EventType' /\ LoopType'
  BY <1>1, <1>2 DEF TakeEvents, NextEvent, EventReturn, OneEvent, NoEvent, DisposeQueue,
     HandleThreadEvent, At, EventType, LoopType, wakeVars, eventVars, Ended
<1>4. UNCHANGED postVars /\ UNCHANGED <<timerVars, clockVars>>
  BY DEF TakeEvents, NextEvent, EventReturn, OneEvent, NoEvent, DisposeQueue
<1> QED BY <1>3, <1>4

LEMMA TypeWait ==
  ASSUME TypeOK, LoopStart \/ WaitForData \/ PollTimeout \/ PollData \/ ClearWake
  PROVE  TypeOK'
<1> USE TypeParts, TypeStuttering
<1>1. MaxTime \in Nat
  BY ConstantsAssumption
<1>2. NextTime \in 0 .. Never
  <2>1. timers # <<>> => Head(timers) \in Timer
    BY DEF TypeOK
  <2>2. timers # <<>> => trigger[Head(timers)] \in 0 .. MaxTime
    BY <2>1 DEF TypeOK
  <2> QED BY <1>1, <2>2 DEF NextTime, Never
<1>3. 0 \in 0 .. Never
  BY <1>1 DEF Never
<1>4. LoopType'
  BY <1>2, <1>3 DEF LoopStart, WaitForData, PollTimeout, PollData, ClearWake, At, LoopType, Ended
<1>5. UNCHANGED eventVars /\ datagrams' \in Nat
  BY DEF LoopStart, WaitForData, PollTimeout, PollData, ClearWake, EventType, wakeVars
<1>6. wakePending' \in BOOLEAN
  BY DEF LoopStart, WaitForData, PollTimeout, PollData, ClearWake, EventType, wakeVars
<1>7. EventType'
  BY <1>5, <1>6 DEF EventType, eventVars
<1>8. UNCHANGED postVars /\ UNCHANGED <<timerVars, clockVars>>
  BY DEF LoopStart, WaitForData, PollTimeout, PollData, ClearWake
<1> QED BY <1>4, <1>7, <1>8

LEMMA TypeEnd ==
  ASSUME TypeOK, Finish \/ Unlist \/ ReleaseRunning
  PROVE  TypeOK'
<1> USE TypeParts, TypeStuttering
<1>1. LoopType'
  BY DEF Finish, Unlist, ReleaseRunning, At, LoopType, Ended
<1>2. UNCHANGED <<eventVars, wakePending>> /\ datagrams' \in Nat
  BY DEF Finish, Unlist, ReleaseRunning, EventType, wakeVars
<1>3. EventType'
  BY <1>2 DEF EventType, eventVars
<1>4. UNCHANGED <<lock, posted, step>> /\ listed' \in BOOLEAN
  BY DEF Finish, Unlist, ReleaseRunning, PostType, postVars
<1>5. PostType'
  BY <1>4 DEF PostType
<1>6. UNCHANGED <<timerVars, clockVars>>
  BY DEF Finish, Unlist, ReleaseRunning
<1> QED BY <1>1, <1>3, <1>5, <1>6

LEMMA TypeStep ==
  ASSUME TypeOK, Held, Next
  PROVE  TypeOK'
<1>1. CASE Script
  BY <1>1, TypePost, TypeShell, TypeTimer, CallerFacts DEF Script
<1>2. CASE Loop
  BY <1>2, TypeService, TypeEvents, TypeWait, TypeEnd DEF Loop
<1>3. CASE Join \/ Tick \/ \E q \in Caller : Post(q)
  BY <1>3, TypeShell, TypeService, TypePost
<1> QED BY <1>1, <1>2, <1>3 DEF Next

-----------------------------------------------------------------------------
(* The mutex of gThreads. *)

(* Steps of the run loop that neither enter nor leave the list of threads.  *)
Cycling ==
  \/ LoopStart \/ ServiceMark \/ ServiceFire \/ ServiceReturn \/ ServiceEnd
  \/ TakeEvents \/ NextEvent \/ EventReturn \/ WaitForData
  \/ PollTimeout \/ PollData \/ ClearWake \/ OneEvent \/ NoEvent \/ Finish

LEMMA CyclingFacts ==
  ASSUME TypeOK, Cycling
  PROVE  /\ UNCHANGED postVars /\ UNCHANGED quitting
         /\ loop \notin Ended
         /\ loop' \notin {"dispose", "release", "gone"}
<1>1. back \in {"cycle", "events"}
  BY DEF TypeOK
<1> QED BY <1>1 DEF Cycling, LoopStart, ServiceMark, ServiceFire, ServiceReturn, ServiceEnd,
       TakeEvents, NextEvent, EventReturn, WaitForData, PollTimeout, PollData, ClearWake,
       OneEvent, NoEvent, Finish, HandleThreadEvent, At, Ended

LEMMA HeldPost ==
  ASSUME TypeOK, Held, NEW q \in Caller, Post(q) \/ (FskThreadPostEvent(q) /\ q # Shell)
  PROVE  Held'
<1>1. step \in [Caller -> {"idle", "append", "wake", "count", "send", "release",
                           "join", "acquire", "freed"}]
  BY DEF TypeOK
<1>2. UNCHANGED <<listed, loop>>
  BY DEF Post, PostAppend, WakeTest, WakeCount, WakeSend, PostRelease, FskThreadPostEvent, loopVars
<1> USE CallerFacts
<1>3. CASE PostAppend(q)
  <2>1. q # Shell /\ lock = q /\ listed
    BY <1>3 DEF PostAppend, Held, Holding
  <2> QED BY <1>1, <1>2, <1>3, <2>1 DEF PostAppend, Goes, Held, Holding
<1>4. CASE WakeTest(q) \/ WakeCount(q) \/ WakeSend(q)
  <2>1. /\ step' = [step EXCEPT ![q] = step'[q]]
        /\ step[q] \in {"wake", "count", "send"}
        /\ IF q = Shell THEN step'[q] \in {"count", "send", "acquire"}
                        ELSE step'[q] \in {"count", "send", "release"}
        /\ UNCHANGED <<lock, posted>>
    BY <1>1, <1>4 DEF WakeTest, WakeCount, WakeSend, Woken, Goes
  <2> QED BY <1>1, <1>2, <2>1 DEF Held, Holding
<1>5. CASE PostRelease(q)
  <2>1. q # Shell /\ lock = q
    BY <1>5 DEF PostRelease, Held, Holding
  <2> QED BY <1>1, <1>2, <1>5, <2>1 DEF PostRelease, Goes, Held, Holding
<1>6. CASE FskThreadPostEvent(q) /\ q # Shell
  <2>1. lock = None /\ posted < MaxPosts /\ lock' = q /\ UNCHANGED posted
    BY <1>6 DEF FskThreadPostEvent
  <2>2. \A p \in Caller \ {Shell} : step[p] \notin Holding \union {"release"}
    BY <2>1 DEF Held
  <2>3. step' = [step EXCEPT ![q] = IF listed THEN "append" ELSE "release"]
    BY <1>6 DEF FskThreadPostEvent, Goes
  <2> QED BY <1>1, <1>2, <1>6, <2>1, <2>2, <2>3 DEF Held, Holding
<1> QED BY <1>3, <1>4, <1>5, <1>6 DEF Post

LEMMA HeldShell ==
  ASSUME TypeOK, Held, KprServicesStop \/ Join
  PROVE  Held'
<1>1. /\ step' = [step EXCEPT ![Shell] = step'[Shell]]
      /\ step'[Shell] \in {"join", "acquire", "wake", "freed"}
      /\ step'[Shell] = "freed" => loop = "gone"
      /\ UNCHANGED <<lock, listed, posted, loop>>
  BY CallerFacts DEF TypeOK, KprServicesStop, Join, FskThreadJoin, JoinDispose, Goes, loopVars
<1> QED BY <1>1, CallerFacts DEF TypeOK, Held, Holding

LEMMA HeldStep ==
  ASSUME TypeOK, Held, Next
  PROVE  Held'
<1>1. CASE Cycling
  <2>1. UNCHANGED <<lock, listed, posted, step>> /\ step[Shell] # "freed" /\ listed
        /\ loop' \notin {"dispose", "release", "gone"}
    BY <1>1, CyclingFacts DEF Held, Ended, postVars
  <2> QED BY <2>1 DEF Held
<1>2. CASE Unlist
  <2>1. /\ lock = None /\ ~listed' /\ loop = "unlist" /\ loop' = "dispose"
        /\ UNCHANGED <<lock, posted, step>>
    BY <1>2 DEF Unlist, At
  <2>2. \A q \in Caller \ {Shell} : step[q] \notin Holding \union {"release"}
    BY <2>1, CallerFacts DEF Held
  <2> QED BY <2>1, <2>2 DEF Held, Holding
<1>3. CASE DisposeQueue \/ ReleaseRunning
  <2>1. /\ loop \in {"dispose", "release"} /\ loop' \in {"release", "gone"}
        /\ UNCHANGED <<lock, listed, posted, step>>
    BY <1>3 DEF DisposeQueue, ReleaseRunning, At, postVars
  <2> QED BY <2>1 DEF Held
<1>4. CASE KprServicesStop \/ Join
  BY <1>4, HeldShell
<1>5. CASE Tick \/ \E t \in Timer : \/ FskTimeCallbackScheduleFuture(t)
                                    \/ FskTimeCallbackScheduleNextRun(t)
                                    \/ FskTimeCallbackRemove(t)
  <2>1. UNCHANGED <<lock, listed, posted, step, loop>>
    BY <1>5, SetFacts DEF Tick, FskTimeCallbackRemove, postVars, loopVars
  <2> QED BY <2>1 DEF Held
<1>6. CASE \E q \in Caller : Post(q) \/ (FskThreadPostEvent(q) /\ q # Shell)
  BY <1>6, HeldPost
<1> QED BY <1>1, <1>2, <1>3, <1>4, <1>5, <1>6, CallerFacts DEF Next, Script, Loop, Cycling

\* What Held is for.
LEMMA HeldImplies ==
  ASSUME TypeOK, Held
  PROVE  NoFreed
<1>1. SUFFICES ASSUME NEW q \in Caller, step[q] \in Holding
               PROVE  /\ q # Shell => lock = q /\ listed /\ loop \notin {"dispose", "release", "gone"}
                      /\ step[Shell] # "freed"
  BY DEF NoFreed, Holding
<1>2. CASE q = Shell
  BY <1>1, <1>2 DEF Holding
<1>3. CASE q # Shell
  BY <1>1, <1>3 DEF Held
<1> QED BY <1>2, <1>3

-----------------------------------------------------------------------------
(* Wakes. *)

(* What every step does to the flag, to the socket and to those who wake.   *)
LEMMA SpinStep ==
  ASSUME TypeOK, NoSpin, Next
  PROVE  NoSpin'
<1>1. step \in [Caller -> {"idle", "append", "wake", "count", "send", "release",
                           "join", "acquire", "freed"}] /\ datagrams \in Nat
  BY DEF TypeOK
<1>2. CASE ClearWake
  BY <1>2 DEF ClearWake, NoSpin
<1>3. CASE PollData
  BY <1>3 DEF PollData, NoSpin
<1>4. CASE Finish
  BY <1>4 DEF Finish, At, NoSpin, Finished, Ended
<1>5. ASSUME NEW q \in Caller, WakeCount(q) PROVE NoSpin'
  <2>1. step'[q] = "send"
    BY <1>1, <1>5 DEF WakeCount, Goes
  <2> QED BY <2>1 DEF NoSpin
<1>6. ASSUME NEW q \in Caller, WakeSend(q) PROVE NoSpin'
  <2>1. CASE Finished
    BY <2>1, <1>6 DEF WakeSend, NoSpin, Finished, loopVars
  <2>2. CASE ~Finished
    BY <1>1, <2>2, <1>6 DEF WakeSend, NoSpin
  <2> QED BY <2>1, <2>2
<1>7. ASSUME NEW q \in Caller,
             PostAppend(q) \/ WakeTest(q) \/ PostRelease(q) \/ FskThreadPostEvent(q)
      PROVE NoSpin'
  <2>1. /\ step[q] # "send" /\ step' = [step EXCEPT ![q] = step'[q]]
        /\ UNCHANGED <<wakePending, datagrams, loop>>
    BY <1>1, <1>7 DEF PostAppend, WakeTest, PostRelease, FskThreadPostEvent, Woken, Goes, wakeVars,
       loopVars
  <2>2. \A p \in Caller : step[p] = "send" => step'[p] = "send"
    BY <1>1, <2>1
  <2> QED BY <2>1, <2>2 DEF NoSpin, Finished
<1>8. CASE KprServicesStop \/ Join
  <2>1. /\ step[Shell] # "send" /\ step' = [step EXCEPT ![Shell] = step'[Shell]]
        /\ UNCHANGED <<wakePending, datagrams, loop>>
    BY <1>1, <1>8, CallerFacts DEF KprServicesStop, Join, FskThreadJoin, JoinDispose, Goes, wakeVars,
       loopVars
  <2>2. \A p \in Caller : step[p] = "send" => step'[p] = "send"
    BY <1>1, <2>1
  <2> QED BY <2>1, <2>2 DEF NoSpin, Finished
<1>9. CASE Tick \/ \E t \in Timer : \/ FskTimeCallbackScheduleFuture(t)
                                    \/ FskTimeCallbackScheduleNextRun(t)
                                    \/ FskTimeCallbackRemove(t)
  <2>1. UNCHANGED <<wakePending, datagrams, step, loop>>
    BY <1>9, SetFacts DEF Tick, FskTimeCallbackRemove, postVars, wakeVars, loopVars
  <2> QED BY <2>1 DEF NoSpin, Finished
<1>10. CASE \/ LoopStart \/ ServiceMark \/ ServiceFire \/ ServiceReturn \/ ServiceEnd
            \/ TakeEvents \/ NextEvent \/ EventReturn \/ WaitForData \/ PollTimeout
            \/ OneEvent \/ NoEvent \/ Unlist \/ DisposeQueue \/ ReleaseRunning
  <2>1. UNCHANGED <<wakePending, datagrams, step>> /\ loop # "clear" /\ (Finished => Finished')
    BY <1>10 DEF LoopStart, ServiceMark, ServiceFire, ServiceReturn, ServiceEnd, TakeEvents,
       NextEvent, EventReturn, WaitForData, PollTimeout, OneEvent, NoEvent, Unlist, DisposeQueue,
       ReleaseRunning, At, HandleThreadEvent, postVars, wakeVars, Finished, Ended
  <2> QED BY <2>1 DEF NoSpin
<1> QED BY <1>2, <1>3, <1>4, <1>5, <1>6, <1>7, <1>8, <1>9, <1>10, CallerFacts
        DEF Next, Script, Loop, Post

(* Somebody who is waking keeps the queue attended, however his step ends. *)
LEMMA NoticedPost ==
  ASSUME TypeOK, Noticed, NEW q \in Caller, Post(q) \/ FskThreadPostEvent(q)
  PROVE  Noticed'
<1>1. step \in [Caller -> {"idle", "append", "wake", "count", "send", "release",
                           "join", "acquire", "freed"}] /\ datagrams \in Nat
  BY DEF TypeOK
<1>2. UNCHANGED <<loop, back, quitting>>
  BY DEF Post, PostAppend, WakeTest, WakeCount, WakeSend, PostRelease, FskThreadPostEvent, loopVars
<1>3. (step'[Shell] # "idle" => quitting') /\ \A p \in Caller : p # q => step'[p] = step[p]
  <2>1. step[q] = "idle" => q # Shell
    BY DEF Post, PostAppend, WakeTest, WakeCount, WakeSend, PostRelease, FskThreadPostEvent
  <2>2. step' = [step EXCEPT ![q] = step'[q]]
    BY <1>1 DEF Post, PostAppend, WakeTest, WakeCount, WakeSend, PostRelease, FskThreadPostEvent,
       Woken, Goes
  <2> QED BY <1>1, <1>2, <2>1, <2>2, CallerFacts DEF Noticed
<1>4. CASE PostAppend(q)
  <2>1. step'[q] = "wake"
    BY <1>1, <1>4 DEF PostAppend, Goes
  <2>2. Attended'
    BY <2>1 DEF Attended, Waking
  <2> QED BY <1>3, <2>2 DEF Noticed
<1>5. CASE WakeTest(q) \/ WakeCount(q)
  <2>1. (wakePending' \/ Waking(q)') /\ UNCHANGED queue
    BY <1>1, <1>5 DEF WakeTest, WakeCount, Woken, Goes, Waking, wakeVars, eventVars
  <2>2. Attended'
    BY <2>1 DEF Attended
  <2> QED BY <1>3, <2>2 DEF Noticed
<1>6. CASE WakeSend(q)
  <2>1. CASE Finished
    BY <1>2, <1>3, <2>1 DEF Noticed, Finished
  <2>2. CASE ~Finished
    <3>1. datagrams' > 0
      BY <1>1, <1>6, <2>2 DEF WakeSend
    <3>2. Attended'
      BY <3>1 DEF Attended
    <3> QED BY <1>3, <3>2 DEF Noticed
  <2> QED BY <2>1, <2>2
<1>7. CASE PostRelease(q) \/ FskThreadPostEvent(q)
  <2>1. /\ ~Waking(q) /\ (step'[q] # "acquire")
        /\ UNCHANGED <<queue, wakePending, datagrams>>
    BY <1>1, <1>7 DEF PostRelease, FskThreadPostEvent, Goes, Waking, wakeVars, eventVars
  <2>2. \A p \in Caller : Waking(p) => Waking(p)'
    BY <1>3, <2>1 DEF Waking
  <2>3. Attended => Attended'
    BY <1>2, <2>1, <2>2 DEF Attended
  <2>4. step'[Shell] = "acquire" => step[Shell] = "acquire"
    BY <1>3, <2>1, CallerFacts
  <2> QED BY <1>2, <1>3, <2>1, <2>3, <2>4 DEF Noticed, Finished
<1> QED BY <1>4, <1>5, <1>6, <1>7 DEF Post

LEMMA NoticedShell ==
  ASSUME TypeOK, Noticed, KprServicesStop \/ Join
  PROVE  Noticed'
<1>1. /\ step \in [Caller -> {"idle", "append", "wake", "count", "send", "release",
                              "join", "acquire", "freed"}]
      /\ Shell \in Caller
  BY CallerFacts DEF TypeOK
<1>2. /\ step[Shell] \in {"idle", "join", "acquire"} /\ quitting' /\ step'[Shell] # "idle"
      /\ \A p \in Caller : p # Shell => step'[p] = step[p]
      /\ step'[Shell] = "acquire" => Finished
      /\ UNCHANGED <<queue, wakePending, datagrams, loop, back>>
  BY <1>1 DEF Noticed, KprServicesStop, Join, FskThreadJoin, JoinDispose, Goes, wakeVars, eventVars,
     loopVars
<1>3. \A p \in Caller : Waking(p) => Waking(p)'
  BY <1>2 DEF Waking
<1>4. Attended => Attended'
  BY <1>2, <1>3 DEF Attended
<1> QED BY <1>2, <1>4 DEF Noticed, Finished

LEMMA NoticedLoop ==
  ASSUME TypeOK, Noticed, Loop
  PROVE  Noticed'
<1>1. UNCHANGED step /\ UNCHANGED quitting
  BY DEF Loop, LoopStart, ServiceMark, ServiceFire, ServiceReturn, ServiceEnd, TakeEvents, NextEvent,
     EventReturn, WaitForData, PollTimeout, PollData, ClearWake, OneEvent, NoEvent, Finish, Unlist,
     DisposeQueue, ReleaseRunning, postVars
<1>2. (\E q \in Caller : Waking(q)) => \E q \in Caller : Waking(q)'
  BY <1>1 DEF Waking
<1>3. CASE LoopStart
  <2>1. step[Shell] # "acquire"
    BY <1>3 DEF LoopStart, Noticed
  <2> QED BY <1>1, <1>3, <2>1 DEF LoopStart, At, Noticed
<1>4. CASE TakeEvents
  <2>1. queue' = <<>> /\ UNCHANGED <<wakePending, datagrams>> /\ loop = "take"
    BY <1>4 DEF TakeEvents, wakeVars
  <2>2. Attended => Attended'
    BY <1>2, <2>1 DEF Attended
  <2> QED BY <1>1, <2>1, <2>2 DEF Noticed, Finished, Ended
<1>5. CASE ServiceMark \/ ServiceFire \/ ServiceReturn \/ ServiceEnd
  <2>1. /\ UNCHANGED <<queue, wakePending, datagrams>> /\ loop \in {"service", "fire", "callback"}
        /\ loop' \in {"fire", "callback", "take"}
    BY <1>5 DEF ServiceMark, ServiceFire, ServiceReturn, ServiceEnd, At, wakeVars, eventVars
  <2>2. Attended => Attended'
    BY <1>2, <2>1 DEF Attended
  <2> QED BY <1>1, <2>1, <2>2 DEF Noticed, Finished, Ended
<1>6. CASE NextEvent \/ WaitForData
  <2>1. UNCHANGED <<queue, wakePending, datagrams>> /\ loop = "events"
    BY <1>6 DEF NextEvent, WaitForData, HandleThreadEvent, wakeVars, eventVars
  <2>2. Attended => Attended'
    BY <1>2, <2>1 DEF Attended
  <2> QED BY <1>1, <2>1, <2>2 DEF Noticed, Finished, Ended
<1>7. CASE EventReturn
  <2>1. UNCHANGED <<queue, wakePending, datagrams>> /\ loop = "handle" /\ loop' = back
    BY <1>7 DEF EventReturn, At, wakeVars, eventVars
  <2>2. Attended => Attended'
    BY <1>2, <2>1 DEF Attended
  <2> QED BY <1>1, <2>1, <2>2 DEF Noticed, Finished, Ended
<1>8. CASE PollTimeout \/ PollData \/ ClearWake \/ OneEvent \/ NoEvent
  <2>1. Attended'
    BY <1>8 DEF Attended, PollTimeout, PollData, ClearWake, OneEvent, NoEvent, HandleThreadEvent, At
  <2> QED BY <1>1, <2>1 DEF Noticed
<1>9. CASE Finish \/ Unlist \/ DisposeQueue \/ ReleaseRunning
  <2>1. Finished'
    BY <1>9 DEF Finish, Unlist, DisposeQueue, ReleaseRunning, At, Finished, Ended
  <2> QED BY <1>1, <2>1 DEF Noticed
<1> QED BY <1>3, <1>4, <1>5, <1>6, <1>7, <1>8, <1>9 DEF Loop

LEMMA NoticedStep ==
  ASSUME TypeOK, Noticed, Next
  PROVE  Noticed'
<1>1. CASE Tick \/ \E t \in Timer : \/ FskTimeCallbackScheduleFuture(t)
                                    \/ FskTimeCallbackScheduleNextRun(t)
                                    \/ FskTimeCallbackRemove(t)
  <2>1. UNCHANGED <<wakePending, datagrams, queue, step, loop, back, quitting>>
    BY <1>1, SetFacts DEF Tick, FskTimeCallbackRemove, postVars, wakeVars, loopVars, eventVars
  <2> QED BY <2>1 DEF Noticed, Attended, Waking, Finished
<1> QED BY <1>1, NoticedPost, NoticedShell, NoticedLoop, CallerFacts DEF Next, Script

\* What Noticed is for.
LEMMA NoticedImplies ==
  ASSUME TypeOK, NoSpin, Noticed
  PROVE  NoLostWake
<1>1. SUFFICES ASSUME loop = "poll", queue # <<>> \/ step[Shell] = "acquire"
               PROVE  datagrams > 0 \/ \E q \in Caller : Waking(q)
  BY DEF NoLostWake, Sleeps
<1>2. wakePending \/ datagrams > 0 \/ \E q \in Caller : Waking(q)
  BY <1>1 DEF Noticed, Attended, Finished, Ended
<1>3. wakePending => datagrams > 0 \/ \E q \in Caller : Waking(q)
  BY <1>1 DEF NoSpin, Finished, Ended, Waking
<1> QED BY <1>2, <1>3

-----------------------------------------------------------------------------
(* The order of events. *)

LEMMA NumberedStep ==
  ASSUME TypeOK, Numbered, Next
  PROVE  Numbered'
<1>1. /\ queue \in Seq(Nat) /\ batch \in Seq(Nat) /\ posted \in Nat /\ handled \in Nat
      /\ back \in {"cycle", "events"}
  BY DEF TypeOK
<1>2. ASSUME NEW q \in Caller, PostAppend(q) PROVE Numbered'
  <2>1. /\ queue' = Append(queue, posted + 1) /\ posted' = posted + 1
        /\ UNCHANGED <<batch, handled, loop, back>>
    BY <1>2 DEF PostAppend, loopVars
  <2>2. /\ Len(queue') = Len(queue) + 1 /\ DOMAIN queue' = 1 .. Len(queue) + 1
        /\ \A i \in 1 .. Len(queue) : queue'[i] = queue[i]
        /\ queue'[Len(queue) + 1] = posted + 1
    BY <1>1, <2>1
  <2>3. CASE ~Finished
    <3>1. Len(batch) + Len(queue) = posted - handled
      BY <2>3 DEF Numbered
    <3>2. ASSUME NEW i \in DOMAIN queue' PROVE queue'[i] = handled + Len(batch) + i
      <4>1. CASE i = Len(queue) + 1
        BY <1>1, <2>2, <3>1, <4>1
      <4>2. CASE i # Len(queue) + 1
        <5>1. i \in DOMAIN queue /\ queue'[i] = queue[i]
          BY <1>1, <2>2, <4>2
        <5> QED BY <2>3, <5>1 DEF Numbered
      <4> QED BY <4>1, <4>2
    <3>3. Len(batch) + Len(queue') = posted' - handled
      BY <1>1, <2>1, <2>2, <3>1
    <3> QED BY <2>1, <2>3, <3>2, <3>3 DEF Numbered, Finished
  <2>4. CASE Finished
    BY <2>1, <2>4 DEF Numbered, Finished
  <2> QED BY <2>3, <2>4
<1>3. CASE TakeEvents
  <2>1. /\ batch' = queue /\ queue' = <<>> /\ UNCHANGED <<posted, handled>>
        /\ loop = "take" /\ loop' = "events"
    BY <1>3 DEF TakeEvents, At, postVars
  <2>2. batch = <<>> /\ Len(batch) = 0
    BY <2>1 DEF Numbered
  <2>3. ~Finished
    BY <2>1 DEF Finished, Ended
  <2> QED BY <1>1, <2>1, <2>2, <2>3 DEF Numbered
<1>4. CASE NextEvent
  <2>1. /\ batch # <<>> /\ batch' = Tail(batch) /\ handled' = Head(batch)
        /\ UNCHANGED <<posted, queue>> /\ loop = "events" /\ loop' = "handle" /\ back' = "events"
    BY <1>4 DEF NextEvent, HandleThreadEvent, postVars
  <2>2. ~Finished
    BY <2>1 DEF Finished, Ended
  <2>3. /\ Len(batch') = Len(batch) - 1 /\ DOMAIN batch' = 1 .. Len(batch) - 1
        /\ \A i \in 1 .. Len(batch) - 1 : batch'[i] = batch[i + 1]
        /\ handled' = batch[1] /\ Len(batch) \in Nat \ {0} /\ DOMAIN batch = 1 .. Len(batch)
    BY <1>1, <2>1
  <2>4. /\ Len(batch) + Len(queue) = posted - handled
        /\ \A i \in DOMAIN batch : batch[i] = handled + i
        /\ \A i \in DOMAIN queue : queue[i] = handled + Len(batch) + i
    BY <2>2 DEF Numbered
  <2>5. handled' = handled + 1
    BY <2>3, <2>4
  <2>6. Len(batch') + Len(queue') = posted' - handled'
    BY <1>1, <2>1, <2>3, <2>4, <2>5
  <2>7. ASSUME NEW i \in DOMAIN batch' PROVE batch'[i] = handled' + i
    <3>1. i + 1 \in DOMAIN batch /\ batch'[i] = batch[i + 1] /\ i \in Nat
      BY <2>3
    <3> QED BY <1>1, <2>4, <2>5, <3>1
  <2>8. \A i \in DOMAIN queue' : queue'[i] = handled' + Len(batch') + i
    BY <1>1, <2>1, <2>3, <2>4, <2>5
  <2> QED BY <2>1, <2>6, <2>7, <2>8 DEF Numbered
<1>5. CASE OneEvent
  <2>1. /\ queue # <<>> /\ queue' = Tail(queue) /\ handled' = Head(queue)
        /\ UNCHANGED <<posted, batch>> /\ loop = "one"
    BY <1>5 DEF OneEvent, HandleThreadEvent, postVars
  <2>2. ~Finished
    BY <2>1 DEF Finished, Ended
  <2>3. batch = <<>>
    BY <2>1 DEF Numbered
  <2>4. /\ Len(queue') = Len(queue) - 1 /\ DOMAIN queue' = 1 .. Len(queue) - 1
        /\ \A i \in 1 .. Len(queue) - 1 : queue'[i] = queue[i + 1]
        /\ handled' = queue[1] /\ Len(queue) \in Nat \ {0} /\ DOMAIN queue = 1 .. Len(queue)
    BY <1>1, <2>1
  <2>5. Len(queue) = posted - handled /\ \A i \in DOMAIN queue : queue[i] = handled + i
    BY <1>1, <2>2, <2>3 DEF Numbered
  <2>6. handled' = handled + 1
    BY <2>4, <2>5
  <2>7. Len(queue') = posted' - handled'
    BY <1>1, <2>1, <2>4, <2>5, <2>6
  <2>8. ASSUME NEW i \in DOMAIN queue' PROVE queue'[i] = handled' + i
    <3>1. i + 1 \in DOMAIN queue /\ queue'[i] = queue[i + 1] /\ i \in Nat
      BY <2>4
    <3> QED BY <1>1, <2>5, <2>6, <3>1
  <2> QED BY <1>1, <2>1, <2>3, <2>7, <2>8 DEF Numbered
<1>6. CASE DisposeQueue \/ Finish \/ Unlist \/ ReleaseRunning
  <2>1. Finished' /\ batch' = batch /\ (loop = "cycle" \/ Finished)
    BY <1>6 DEF DisposeQueue, Finish, Unlist, ReleaseRunning, At, Finished, Ended, eventVars
  <2> QED BY <2>1 DEF Numbered, Finished, Ended
<1>7. CASE WaitForData
  <2>1. batch = <<>> /\ loop = "events" /\ UNCHANGED <<queue, batch, handled, posted>>
    BY <1>7 DEF WaitForData, eventVars, postVars
  <2> QED BY <2>1 DEF Numbered, Finished, Ended
<1>8. CASE \/ LoopStart \/ ServiceMark \/ ServiceFire \/ ServiceReturn \/ ServiceEnd
           \/ EventReturn \/ PollTimeout \/ PollData \/ ClearWake \/ NoEvent
  <2>1. /\ UNCHANGED <<queue, batch, handled, posted>> /\ ~Finished
        /\ loop # "events"
        /\ (loop = "handle" /\ back = "events") => loop' = "events"
    BY <1>8 DEF LoopStart, ServiceMark, ServiceFire, ServiceReturn, ServiceEnd, EventReturn,
       PollTimeout, PollData, ClearWake, NoEvent, At, eventVars, postVars, Finished, Ended
  <2> QED BY <2>1 DEF Numbered
<1>9. CASE \/ Tick \/ KprServicesStop \/ Join
           \/ \E t \in Timer : \/ FskTimeCallbackScheduleFuture(t)
                               \/ FskTimeCallbackScheduleNextRun(t)
                               \/ FskTimeCallbackRemove(t)
           \/ \E q \in Caller : \/ WakeTest(q) \/ WakeCount(q) \/ WakeSend(q)
                                \/ PostRelease(q) \/ FskThreadPostEvent(q)
  <2>1. UNCHANGED <<queue, batch, handled, posted, loop, back>>
    BY <1>9, SetFacts DEF Tick, KprServicesStop, Join, FskThreadJoin, JoinDispose,
       FskTimeCallbackRemove, WakeTest, WakeCount, WakeSend, PostRelease, FskThreadPostEvent,
       eventVars, postVars, loopVars
  <2> QED BY <2>1 DEF Numbered, Finished
<1> QED BY <1>2, <1>3, <1>4, <1>5, <1>6, <1>7, <1>8, <1>9, CallerFacts
        DEF Next, Script, Loop, Post

\* What Numbered is for.
LEMMA NumberedImplies ==
  ASSUME TypeOK, Numbered
  PROVE  InOrder
<1>1. SUFFICES ASSUME ~Finished
               PROVE  batch \o queue = [i \in 1 .. posted - handled |-> handled + i]
  BY DEF InOrder
<1>2. /\ Len(batch) + Len(queue) = posted - handled
      /\ \A i \in DOMAIN batch : batch[i] = handled + i
      /\ \A i \in DOMAIN queue : queue[i] = handled + Len(batch) + i
  BY <1>1 DEF Numbered
<1>3. batch \in Seq(Nat) /\ queue \in Seq(Nat) /\ handled \in Nat
  BY DEF TypeOK
<1>4. /\ batch \o queue \in Seq(Nat) /\ Len(batch \o queue) = Len(batch) + Len(queue)
      /\ \A i \in 1 .. Len(batch) + Len(queue) :
           (batch \o queue)[i] = IF i <= Len(batch) THEN batch[i] ELSE queue[i - Len(batch)]
  BY ONLY <1>3, ConcatProperties
<1>5. \A i \in 1 .. posted - handled : (batch \o queue)[i] = handled + i
  BY <1>2, <1>3, <1>4
<1> DEFINE s == batch \o queue
<1>6. s \in [1 .. Len(s) -> Nat] /\ Len(s) = posted - handled
  BY <1>2, <1>4, LenProperties
<1>7. \A i \in 1 .. posted - handled : s[i] = handled + i
  BY <1>5
<1> HIDE DEF s
<1>8. s = [i \in 1 .. posted - handled |-> handled + i]
  BY <1>6, <1>7
<1> QED BY <1>8 DEF s

-----------------------------------------------------------------------------
(* Timers. *)

(* The elements of s are timers of the list, in the order of the list. *)
Within(s) ==
  /\ \A k \in DOMAIN s : \E l \in DOMAIN timers : s[k] = timers[l]
  /\ \A j, k \in DOMAIN s : j < k =>
       \E i, l \in DOMAIN timers : i < l /\ s[j] = timers[i] /\ s[k] = timers[l]

LEMMA WithinKeeps ==
  ASSUME NEW s, Within(s), Chain(timers), Marks(timers)
  PROVE  Chain(s) /\ Marks(s)
<1>1. Marks(s)
  BY DEF Within, Marks
<1>2. Chain(s)
  <2>1. SUFFICES ASSUME NEW j \in DOMAIN s, NEW k \in DOMAIN s, j < k
                 PROVE  /\ s[j] # s[k]
                        /\ trigger[s[j]] <= trigger[s[k]]
                        /\ s[k] \in marked => s[j] \in marked
    BY DEF Chain
  <2>2. PICK i \in DOMAIN timers, l \in DOMAIN timers : i < l /\ s[j] = timers[i] /\ s[k] = timers[l]
    BY <2>1 DEF Within
  <2> QED BY <2>2 DEF Chain
<1> QED BY <1>1, <1>2

LEMMA WithinTail ==
  ASSUME TypeOK, timers # <<>>
  PROVE  Within(Tail(timers))
<1> DEFINE s == Tail(timers)
<1>1. /\ timers \in Seq(Timer) /\ Len(timers) \in Nat /\ DOMAIN timers = 1 .. Len(timers)
      /\ DOMAIN s = 1 .. Len(timers) - 1
      /\ \A k \in 1 .. Len(timers) - 1 : s[k] = timers[k + 1]
  BY DEF TypeOK
<1> HIDE DEF s
<1>2. \A k \in DOMAIN s : k + 1 \in DOMAIN timers /\ s[k] = timers[k + 1]
  BY <1>1
<1>3. \A j, k \in DOMAIN s : j < k => j + 1 < k + 1
  BY <1>1
<1>4. Within(s)
  BY <1>2, <1>3 DEF Within
<1> QED BY <1>4 DEF s

LEMMA WithinWithout ==
  ASSUME TypeOK, Chain(timers), NEW t \in Timer
  PROVE  Within(Without(t)) /\ \A k \in DOMAIN Without(t) : Without(t)[k] # t
<1>1. timers \in Seq(Timer) /\ Len(timers) \in Nat /\ DOMAIN timers = 1 .. Len(timers)
  BY DEF TypeOK
<1>2. CASE Listed(t)
  <2> DEFINE i == CHOOSE i \in DOMAIN timers : timers[i] = t
             s == RemoveAt(timers, i)
             g(k) == IF k < i THEN k ELSE k + 1
  <2>1. i \in 1 .. Len(timers) /\ timers[i] = t
    BY <1>1, <1>2 DEF Listed
  <2>2. Without(t) = s
    BY <1>2 DEF Without
  <2> HIDE DEF i
  <2>3. /\ DOMAIN s = 1 .. Len(timers) - 1
        /\ \A k \in 1 .. Len(timers) - 1 : s[k] = IF k < i THEN timers[k] ELSE timers[k + 1]
    BY <1>1, <2>1, RemoveAtElements
  <2> HIDE DEF s
  <2>4. \A k \in DOMAIN s : g(k) \in DOMAIN timers /\ s[k] = timers[g(k)] /\ g(k) # i /\ g(k) \in Int
    BY <1>1, <2>1, <2>3
  <2>5. \A j, k \in DOMAIN s : j < k => g(j) < g(k)
    BY <1>1, <2>1, <2>3
  <2> HIDE DEF g
  <2>6. Within(s)
    BY <2>4, <2>5 DEF Within
  <2>7. ASSUME NEW k \in DOMAIN s PROVE s[k] # t
    <3>1. g(k) < i \/ i < g(k)
      BY <2>1, <2>4
    <3> QED BY <1>1, <2>1, <2>4, <3>1 DEF Chain
  <2> QED BY <2>2, <2>6, <2>7
<1>3. CASE ~Listed(t)
  <2>1. Without(t) = timers
    BY <1>3 DEF Without
  <2>2. Within(timers)
    BY DEF Within
  <2>3. \A k \in DOMAIN timers : timers[k] # t
    BY <1>3 DEF Listed
  <2> QED BY <2>1, <2>2, <2>3
<1> QED BY <1>2, <1>3

\* Where a timer and the others are after the insertion of sInsertInTime.
LEMMA InsertTimer ==
  ASSUME NEW l \in Seq(Timer), NEW p \in 1 .. Len(l) + 1, NEW u \in Timer
  PROVE  /\ InsertAt(l, p, u) \in Seq(Timer)
         /\ DOMAIN InsertAt(l, p, u) = 1 .. Len(l) + 1
         /\ \A k \in 1 .. Len(l) + 1 :
              InsertAt(l, p, u)[k] = IF k < p THEN l[k] ELSE IF k = p THEN u ELSE l[k - 1]
  BY InsertAtElements

\* A timer put where sInsertInTime puts it keeps the chain: those before it are
\* not later, those after it are later than now, and so not marked.
LEMMA InsertChain ==
  ASSUME TypeOK, Chain(timers), Marks(timers), NEW t \in Timer, NEW when \in 0 .. MaxTime,
         sInsertInTime(t, when), marked' = marked \ {t}, UNCHANGED <<now, loop>>
  PROVE  Chain(timers)' /\ Marks(timers)'
<1> DEFINE rest == Without(t)
           at == IF when < now THEN now ELSE when
<1>1. /\ rest \in Seq(Timer) /\ Len(rest) \in Nat /\ DOMAIN rest = 1 .. Len(rest)
      /\ \A k \in DOMAIN rest : rest[k] \in Timer /\ rest[k] # t
  BY WithoutType, WithinWithout
<1>2. Chain(rest) /\ Marks(rest)
  BY WithinWithout, WithinKeeps
<1>3. at \in Int /\ now \in Int /\ now <= at
  BY DEF TypeOK
<1>4. PICK i \in 1 .. Len(rest) + 1 :
        /\ InsertsAt(rest, at, i)
        /\ timers' = InsertAt(rest, i, t)
        /\ trigger' = [trigger EXCEPT ![t] = at]
  BY DEF sInsertInTime
<1> HIDE DEF rest, at
<1>5. /\ DOMAIN timers' = 1 .. Len(rest) + 1
      /\ \A k \in 1 .. Len(rest) + 1 :
           timers'[k] = IF k < i THEN rest[k] ELSE IF k = i THEN t ELSE rest[k - 1]
  <2>1. rest \in Seq(Timer) /\ i \in 1 .. Len(rest) + 1 /\ t \in Timer
    BY <1>1, <1>4
  <2>2. /\ InsertAt(rest, i, t) \in Seq(Timer)
        /\ DOMAIN InsertAt(rest, i, t) = 1 .. Len(rest) + 1
        /\ \A k \in 1 .. Len(rest) + 1 :
             InsertAt(rest, i, t)[k] = IF k < i THEN rest[k] ELSE IF k = i THEN t ELSE rest[k - 1]
    BY <2>1, InsertTimer
  <2> QED BY <1>4, <2>2
<1>6. /\ \A u \in Timer : trigger[u] \in Int /\ trigger'[u] = IF u = t THEN at ELSE trigger[u]
      /\ \A u : u \in marked' <=> u \in marked /\ u # t
  BY <1>4 DEF TypeOK
<1> DEFINE h(k) == IF k < i THEN k ELSE k - 1
<1>7. \A k \in DOMAIN timers' : k # i => h(k) \in DOMAIN rest /\ timers'[k] = rest[h(k)]
  BY <1>1, <1>4, <1>5
<1>8. \A j, k \in DOMAIN timers' : j # i /\ k # i /\ j < k => h(j) < h(k)
  BY <1>1, <1>4, <1>5
<1>9. timers'[i] = t
  BY <1>1, <1>4, <1>5
<1>10. \A k \in DOMAIN timers' : k \in Int
  BY <1>5
<1> HIDE DEF h
<1>11. Marks(timers)'
  <2>1. SUFFICES ASSUME NEW k \in DOMAIN timers', timers'[k] \in marked'
                 PROVE  trigger'[timers'[k]] <= now /\ loop \in {"fire", "callback"}
    BY DEF Marks, Due
  <2>2. k # i
    BY <1>6, <1>9, <2>1
  <2>3. h(k) \in DOMAIN rest /\ timers'[k] = rest[h(k)] /\ rest[h(k)] \in marked
    BY <1>6, <1>7, <2>1, <2>2
  <2> QED BY <1>1, <1>2, <1>6, <2>3 DEF Marks, Due
<1>12. ASSUME NEW j \in DOMAIN timers', NEW k \in DOMAIN timers', j < k
       PROVE  /\ timers'[j] # timers'[k]
              /\ trigger'[timers'[j]] <= trigger'[timers'[k]]
              /\ timers'[k] \in marked' => timers'[j] \in marked'
  <2>1. CASE j # i /\ k # i
    <3>1. /\ h(j) \in DOMAIN rest /\ h(k) \in DOMAIN rest /\ h(j) < h(k)
          /\ timers'[j] = rest[h(j)] /\ timers'[k] = rest[h(k)]
      BY <1>7, <1>8, <1>12, <2>1
    <3>2. /\ rest[h(j)] # rest[h(k)] /\ trigger[rest[h(j)]] <= trigger[rest[h(k)]]
          /\ rest[h(k)] \in marked => rest[h(j)] \in marked
      BY <1>2, <3>1 DEF Chain
    <3> QED BY <1>1, <1>6, <3>1, <3>2
  <2>2. CASE k = i
    <3>1. j \in 1 .. i - 1 /\ j \in DOMAIN rest /\ timers'[j] = rest[j]
      BY <1>1, <1>4, <1>5, <1>12, <2>2
    <3>2. trigger[rest[j]] <= at
      BY <1>4, <3>1 DEF InsertsAt
    <3> QED BY <1>1, <1>6, <1>9, <2>2, <3>1, <3>2
  <2>3. CASE j = i
    <3>1. k - 1 \in DOMAIN rest /\ timers'[k] = rest[k - 1] /\ i <= k - 1 /\ i \in DOMAIN rest
      BY <1>1, <1>4, <1>5, <1>12, <2>3
    <3>2. trigger[rest[i]] > at
      BY <1>1, <1>4, <3>1 DEF InsertsAt
    <3>3. trigger[rest[i]] <= trigger[rest[k - 1]]
      <4>1. CASE i = k - 1
        BY <1>1, <1>6, <3>1, <4>1
      <4>2. CASE i < k - 1
        BY <1>2, <3>1, <4>2 DEF Chain
      <4> QED BY <1>1, <3>1, <4>1, <4>2
    <3>4. trigger[rest[k - 1]] > at
      BY <1>1, <1>3, <1>6, <3>1, <3>2, <3>3
    <3>5. rest[k - 1] \notin marked
      BY <1>1, <1>2, <1>3, <1>6, <3>1, <3>4 DEF Marks, Due
    <3> QED BY <1>1, <1>3, <1>6, <1>9, <2>3, <3>1, <3>4, <3>5
  <2> QED BY <2>1, <2>2, <2>3
<1>13. Chain(timers)'
  BY <1>12 DEF Chain
<1> QED BY <1>11, <1>13

LEMMA MarkChain ==
  ASSUME TypeOK, Chain(timers), Marks(timers), ServiceMark
  PROVE  Chain(timers)' /\ Marks(timers)'
<1> DEFINE D == {i \in DOMAIN timers : \A j \in 1 .. i : Due(timers[j])}
<1>1. /\ marked' = marked \union {timers[i] : i \in D}
      /\ loop = "service" /\ loop' = "fire" /\ UNCHANGED <<timers, trigger, now>>
  BY DEF ServiceMark, At, clockVars
<1>2. DOMAIN timers = 1 .. Len(timers) /\ Len(timers) \in Nat
  BY DEF TypeOK
<1>3. \A k \in DOMAIN timers : timers[k] \notin marked
  BY <1>1 DEF Marks
<1>4. \A j, k \in DOMAIN timers : timers[j] = timers[k] => j = k
  BY <1>2 DEF Chain
<1>5. ASSUME NEW k \in DOMAIN timers, timers[k] \in marked' PROVE \A j \in 1 .. k : Due(timers[j])
  <2>1. PICK i \in D : timers[k] = timers[i]
    BY <1>1, <1>3, <1>5
  <2>2. i = k
    BY <1>4, <2>1
  <2> QED BY <2>1, <2>2
<1>6. ASSUME NEW k \in DOMAIN timers, \A j \in 1 .. k : Due(timers[j]) PROVE timers[k] \in marked'
  BY <1>1, <1>6
<1> HIDE DEF D
<1>7. Marks(timers)'
  <2>1. SUFFICES ASSUME NEW k \in DOMAIN timers, timers[k] \in marked'
                 PROVE  Due(timers[k])
    BY <1>1 DEF Marks, Due
  <2> QED BY <1>2, <1>5, <2>1
<1>8. Chain(timers)'
  <2>1. SUFFICES ASSUME NEW j \in DOMAIN timers, NEW k \in DOMAIN timers, j < k
                 PROVE  /\ timers[j] # timers[k]
                        /\ trigger[timers[j]] <= trigger[timers[k]]
                        /\ timers[k] \in marked' => timers[j] \in marked'
    BY <1>1 DEF Chain
  <2>2. timers[k] \in marked' => \A l \in 1 .. j : Due(timers[l])
    BY <1>2, <1>5, <2>1
  <2> QED BY <1>6, <2>1, <2>2 DEF Chain
<1> QED BY <1>7, <1>8

LEMMA ChainLoop ==
  ASSUME TypeOK, Chain(timers), Marks(timers), Loop
  PROVE  Chain(timers)' /\ Marks(timers)'
<1>1. CASE ServiceMark
  BY <1>1, MarkChain
<1>2. CASE ServiceFire
  <2>1. /\ timers # <<>> /\ timers' = Tail(timers)
        /\ loop' = "callback" /\ UNCHANGED <<trigger, marked, now>>
    BY <1>2 DEF ServiceFire, FirstMarked, At, clockVars
  <2>2. Chain(Tail(timers)) /\ Marks(Tail(timers))
    BY <2>1, WithinTail, WithinKeeps
  <2> QED BY <2>1, <2>2 DEF Chain, Marks, Due
<1>3. CASE ServiceReturn
  <2>1. loop' = "fire" /\ UNCHANGED <<timers, trigger, marked, now>>
    BY <1>3 DEF ServiceReturn, At, clockVars
  <2> QED BY <2>1 DEF Chain, Marks, Due
<1>4. CASE ServiceEnd
  <2>1. ~FirstMarked /\ UNCHANGED <<timers, trigger, marked, now>>
    BY <1>4 DEF ServiceEnd, timerVars, clockVars
  <2>2. timers # <<>> => 1 \in DOMAIN timers /\ Head(timers) = timers[1] /\ DOMAIN timers = 1 .. Len(timers)
    BY DEF TypeOK
  <2>3. timers = <<>> => DOMAIN timers = {}
    OBVIOUS
  <2>4. ASSUME NEW k \in DOMAIN timers PROVE timers[k] \notin marked
    <3>1. timers # <<>> /\ timers[1] \notin marked
      BY <2>1, <2>2, <2>3, <2>4 DEF FirstMarked
    <3>2. CASE k = 1
      BY <3>1, <3>2
    <3>3. CASE 1 < k
      BY <2>2, <3>1, <3>3 DEF Chain
    <3> QED BY <2>2, <3>1, <3>2, <3>3
  <2> QED BY <2>1, <2>4 DEF Chain, Marks
<1>5. CASE \/ LoopStart \/ TakeEvents \/ NextEvent \/ EventReturn \/ WaitForData
           \/ PollTimeout \/ PollData \/ ClearWake \/ OneEvent \/ NoEvent
           \/ Finish \/ Unlist \/ DisposeQueue \/ ReleaseRunning
  <2>1. loop \notin {"fire", "callback"} /\ UNCHANGED <<timers, trigger, marked>>
    BY <1>5 DEF LoopStart, TakeEvents, NextEvent, EventReturn, WaitForData, PollTimeout, PollData,
       ClearWake, OneEvent, NoEvent, Finish, Unlist, DisposeQueue, ReleaseRunning, timerVars
  <2> QED BY <2>1 DEF Chain, Marks
<1> QED BY <1>1, <1>2, <1>3, <1>4, <1>5 DEF Loop

LEMMA ChainStep ==
  ASSUME TypeOK, Chain(timers), Marks(timers), Next
  PROVE  Chain(timers)' /\ Marks(timers)'
<1>1. ASSUME NEW t \in Timer,
             FskTimeCallbackScheduleFuture(t) \/ FskTimeCallbackScheduleNextRun(t)
      PROVE  Chain(timers)' /\ Marks(timers)'
  <2>1. PICK when \in 0 .. MaxTime : sInsertInTime(t, when)
    BY <1>1, SetFacts
  <2>2. marked' = marked \ {t} /\ UNCHANGED <<now, loop>>
    BY <1>1, SetFacts DEF loopVars
  <2> QED BY <2>1, <2>2, InsertChain
<1>2. ASSUME NEW t \in Timer, FskTimeCallbackRemove(t)
      PROVE  Chain(timers)' /\ Marks(timers)'
  <2>1. timers' = Without(t) /\ UNCHANGED <<trigger, marked, now, loop>>
    BY <1>2 DEF FskTimeCallbackRemove, loopVars
  <2>2. Chain(Without(t)) /\ Marks(Without(t))
    BY WithinWithout, WithinKeeps
  <2> QED BY <2>1, <2>2 DEF Chain, Marks, Due
<1>3. CASE Tick
  <2>1. now' = now + 1 /\ UNCHANGED <<timers, trigger, marked, loop>> /\ now \in Int
    BY <1>3 DEF Tick, timerVars, loopVars, TypeOK
  <2>2. \A k \in DOMAIN timers : trigger[timers[k]] \in Int
    BY DEF TypeOK
  <2> QED BY <2>1, <2>2 DEF Chain, Marks, Due
<1>4. CASE \/ KprServicesStop \/ Join
           \/ \E q \in Caller : Post(q) \/ FskThreadPostEvent(q)
  <2>1. UNCHANGED <<timers, trigger, marked, now, loop>>
    BY <1>4 DEF KprServicesStop, Join, FskThreadJoin, JoinDispose, Post, PostAppend, WakeTest,
       WakeCount, WakeSend, PostRelease, FskThreadPostEvent, timerVars, loopVars, clockVars
  <2> QED BY <2>1 DEF Chain, Marks, Due
<1> QED BY <1>1, <1>2, <1>3, <1>4, ChainLoop, CallerFacts DEF Next, Script

LEMMA OnTimeStep ==
  ASSUME TypeOK, Chain(timers), OnTime, Next
  PROVE  OnTime'
<1>1. CASE WaitForData
  <2>1. deadline' = (IF wakePending THEN 0 ELSE NextTime) /\ UNCHANGED <<timers, trigger>>
    BY <1>1 DEF WaitForData, timerVars
  <2>2. SUFFICES ASSUME NEW k \in DOMAIN timers PROVE deadline' <= trigger[timers[k]]
    BY <2>1 DEF OnTime
  <2>3. /\ timers \in Seq(Timer) /\ DOMAIN timers = 1 .. Len(timers) /\ Len(timers) \in Nat
        /\ trigger[timers[k]] \in Nat
    BY DEF TypeOK
  <2>4. timers # <<>> /\ 1 \in DOMAIN timers /\ Head(timers) = timers[1]
    BY <2>3
  <2>5. trigger[timers[1]] <= trigger[timers[k]]
    <3>1. CASE k = 1
      BY <2>3, <3>1
    <3>2. CASE 1 < k
      BY <2>4, <3>2 DEF Chain
    <3> QED BY <2>3, <3>1, <3>2
  <2> QED BY <2>1, <2>3, <2>4, <2>5 DEF NextTime
<1>2. CASE \/ LoopStart \/ ServiceMark \/ ServiceFire \/ ServiceReturn \/ ServiceEnd
           \/ TakeEvents \/ NextEvent \/ EventReturn
           \/ PollTimeout \/ PollData \/ ClearWake \/ OneEvent \/ NoEvent
           \/ Finish \/ Unlist \/ DisposeQueue \/ ReleaseRunning
  <2>1. back \in {"cycle", "events"}
    BY DEF TypeOK
  <2>2. loop' # "poll"
    BY <1>2, <2>1 DEF LoopStart, ServiceMark, ServiceFire, ServiceReturn, ServiceEnd, TakeEvents,
       NextEvent, EventReturn, PollTimeout, PollData, ClearWake, OneEvent, NoEvent, Finish, Unlist,
       DisposeQueue, ReleaseRunning, At, HandleThreadEvent
  <2> QED BY <2>2 DEF OnTime
<1>3. CASE \E t \in Timer : \/ FskTimeCallbackScheduleFuture(t)
                            \/ FskTimeCallbackScheduleNextRun(t)
                            \/ FskTimeCallbackRemove(t)
  <2>1. Running /\ UNCHANGED loop
    BY <1>3, SetFacts DEF FskTimeCallbackRemove, Uses, loopVars
  <2> QED BY <2>1 DEF OnTime, Running
<1>4. CASE \/ Tick \/ KprServicesStop \/ Join
           \/ \E q \in Caller : Post(q) \/ FskThreadPostEvent(q)
  <2>1. UNCHANGED <<timers, trigger, deadline, loop>>
    BY <1>4 DEF Tick, KprServicesStop, Join, FskThreadJoin, JoinDispose, Post, PostAppend, WakeTest,
       WakeCount, WakeSend, PostRelease, FskThreadPostEvent, timerVars, loopVars
  <2> QED BY <2>1 DEF OnTime
<1> QED BY <1>1, <1>2, <1>3, <1>4, CallerFacts DEF Next, Script, Loop

-----------------------------------------------------------------------------
(* Theorems. *)

LEMMA InvInit ==
  ASSUME Init
  PROVE  Inv
<1>1. MaxPosts \in Nat /\ MaxCalls \in Nat /\ MaxTime \in Nat
  BY ConstantsAssumption
<1>2. TypeOK
  <2>1. wakePending \in BOOLEAN /\ quitting \in BOOLEAN
    BY DEF Init
  <2>2. EventType /\ TimerType
    BY <1>1, <2>1 DEF Init, EventType, TimerType
  <2>3. PostType
    BY <1>1 DEF Init, PostType
  <2>4. 0 \in 0 .. Never
    BY <1>1 DEF Never
  <2>5. LoopType
    BY <2>1, <2>4 DEF Init, LoopType
  <2> QED BY <2>2, <2>3, <2>5, TypeParts
<1>3. Held /\ NoSpin /\ Noticed
  BY CallerFacts DEF Init, Held, Holding, NoSpin, Noticed, Attended
<1>4. Numbered
  BY DEF Init, Numbered
<1>5. Chain(timers) /\ Marks(timers) /\ OnTime
  BY DEF Init, Chain, Marks, OnTime
<1> QED BY <1>2, <1>3, <1>4, <1>5 DEF Inv

LEMMA InvStuttering ==
  ASSUME Inv, UNCHANGED vars
  PROVE  Inv'
<1> USE DEF vars, postVars, wakeVars, eventVars, timerVars, loopVars, clockVars
<1>1. TypeOK'
  BY DEF Inv, TypeOK
<1>2. Held' /\ NoSpin' /\ Noticed'
  BY DEF Inv, Held, NoSpin, Noticed, Attended, Waking, Finished
<1>3. Numbered'
  BY DEF Inv, Numbered, Finished
<1>4. Chain(timers)' /\ Marks(timers)' /\ OnTime'
  BY DEF Inv, Chain, Marks, Due, OnTime
<1> QED BY <1>1, <1>2, <1>3, <1>4 DEF Inv

LEMMA Invariance == Spec => []Inv
<1>1. Init => Inv
  BY InvInit
<1>2. Inv /\ [Next]_vars => Inv'
  <2> SUFFICES ASSUME Inv, [Next]_vars PROVE Inv'
    OBVIOUS
  <2>2. CASE Next
    BY <2>2, TypeStep, HeldStep, SpinStep, NoticedStep, NumberedStep, ChainStep, OnTimeStep DEF Inv
  <2>3. CASE UNCHANGED vars
    BY <2>3, InvStuttering
  <2> QED BY <2>2, <2>3
<1> QED BY <1>1, <1>2, PTL DEF Spec

\* Every variable keeps its type, for every number of posters, timers, posts.
THEOREM TypeCorrect == Spec => []TypeOK
<1>1. Inv => TypeOK
  BY DEF Inv
<1> QED BY <1>1, Invariance, PTL

\* Nobody uses the thread or its queue after threadProc disposed of them:
\* FskThreadPostEvent looks the thread up and wakes it under one lock, and
\* threadProc takes that lock before it disposes of anything.
THEOREM NobodyUsesFreed == Spec => []NoFreed
<1>1. Inv => NoFreed
  BY HeldImplies DEF Inv
<1> QED BY <1>1, Invariance, PTL

\* The unlocked test and increment of wakePending by any number of threads,
\* against the clear of threadCheckEvents, lose no wake.
THEOREM WakesArrive == Spec => []NoLostWake
<1>1. Inv => NoLostWake
  BY NoticedImplies DEF Inv
<1> QED BY <1>1, Invariance, PTL

\* The same race never leaves wakePending set for good: while it is set nobody
\* sends, and the loop does not sleep, until threadCheckEvents clears it.
THEOREM NothingSpins == Spec => []NoSpin
<1>1. Inv => NoSpin
  BY DEF Inv
<1> QED BY <1>1, Invariance, PTL

\* Events are handled in the order of FskThreadPostEvent, by either path.
THEOREM EventsInOrder == Spec => []InOrder
<1>1. Inv => InOrder
  BY NumberedImplies DEF Inv
<1> QED BY <1>1, Invariance, PTL

\* One call of FskTimeCallbackServiceUntil runs all it marked, whatever the
\* callbacks do to the list meanwhile.
THEOREM TimersServed == Spec => []PassComplete
<1>1. Inv => PassComplete
  BY DEF Inv, Marks, PassComplete
<1> QED BY <1>1, Invariance, PTL

\* The wait that follows a service pass ends by the earliest timer of the list,
\* although FskTimeCallbackGetNextTime looks at the first one only.
THEOREM WaitsEndOnTime == Spec => []OnTime
<1>1. Inv => OnTime
  BY DEF Inv
<1> QED BY <1>1, Invariance, PTL

=============================================================================
