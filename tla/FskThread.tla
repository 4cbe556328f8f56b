----------------------------- MODULE FskThread -----------------------------
(***************************************************************************)
(* A thread with a run loop, its event queue and its timers: FskThread.c   *)
(* and FskTime.c as Android builds them, run by KprServicesLoop.  Other    *)
(* threads post events to it; the shell stops it and joins it.             *)
(*                                                                          *)
(* What threads share is `lock' (the mutex of gThreads), the event queue,  *)
(* and, without any lock, wakePending, quitting and the wake socket.       *)
(***************************************************************************)
EXTENDS Integers, Sequences, SequencesExt

CONSTANTS
  Poster,    \* threads that post events to the services thread
  Services,  \* the services thread, whose callbacks post to it as well
  Shell,     \* the shell thread, in KprServicesStop
  None,
  Timer,
  Delays,    \* delays of FskTimeCallbackScheduleFuture
  MaxPosts,  \* bound: events posted
  MaxCalls,  \* bound: timers set or removed by other callbacks than their own
  MaxTime    \* bound: the clock

Caller == Poster \union {Services, Shell}
Never == MaxTime + 1

ASSUME ConstantsAssumption ==
  /\ Services \notin Poster /\ Shell \notin Poster /\ Services # Shell
  /\ None \notin Caller \union Timer
  /\ Delays \subseteq Nat
  /\ MaxPosts \in Nat /\ MaxCalls \in Nat /\ MaxTime \in Nat

VARIABLES
  lock,        \* who holds the mutex of gThreads
  listed,      \* the services thread is in gThreads
  quitting,    \* gServicesThreadQuitting
  queue,       \* thread->eventQueue
  batch,       \* the events the run loop has taken from it
  posted,      \* events appended so far
  handled,     \* events handled so far
  wakePending, \* thread->wakePending
  datagrams,   \* datagrams in the socket of the thread
  step,        \* where each caller is in FskThreadPostEvent or FskThreadJoin
  loop,        \* where the services thread is in its run loop
  back,        \* where it goes on after the event it handles
  deadline,    \* when its poll ends
  timers,      \* thread->timerCallbacks
  trigger,     \* timer->trigger
  marked,      \* timers whose mark is set
  current,     \* the timer whose callback runs
  now,
  calls

postVars == <<lock, listed, posted, step>>
wakeVars == <<wakePending, datagrams>>
eventVars == <<queue, batch, handled>>
timerVars == <<timers, trigger, marked, current>>
loopVars == <<loop, back, deadline>>
clockVars == <<now, calls>>
vars == <<postVars, wakeVars, eventVars, timerVars, loopVars, clockVars, quitting>>

Ended == {"unlist", "dispose", "release", "gone"}
Finished == loop \in Ended

Init ==
  /\ lock = None /\ listed = TRUE /\ quitting = FALSE
  /\ queue = <<>> /\ batch = <<>> /\ posted = 0 /\ handled = 0
  /\ wakePending = FALSE /\ datagrams = 0
  /\ step = [q \in Caller |-> "idle"]
  /\ loop = "cycle" /\ back = "cycle" /\ deadline = 0
  /\ timers = <<>> /\ trigger = [t \in Timer |-> 0]
  /\ marked = {} /\ current = None
  /\ now = 0 /\ calls = 0

-----------------------------------------------------------------------------
(* FskThreadPostEvent. *)

Goes(q, s) == step' = [step EXCEPT ![q] = s]

(* A callback of the services thread, or any other thread, takes the lock   *)
(* and looks whether the thread still exists.                               *)
Running == loop \in {"callback", "handle"}

FskThreadPostEvent(q) ==
  /\ q # Shell /\ step[q] = "idle"
  /\ q = Services => Running
  /\ posted < MaxPosts
  /\ lock = None
  /\ lock' = q
  /\ Goes(q, IF listed THEN "append" ELSE "release")
  /\ UNCHANGED <<listed, posted, wakeVars, eventVars, timerVars, loopVars, clockVars, quitting>>

\* Mutant: the event goes to the head of the list.
PostAppend_front(q) ==
  /\ step[q] = "append"
  /\ queue' = <<posted + 1>> \o queue
  /\ posted' = posted + 1
  /\ Goes(q, "wake")
  /\ UNCHANGED <<lock, listed, wakeVars, batch, handled, timerVars, loopVars, clockVars, quitting>>

PostAppend(q) ==
  /\ step[q] = "append"
  /\ queue' = Append(queue, posted + 1)
  /\ posted' = posted + 1
  /\ Goes(q, "wake")
  /\ UNCHANGED <<lock, listed, wakeVars, batch, handled, timerVars, loopVars, clockVars, quitting>>

(* FskThreadWake: test, increment, send.  FskThreadJoin calls it without    *)
(* the lock.                                                                *)
Woken(q) == Goes(q, IF q = Shell THEN "acquire" ELSE "release")

\* Mutant: wakePending is not looked at.
WakeTest_always(q) ==
  /\ step[q] = "wake"
  /\ Goes(q, "count")
  /\ UNCHANGED <<lock, listed, posted, wakeVars, eventVars, timerVars, loopVars, clockVars, quitting>>

WakeTest(q) ==
  /\ step[q] = "wake"
  /\ IF wakePending THEN Woken(q) ELSE Goes(q, "count")
  /\ UNCHANGED <<lock, listed, posted, wakeVars, eventVars, timerVars, loopVars, clockVars, quitting>>

WakeCount(q) ==
  /\ step[q] = "count"
  /\ wakePending' = TRUE
  /\ Goes(q, "send")
  /\ UNCHANGED <<lock, listed, posted, datagrams, eventVars, timerVars, loopVars, clockVars, quitting>>

(* The socket of a thread that has finished is closed. *)
WakeSend(q) ==
  /\ step[q] = "send"
  /\ datagrams' = IF Finished THEN datagrams ELSE datagrams + 1
  /\ Woken(q)
  /\ UNCHANGED <<lock, listed, posted, wakePending, eventVars, timerVars, loopVars, clockVars, quitting>>

PostRelease(q) ==
  /\ step[q] = "release"
  /\ lock' = None
  /\ Goes(q, "idle")
  /\ UNCHANGED <<listed, posted, wakeVars, eventVars, timerVars, loopVars, clockVars, quitting>>

-----------------------------------------------------------------------------
(* KprServicesStop on the shell thread, and FskThreadJoin. *)

KprServicesStop ==
  /\ step[Shell] = "idle"
  /\ quitting' = TRUE
  /\ Goes(Shell, "join")
  /\ UNCHANGED <<lock, listed, posted, wakeVars, eventVars, timerVars, loopVars, clockVars>>

\* Mutant: the thread is not woken.
FskThreadJoin_quiet ==
  /\ step[Shell] = "join"
  /\ Goes(Shell, "acquire")
  /\ UNCHANGED <<lock, listed, posted, wakeVars, eventVars, timerVars, loopVars, clockVars, quitting>>

FskThreadJoin ==
  /\ step[Shell] = "join"
  /\ Goes(Shell, IF Finished THEN "acquire" ELSE "wake")
  /\ UNCHANGED <<lock, listed, posted, wakeVars, eventVars, timerVars, loopVars, clockVars, quitting>>

(* thread->running is free: the thread is disposed of. *)
JoinDispose ==
  /\ step[Shell] = "acquire" /\ loop = "gone"
  /\ Goes(Shell, "freed")
  /\ UNCHANGED <<lock, listed, posted, wakeVars, eventVars, timerVars, loopVars, clockVars, quitting>>

-----------------------------------------------------------------------------
(* Timers. *)

Due(t) == trigger[t] <= now

(* FskListRemove. *)
Listed(t) == \E i \in DOMAIN timers : timers[i] = t
Without(t) ==
  IF Listed(t) THEN RemoveAt(timers, CHOOSE i \in DOMAIN timers : timers[i] = t) ELSE timers

(* sInsertInTime puts the timer before the first one that is later. *)
\* Mutant: the timer goes to the end of the list.
InsertsAt_last(s, when, i) == i = Len(s) + 1

InsertsAt(s, when, i) ==
  /\ \A j \in 1 .. i - 1 : trigger[s[j]] <= when
  /\ i <= Len(s) => trigger[s[i]] > when

\* Mutant: a time in the past is kept.
sInsertInTime_past(t, when) ==
  \E i \in 1 .. Len(Without(t)) + 1 :
    /\ InsertsAt(Without(t), when, i)
    /\ timers' = InsertAt(Without(t), i, t)
    /\ trigger' = [trigger EXCEPT ![t] = when]

sInsertInTime(t, when) ==
  LET at == IF when < now THEN now ELSE when
  IN  \E i \in 1 .. Len(Without(t)) + 1 :
        /\ InsertsAt(Without(t), at, i)
        /\ timers' = InsertAt(Without(t), i, t)
        /\ trigger' = [trigger EXCEPT ![t] = at]

(* Callbacks use timers: their own freely, others MaxCalls times. *)
Uses(t) ==
  /\ Running /\ step[Services] = "idle"
  /\ \/ t = current /\ UNCHANGED calls
     \/ t # current /\ calls < MaxCalls /\ calls' = calls + 1

FskTimeCallbackSet(t, when) ==
  /\ marked' = marked \ {t}
  /\ sInsertInTime(t, when)
  /\ UNCHANGED <<postVars, wakeVars, eventVars, current, loopVars, now, quitting>>

FskTimeCallbackScheduleFuture(t) ==
  \E d \in Delays : /\ Uses(t) /\ now + d <= MaxTime
                    /\ FskTimeCallbackSet(t, now + d)

FskTimeCallbackScheduleNextRun(t) == Uses(t) /\ FskTimeCallbackSet(t, 0)

(* FskTimeCallbackRemove, also on behalf of FskTimeCallbackDispose. *)
FskTimeCallbackRemove(t) ==
  /\ Uses(t)
  /\ timers' = Without(t)
  /\ UNCHANGED <<postVars, wakeVars, eventVars, trigger, marked, current, loopVars, now, quitting>>

-----------------------------------------------------------------------------
(* FskThreadRunloopCycle. *)

At(s) == loop' = s /\ UNCHANGED <<back, deadline>>

LoopStart ==
  /\ loop = "cycle" /\ ~quitting
  /\ At("service")
  /\ UNCHANGED <<postVars, wakeVars, eventVars, timerVars, clockVars, quitting>>

(* FskTimeCallbackServiceUntil marks the timers that are due, *)
ServiceMark ==
  /\ loop = "service"
  /\ marked' = marked \union
       {timers[i] : i \in {i \in DOMAIN timers : \A j \in 1 .. i : Due(timers[j])}}
  /\ At("fire")
  /\ UNCHANGED <<postVars, wakeVars, eventVars, timers, trigger, current, clockVars, quitting>>

(* then calls those it finds marked at the head of the list. *)
\* Mutant: timers are called as long as one is due.
FirstMarked_due == timers # <<>> /\ Due(Head(timers))

FirstMarked == timers # <<>> /\ Head(timers) \in marked

ServiceFire ==
  /\ loop = "fire" /\ FirstMarked
  /\ current' = Head(timers)
  /\ timers' = Tail(timers)
  /\ At("callback")
  /\ UNCHANGED <<postVars, wakeVars, eventVars, trigger, marked, clockVars, quitting>>

ServiceReturn ==
  /\ loop = "callback" /\ step[Services] = "idle"
  /\ current' = None
  /\ At("fire")
  /\ UNCHANGED <<postVars, wakeVars, eventVars, timers, trigger, marked, clockVars, quitting>>

ServiceEnd ==
  /\ loop = "fire" /\ ~FirstMarked
  /\ At("take")
  /\ UNCHANGED <<postVars, wakeVars, eventVars, timerVars, clockVars, quitting>>

TakeEvents ==
  /\ loop = "take"
  /\ batch' = queue
  /\ queue' = <<>>
  /\ At("events")
  /\ UNCHANGED <<postVars, wakeVars, handled, timerVars, clockVars, quitting>>

HandleThreadEvent(from) ==
  /\ handled' = Head(from)
  /\ loop' = "handle"
  /\ UNCHANGED deadline

NextEvent ==
  /\ loop = "events" /\ batch # <<>>
  /\ batch' = Tail(batch)
  /\ HandleThreadEvent(batch)
  /\ back' = "events"
  /\ UNCHANGED <<postVars, wakeVars, queue, timerVars, clockVars, quitting>>

EventReturn ==
  /\ loop = "handle" /\ step[Services] = "idle"
  /\ At(back)
  /\ UNCHANGED <<postVars, wakeVars, eventVars, timerVars, clockVars, quitting>>

(* No event is left: the loop will wait for the first timer, or not at all. *)
NextTime == IF timers = <<>> THEN Never ELSE trigger[Head(timers)]

\* Mutant: the time of the timer is taken for a delay.
WaitForData_later ==
  /\ loop = "events" /\ batch = <<>>
  /\ loop' = "poll"
  /\ deadline' = IF wakePending THEN 0 ELSE now + NextTime
  /\ UNCHANGED <<back, postVars, wakeVars, eventVars, timerVars, clockVars, quitting>>

WaitForData ==
  /\ loop = "events" /\ batch = <<>>
  /\ loop' = "poll"
  /\ deadline' = IF wakePending THEN 0 ELSE NextTime
  /\ UNCHANGED <<back, postVars, wakeVars, eventVars, timerVars, clockVars, quitting>>

PollTimeout ==
  /\ loop = "poll" /\ now >= deadline
  /\ loop' = "cycle" /\ deadline' = 0
  /\ UNCHANGED <<back, postVars, wakeVars, eventVars, timerVars, clockVars, quitting>>

(* threadCheckEvents empties the socket, clears the flag, and handles one   *)
(* event.                                                                   *)
PollData ==
  /\ loop = "poll" /\ datagrams > 0
  /\ datagrams' = 0
  /\ loop' = "clear" /\ deadline' = 0
  /\ UNCHANGED <<back, postVars, wakePending, eventVars, timerVars, clockVars, quitting>>

\* Mutant: the flag is left alone.
ClearWake_not ==
  /\ loop = "clear"
  /\ At("one")
  /\ UNCHANGED <<postVars, wakeVars, eventVars, timerVars, clockVars, quitting>>

ClearWake ==
  /\ loop = "clear"
  /\ wakePending' = FALSE
  /\ At("one")
  /\ UNCHANGED <<postVars, datagrams, eventVars, timerVars, clockVars, quitting>>

\* Mutant: after one event the loop waits again.
OneEvent_only ==
  /\ loop = "one" /\ queue # <<>>
  /\ queue' = Tail(queue)
  /\ HandleThreadEvent(queue)
  /\ back' = "events"
  /\ UNCHANGED <<postVars, wakeVars, batch, timerVars, clockVars, quitting>>

OneEvent ==
  /\ loop = "one" /\ queue # <<>>
  /\ queue' = Tail(queue)
  /\ HandleThreadEvent(queue)
  /\ back' = "cycle"
  /\ UNCHANGED <<postVars, wakeVars, batch, timerVars, clockVars, quitting>>

NoEvent ==
  /\ loop = "one" /\ queue = <<>>
  /\ At("cycle")
  /\ UNCHANGED <<postVars, wakeVars, eventVars, timerVars, clockVars, quitting>>

(* KprServicesLoop ends: the services are stopped, which is their own affair *)
(* (KprHTTPClientStop in KprHTTPClient).  Then threadProc sets               *)
(* threadFinished and closes the socket, the thread leaves gThreads, its     *)
(* queue is disposed of, and thread->running is released.                    *)
Finish ==
  /\ loop = "cycle" /\ quitting
  /\ datagrams' = 0
  /\ At("unlist")
  /\ UNCHANGED <<postVars, wakePending, eventVars, timerVars, clockVars, quitting>>

\* Mutant: the list is changed without its mutex.
Unlist_unlocked ==
  /\ loop = "unlist"
  /\ listed' = FALSE
  /\ At("dispose")
  /\ UNCHANGED <<lock, posted, step, wakeVars, eventVars, timerVars, clockVars, quitting>>

Unlist ==
  /\ loop = "unlist" /\ lock = None
  /\ listed' = FALSE
  /\ At("dispose")
  /\ UNCHANGED <<lock, posted, step, wakeVars, eventVars, timerVars, clockVars, quitting>>

DisposeQueue ==
  /\ loop = "dispose"
  /\ queue' = <<>>
  /\ At("release")
  /\ UNCHANGED <<postVars, wakeVars, batch, handled, timerVars, clockVars, quitting>>

ReleaseRunning ==
  /\ loop = "release"
  /\ At("gone")
  /\ UNCHANGED <<postVars, wakeVars, eventVars, timerVars, clockVars, quitting>>

-----------------------------------------------------------------------------

Tick ==
  /\ now < MaxTime
  /\ now' = now + 1
  /\ UNCHANGED <<postVars, wakeVars, eventVars, timerVars, loopVars, calls, quitting>>

Post(q) ==
  \/ PostAppend(q) \/ WakeTest(q) \/ WakeCount(q) \/ WakeSend(q) \/ PostRelease(q)

Join == FskThreadJoin \/ JoinDispose

Script ==
  \/ \E q \in Poster \union {Services} : FskThreadPostEvent(q)
  \/ \E t \in Timer : \/ FskTimeCallbackScheduleFuture(t)
                      \/ FskTimeCallbackScheduleNextRun(t)
                      \/ FskTimeCallbackRemove(t)
  \/ KprServicesStop

Loop ==
  \/ LoopStart \/ ServiceMark \/ ServiceFire \/ ServiceReturn \/ ServiceEnd
  \/ TakeEvents \/ NextEvent \/ EventReturn \/ WaitForData
  \/ PollTimeout \/ PollData \/ ClearWake \/ OneEvent \/ NoEvent
  \/ Finish \/ Unlist \/ DisposeQueue \/ ReleaseRunning

Next == Script \/ Loop \/ Join \/ Tick \/ \E q \in Caller : Post(q)

Spec == Init /\ [][Next]_vars

FairSpec ==
  /\ Spec
  /\ WF_vars(Loop) /\ WF_vars(Join) /\ WF_vars(Tick)
  /\ \A q \in Caller : WF_vars(Post(q))

-----------------------------------------------------------------------------
(* Properties. *)

\* Every variable has its type (FskThreadRecord, FskTimeCallBackRecord).
TypeOK ==
  /\ lock \in Caller \union {None}
  /\ listed \in BOOLEAN /\ quitting \in BOOLEAN /\ wakePending \in BOOLEAN
  /\ queue \in Seq(Nat) /\ batch \in Seq(Nat)
  /\ posted \in 0 .. MaxPosts /\ handled \in Nat /\ datagrams \in Nat
  /\ step \in [Caller -> {"idle", "append", "wake", "count", "send", "release",
                          "join", "acquire", "freed"}]
  /\ loop \in {"cycle", "service", "fire", "callback", "take", "events", "handle",
               "poll", "clear", "one"} \union Ended
  /\ back \in {"cycle", "events"}
  /\ deadline \in 0 .. Never
  /\ timers \in Seq(Timer)
  /\ trigger \in [Timer -> 0 .. MaxTime]
  /\ marked \subseteq Timer
  /\ current \in Timer \union {None}
  /\ now \in 0 .. MaxTime /\ calls \in 0 .. MaxCalls

\* Who works on the thread or on its queue finds them: a poster that passed the
\* test of FskThreadPostEvent holds the lock, and threadProc takes the thread
\* out of gThreads before it disposes of the queue and lets the shell free it.
NoFreed ==
  \A q \in Caller : step[q] \in {"append", "wake", "count", "send"} =>
    /\ q # Shell => lock = q /\ listed /\ loop \notin {"dispose", "release", "gone"}
    /\ step[Shell] # "freed"

\* Events are handled in the order in which they were posted, although the loop
\* takes the whole list and threadCheckEvents a single event.
InOrder ==
  ~Finished => batch \o queue = [i \in 1 .. posted - handled |-> handled + i]

Sleeps == loop = "poll" /\ now < deadline
Waking(q) == step[q] \in {"wake", "count", "send"}

\* The thread does not sleep over an event or over the request to quit: there is
\* a datagram in its socket, or somebody is about to wake it.
NoLostWake ==
  Sleeps /\ (queue # <<>> \/ step[Shell] = "acquire") =>
    datagrams > 0 \/ \E q \in Caller : Waking(q)

\* wakePending is never left set: the loop will clear it, or somebody will make
\* it do so.  (While it is set nobody sends and the loop does not sleep.)
NoSpin ==
  wakePending /\ ~Finished =>
    datagrams > 0 \/ loop = "clear" \/ \E q \in Caller : step[q] = "send"

\* When FskTimeCallbackServiceUntil is done, every timer it marked has been
\* called, set again or removed, whatever the callbacks did to the list.
PassComplete ==
  loop = "take" => \A i \in DOMAIN timers : timers[i] \notin marked

\* While the thread waits, no timer of its list is earlier than the end of the
\* wait, although FskTimeCallbackGetNextTime looks at the first one only.
OnTime ==
  loop = "poll" => \A i \in DOMAIN timers : deadline <= trigger[timers[i]]

\* Every event that was posted is handled, unless the thread quits.
Delivered ==
  \A n \in 1 .. MaxPosts : posted >= n ~> (handled >= n \/ Finished)

\* Every timer is called, or removed: a timer that sets itself again for the
\* next run cannot starve another.
Fires == \A t \in Timer : Listed(t) ~> (current = t \/ ~Listed(t) \/ Finished)

\* FskThreadJoin returns.
Joins == quitting ~> step[Shell] = "freed"

=============================================================================
