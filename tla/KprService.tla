----------------------------- MODULE KprService -----------------------------
(***************************************************************************)
(* What a message may rely on when a service of the services thread has     *)
(* been asked to handle it: the service takes the message, holds it, and    *)
(* posts KprMessageComplete for it once.  KprMessage assumes this of every  *)
(* service (its `held'); KprHTTPClient is shown to implement it.            *)
(***************************************************************************)
EXTENDS Naturals

CONSTANT Message

VARIABLES
  asked,   \* messages whose invoke callback was posted to the service
  held,    \* messages the service works on
  posts,   \* how often the completion of a message was posted
  stopped  \* the service was stopped

vars == <<asked, held, posts, stopped>>

Init ==
  /\ asked = {}
  /\ held = {}
  /\ posts = [m \in Message |-> 0]
  /\ stopped = FALSE

(* The message was asked for, and the service has not seen it. *)
Fresh(m) == m \in asked /\ m \notin held /\ posts[m] = 0

Completed(m) == posts' = [posts EXCEPT ![m] = @ + 1]

(* KprMessageInvoke posts the service's invoke callback. *)
Ask(m) ==
  /\ ~stopped /\ m \notin asked
  /\ asked' = asked \union {m}
  /\ UNCHANGED <<held, posts, stopped>>

(* The invoke callback keeps the message... *)
Take(m) ==
  /\ ~stopped /\ Fresh(m)
  /\ held' = held \union {m}
  /\ UNCHANGED <<asked, posts, stopped>>

(* ... or completes it at once. *)
Return(m) ==
  /\ ~stopped /\ Fresh(m)
  /\ Completed(m)
  /\ UNCHANGED <<asked, held, stopped>>

Finish(m) ==
  /\ ~stopped /\ m \in held
  /\ held' = held \ {m}
  /\ Completed(m)
  /\ UNCHANGED <<asked, stopped>>

(* The stop callback drops what the service holds. *)
Stop ==
  /\ ~stopped
  /\ stopped' = TRUE
  /\ held' = {}
  /\ UNCHANGED <<asked, posts>>

Next ==
  \/ \E m \in Message : Ask(m) \/ Take(m) \/ Return(m) \/ Finish(m)
  \/ Stop

Spec == Init /\ [][Next]_vars
=============================================================================
