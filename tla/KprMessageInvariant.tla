------------------------ MODULE KprMessageInvariant ------------------------
(***************************************************************************)
(* The inductive invariants behind the safety properties of KprMessage: IInv *)
(* (UsageCounts, Linked, CancelSilences...) and, on top of it, Extra.  They  *)
(* hold when scripts keep the conditions the code relies on (Careful).       *)
(***************************************************************************)
EXTENDS KprMessage

Cancels == Script \intersect {"cancel", "dispose"}

(* No careless use of the API, no notifications, redirections to schemes     *)
(* some service accepts only, and no instance that both redirects and        *)
(* cancels.                                                                  *)
Careful ==
  /\ Script \intersect Careless = {}
  /\ "notify" \notin Script
  /\ RedirectTo \subseteq Accepted
  /\ "redirect" \in Script => Cancels = {}

Has(k, m) == \E i \in DOMAIN shellQ : shellQ[i] = Event(k, m)
Completing(m) == \E i \in DOMAIN stack :
                   stack[i].at \in {"complete", "cleanup"} /\ stack[i].m = m

(* Only a live message has references. *)
InvLive == \A m \in Message : alive[m] # "live" => usage[m] = 0

(* A message waits only while it is in the list; one with a request target  *)
(* is in the list and waiting, or being completed.                          *)
InvWaiting ==
  \A m \in Message :
    /\ waiting[m] => m \in messages
    /\ request[m] # None => (m \in messages /\ waiting[m]) \/ Completing(m)

(* Redirections and cancellations exclude each other. *)
InvScript ==
  /\ \A m \in Message : location[m] # "nil" =>
       location[m] \in RedirectTo /\ "redirect" \in Script
  /\ walk # None => Cancels # {}
  /\ \A i \in DOMAIN stack : stack[i].at = "cancel" => Cancels # {}

(* A posted cancel callback is the last thing posted about its message. *)
InvCancel ==
  \A i \in DOMAIN shellQ : shellQ[i].ev = "cancel" =>
    /\ Cancels # {}
    /\ ~waiting[shellQ[i].m]
    /\ url[shellQ[i].m] = "xkpr"
    /\ \A j \in DOMAIN shellQ : shellQ[j] = Event("invoke", shellQ[i].m) => j < i

(* A pending xkpr message is suspended, about to be delivered, or with the  *)
(* script that runs now.                                                    *)
InvOwed ==
  \A m \in messages : url[m] = "xkpr" /\ response[m] = None =>
    \/ Has("invoke", m)
    \/ stack # <<>> /\ Top.at \in {"invoke", "resume", "complete"} /\ Top.handles = m

(* A service has only messages of its scheme, and those are never suspended. *)
InvHttp ==
  /\ \A m \in held : url[m] = "http"
  /\ \A i \in DOMAIN serviceQ : url[serviceQ[i].m] = "http"
  /\ \A i \in DOMAIN shellQ :
       shellQ[i].ev \in {"complete", "progress"} => url[shellQ[i].m] = "http"
  /\ \A m \in Message : response[m] # None => url[m] = "xkpr"

(* The message content.wait makes never meets a handler.  Its timer may run  *)
(* before its invoke callback is delivered.                                  *)
InvWait ==
  /\ \A w \in WaitMessage : /\ location[w] = "nil" /\ url[w] = "xkpr"
                            /\ response[w] \in {None, ContentWait}
                            /\ \A m \in Message : request[m] # w
  /\ \A m \in Message \ WaitMessage : response[m] # ContentWait
  /\ \A i \in DOMAIN stack : stack[i].handles \in WaitMessage =>
       ~stack[i].script \/ stack[i].at = "cancel"

(* A message has one invoke callback posted at most, and until it is         *)
(* delivered the message is pending, not suspended and with no handler.      *)
InvInvoke ==
  \A i \in DOMAIN shellQ : shellQ[i].ev = "invoke" =>
    /\ url[shellQ[i].m] = "xkpr"
    /\ shellQ[i].m \notin WaitMessage =>
         shellQ[i].m \in messages /\ response[shellQ[i].m] = None
    /\ \A k \in DOMAIN stack : stack[k].at \in {"invoke", "complete", "resume"}
                               => stack[k].handles # shellQ[i].m
    /\ \A j \in DOMAIN shellQ : shellQ[j] = shellQ[i] => j = i

InvLinked ==
  /\ \A f \in Message : response[f] \in Message =>
       /\ request[response[f]] = f
       /\ response[f] \in messages
  /\ \A m \in messages : request[m] \in Message => response[request[m]] = m
  /\ \A m \in Message : request[m] # m
  /\ \A f \in Message : response[f] # None =>
       f \in messages \/ (stack # <<>> /\ Top.at = "cancel" /\ Top.m = f)

InvFrames ==
  /\ \A i \in DOMAIN stack :
       /\ i < Len(stack) => stack[i].at = "cleanup"
       /\ stack[i].at \notin {"complete", "cleanup"} => Len(stack) = 1
       /\ stack[i].at \in {"complete", "cleanup"} =>
            /\ request[stack[i].m] # None
            /\ stack[i].m \notin messages
       /\ stack[i].at = "cleanup" =>
            stack[i].handles = None /\ ~stack[i].script /\ stack[i].wrap = None
       /\ stack[i].at = "complete" /\ stack[i].handles # None =>
            stack[i].handles \in messages
       /\ stack[i].at = "complete" => stack[i].handles # stack[i].m
       /\ stack[i].at \in {"invoke", "complete", "resume"} /\ stack[i].handles # None =>
            url[stack[i].handles] = "xkpr"
       /\ stack[i].at = "invoke" /\ stack[i].script => stack[i].m \in messages
       /\ stack[i].at = "progress" /\ stack[i].handles # None =>
            response[stack[i].handles] # None
       /\ stack[i].at = "cancel" =>
            /\ response[stack[i].m] # None
            /\ stack[i].m \notin messages
            /\ stack[i].handles = stack[i].m
       /\ stack[i].at = "resume" => stack[i].m \in messages /\ stack[i].handles = stack[i].m
       /\ stack[i].at = "invoke" => /\ stack[i].handles = stack[i].m
                                    /\ stack[i].script => stack[i].wrap = stack[i].m
       /\ stack[i].at = "invoke" => alive[stack[i].m] = "live"
       /\ stack[i].wrap # None => host[stack[i].wrap] > 0
  /\ \A i, j \in DOMAIN stack : i # j => stack[i].m # stack[j].m

(* The shell thread has no notification to deliver and is delivering none. *)
Unnotified ==
  /\ \A i \in DOMAIN shellQ : shellQ[i].ev # "notify"
  /\ \A i \in DOMAIN stack : stack[i].at \notin Notifying

(* UsageCounts, strengthened to an inductive invariant. *)
Core ==
  /\ TypeOK /\ UsageCounts /\ InvLive /\ InvWaiting /\ InvScript /\ InvCancel
  /\ InvOwed /\ InvHttp /\ InvWait /\ InvInvoke /\ InvLinked /\ InvFrames
IInv == Core /\ Unnotified

-----------------------------------------------------------------------------
(* The other safety properties. *)

(* The services thread has each message once: its invoke callback is in the *)
(* queue, a service works on it, or its completion is on its way.           *)
Holds(q, k, m) == \E i \in DOMAIN q : q[i] = Event(k, m)
Once(q, k) == \A i, j \in DOMAIN q : q[i].ev = k /\ q[j] = q[i] => i = j
InCustody(sq, h, q, L) ==
  /\ \A m \in L : Holds(sq, "invoke", m) \/ m \in h \/ Holds(q, "complete", m)
  /\ \A m \in h : m \in L /\ ~Holds(sq, "invoke", m) /\ ~Holds(q, "complete", m)
  /\ \A i \in DOMAIN sq : sq[i].ev = "invoke" =>
       sq[i].m \in L /\ ~Holds(q, "complete", sq[i].m)
  /\ \A i \in DOMAIN q : q[i].ev = "complete" => q[i].m \in L
  /\ Once(sq, "invoke") /\ Once(q, "complete")
  /\ \A i \in DOMAIN q : q[i].ev = "progress" =>
       q[i].m \in h \/ \E j \in DOMAIN q : j > i /\ q[j] = Event("complete", q[i].m)
Listed == {m \in messages : url[m] = "http"}
InvService == InCustody(serviceQ, held, shellQ, Listed)

(* What a frame says, and whom the frames of KprMessageComplete call. *)
Sound(f) == f.at = "progress" => (f.script => f.wrap = f.m)
InvCalls ==
  /\ \A i \in DOMAIN stack :
       /\ Sound(stack[i])
       /\ stack[i].at = "progress" => alive[stack[i].m] = "live"
       /\ stack[i].at = "complete" => stack[i].handles =
            IF request[stack[i].m] \in Message THEN request[stack[i].m] ELSE None
       /\ i < Len(stack) => request[stack[i].m] \in Message

(* A content with a pending message has its kprMessaging flag; a disposed   *)
(* one is the target of nothing but what the walk has not come to.          *)
InvContent ==
  \A m \in Message :
    /\ m \in messages /\ request[m] \in Content => messaging[request[m]]
    /\ request[m] \in gone => walk = request[m] /\ ~Completing(m)

(* A live message has references, but for one of content.wait. *)
InvKept == \A m \in Message : alive[m] = "live" /\ usage[m] = 0 => m \in WaitMessage

(* The messages of content.wait are made by nothing else. *)
InvUnused == "contentWait" \notin Script => \A w \in WaitMessage : alive[w] # "live"

(* What NoDangling, NoGoneTarget, NoLeak and OneCompletion need besides IInv. *)
Extra == InvService /\ InvCalls /\ InvContent /\ InvKept /\ InvUnused

(* Between two callbacks of the shell thread every message without        *)
(* references was freed, but for those content.wait made: whoever gave     *)
(* back the last reference called KprMessageDispose.                       *)
NoLeakButWaits ==
  Idle => \A m \in Message \ WaitMessage : alive[m] = "live" => usage[m] > 0
=============================================================================
