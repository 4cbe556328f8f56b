------------------------------ MODULE MC_http ------------------------------
(* Constants of the HTTP client runs.  m1 and m2 share a priority and an    *)
(* owner; m3 and m4 share another owner and a higher priority, and m4 is    *)
(* urgent.  All begin at the same server.                                   *)
EXTENDS KprHTTPClient

CONSTANTS m1, m2, m3, m4, h1, h2, o1, o2

MCUrlHost  == [m \in Message |-> h1]
MCPriority == [m \in Message |-> CASE m = m3 -> 1 [] m = m4 -> -1 [] OTHER -> 0]
MCOwner    == [m \in Message |-> IF m \in {m3, m4} THEN o2 ELSE o1]
=============================================================================
