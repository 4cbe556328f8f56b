----------------------------- MODULE MC_message -----------------------------
(* Instances of KprMessage: an xkpr message whose handler may proxy an http *)
(* message, and one content that invokes.                                   *)
EXTENDS KprMessageInvariant

CONSTANTS x1, x2, h1, w1, o1

SchemeOf == [m \in Message |-> CASE m = h1 -> "http" [] m = o1 -> "other" [] OTHER -> "xkpr"]
=============================================================================
