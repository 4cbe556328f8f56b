------------------------------- MODULE MC_coap -------------------------------
(* Constants of the CoAP runs. *)
EXTENDS KprCoAP

MCPow2 == [n \in 0 .. MaxRetransmit |-> 2 ^ n]
===============================================================================
