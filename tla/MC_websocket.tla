---------------------------- MODULE MC_websocket ----------------------------
(* Instances of KprWebSocket for TLC. *)
EXTENDS KprWebSocket
=============================================================================
