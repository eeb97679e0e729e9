---------------------------- MODULE MCRtcService ----------------------------
(***************************************************************************)
(* Constants of RtcService for TLC: central-service, panels of the user    *)
(* "a", and b1, the background script of the user "b".                     *)
(***************************************************************************)
EXTENDS RtcService

CONSTANTS central, a1, b1

PanelUsers == {"a", "b"}
Owners == [c \in Conns |-> CASE c = central -> "central-service" [] c = b1 -> "b" [] OTHER -> "a"]

AllRequests == RequestTypes

\* One request of each kind: the others are answered and broadcast like these.
KindsOfRequests == {"join-room", "leave-room", "chat-message", "round-start", "room-expired"}
=============================================================================
