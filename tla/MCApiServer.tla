---------------------------- MODULE MCApiServer ----------------------------
(***************************************************************************)
(* Constants of ApiServer for TLC.                                         *)
(***************************************************************************)
EXTENDS ApiServer

\* One route of each kind: the other forwarded routes and the pages behave alike.
KindsOfRoutes ==
    (AuthRoutes \ AnsweredRoutes) \cup {"user", "rooms/join", "submission"}
SmallBurst == [l \in Limiters |-> 1]
=============================================================================
