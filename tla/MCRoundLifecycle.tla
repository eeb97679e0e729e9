-------------------------- MODULE MCRoundLifecycle --------------------------
(***************************************************************************)
(* Constants of RoundLifecycle for TLC.                                    *)
(***************************************************************************)
EXTENDS RoundLifecycle

AllFaults == FaultKinds
NoFaults == {}
AllRequests == RequestKinds
=============================================================================
