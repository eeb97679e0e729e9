-------------------------- MODULE MCRoomMembership --------------------------
(***************************************************************************)
(* Constants of RoomMembership for TLC.                                    *)
(***************************************************************************)
EXTENDS RoomMembership

AllFaults == FaultKinds
=============================================================================
