---------------------------- MODULE MCRoomPanel ----------------------------
(***************************************************************************)
(* Constants of RoomPanel for TLC.                                         *)
(***************************************************************************)
EXTENDS RoomPanel

OneRoom == {1}
TwoRooms == {1, 2}
NoneOrOne == {0, 1}
TwoProblems == {1, 2}
=============================================================================
