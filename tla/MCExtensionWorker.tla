------------------------- MODULE MCExtensionWorker -------------------------
(***************************************************************************)
(* Constants of ExtensionWorker for TLC.                                   *)
(***************************************************************************)
EXTENDS ExtensionWorker

\* Names the panel gives to two rounds.
TwoRounds == {"k1", "k2"}
=============================================================================
