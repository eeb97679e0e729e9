------------------------ MODULE MCSubmissionPipeline ------------------------
(***************************************************************************)
(* Constants of SubmissionPipeline for TLC.                                *)
(***************************************************************************)
EXTENDS SubmissionPipeline

MCScore == [p \in Problems |-> 3]
AllFaults == FaultKinds
\* Faults after which no submission is delivered twice and none escapes the
\* query for earlier solutions.
SingleDeliveryFaults == {"link", "find", "verdict", "save"}
=============================================================================
