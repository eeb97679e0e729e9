---------------------------- MODULE PointsLedger ----------------------------
(***************************************************************************)
(* What the submission pipeline promises: every user is paid the score of  *)
(* a problem at most once.                                                 *)
(***************************************************************************)
EXTENDS Naturals

CONSTANTS Users, Problems, Score

VARIABLES
    paid,    \* the <<user, problem>> pairs paid so far
    points   \* the global leaderboard

LedgerInit == paid = {} /\ points = [u \in Users |-> 0]

Award(u, p) ==
    /\ <<u, p>> \notin paid
    /\ paid' = paid \cup {<<u, p>>}
    /\ points' = [points EXCEPT ![u] = @ + Score[p]]

LedgerSpec == LedgerInit /\ [][\E u \in Users, p \in Problems : Award(u, p)]_<<paid, points>>
=============================================================================
