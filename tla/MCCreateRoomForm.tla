-------------------------- MODULE MCCreateRoomForm --------------------------
(***************************************************************************)
(* Constants of CreateRoomForm for TLC.                                    *)
(***************************************************************************)
EXTENDS CreateRoomForm

\* One problem of every difficulty and one more, fewer for each filter.
SmallPool(k) ==
    LET levels == IF k.difficulties = {} THEN 3 ELSE Cardinality(k.difficulties)
        less == Cardinality(k.topics) + Cardinality(k.companies) + Cardinality(k.flags)
                  + (IF k.recent THEN 1 ELSE 0)
    IN  IF levels + 1 > less THEN levels + 1 - less ELSE 0
=============================================================================
