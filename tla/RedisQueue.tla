----------------------------- MODULE RedisQueue -----------------------------
(***************************************************************************)
(* The reliable queue both services build from two Redis lists             *)
(* (central-service/queue/redis_queue.go and its copy                      *)
(* worker-service/redis_queue.go).  A queue value is a record of the two   *)
(* lists: main, the published messages in order, and processing, the       *)
(* messages handed to the consumer and not yet acknowledged.  Every        *)
(* operator is one atomic Redis command (or MULTI/EXEC transaction).       *)
(***************************************************************************)
EXTENDS Naturals, Sequences, SequencesExt

EmptyQueue == [main |-> <<>>, processing |-> <<>>]

QueueOf(M) == [main : Seq(M), processing : Seq(M)]

\* RPUSH main payload
Publish(q, m) == [main |-> Append(q.main, m), processing |-> q.processing]

\* BLMOVE main processing LEFT RIGHT; the message handed out is NextOut.
NextOut(q) == Head(q.main)

Consume(q) == [main |-> Tail(q.main), processing |-> Append(q.processing, Head(q.main))]

\* LREM processing 1 payload
Ack(q, m) == [main |-> q.main, processing |-> RemoveFirst(q.processing, m)]

\* Mutant: the payload is removed and not pushed again.
RequeueDrop(q, m) == [q EXCEPT !.processing = RemoveFirst(@, m)]

\* MULTI; LREM processing 1 payload; RPUSH main payload; EXEC
Requeue(q, m) == [main |-> Append(q.main, m), processing |-> RemoveFirst(q.processing, m)]

\* Mutant: LPOP processing, without the push.
RecoverOnePop(q) == [q EXCEPT !.processing = Tail(@)]

\* One turn of the Recover loop: LMOVE processing main LEFT RIGHT
RecoverOne(q) == [main |-> Append(q.main, Head(q.processing)), processing |-> Tail(q.processing)]

\* The messages the queue still holds, handed out or not.
Held(q) == ToSet(q.main) \cup ToSet(q.processing)
=============================================================================
