------------------------- MODULE SubmissionPipeline -------------------------
(***************************************************************************)
(* The path of an accepted solution: an HTTP handler of central-service    *)
(* scores and stores it and publishes it on the ingress queue, the worker  *)
(* service copies it to the egress queue, and the egress listener of       *)
(* central-service pays the points into the round's leaderboard (Redis)    *)
(* and the global leaderboard (SQL).                                       *)
(*                                                                         *)
(* Handlers interleave with each other, with the listener and with the     *)
(* worker at every database or Redis round trip.  Either service may crash *)
(* and restart; every round trip whose error the code handles may fail.    *)
(***************************************************************************)
EXTENDS Integers, FiniteSets, RedisQueue

CONSTANTS
    Handlers,    \* concurrent HTTP handlers of CreateSubmissionEndpoint
    Users,       \* the participants of the rounds
    Problems,    \* the problem set of the rounds
    Rounds,      \* the rounds, each of a room of its own
    Deletable,   \* the rounds whose room is deleted at some time
    Verdicts,    \* the verdicts a request may carry
    Payloads,    \* "valid", or "poison": rejected by ValidateIngressMessage
    Score,       \* [Problems -> Nat]: DetermineScoreForProblem
    MaxId,       \* bound: ids the two SQL sequences may hand out
    Faults,      \* the kinds of failing round trips that may happen
    MaxFaults,   \* bound: kinds of round trips that fail, once each
    MaxCrashes,  \* bound: crashes of the two services
    NoUser,      \* lbUserID = 0
    NoMsg

Accepted == "Accepted"
Ids == 1 .. MaxId

FaultKinds == {"create", "link", "publish", "recover", "consume", "egressPublish",
               "requeue", "ack", "find", "owner", "user", "existing", "verdict",
               "redis", "save"}

ASSUME IdsAssumption == MaxId \in Nat /\ MaxFaults \in Nat /\ MaxCrashes \in Nat
ASSUME ScoreAssumption == Score \in [Problems -> Nat \ {0}]
ASSUME InputAssumption ==
    /\ Accepted \in Verdicts
    /\ Payloads \subseteq {"valid", "poison"}
    /\ Faults \subseteq FaultKinds
    /\ Deletable \subseteq Rounds
ASSUME NoUserAssumption == NoUser \notin Users

VARIABLES
    roundStatus,   \* rounds.status; "deleted" once the row is gone
    dropped,       \* rounds whose Redis leaderboard deleteRoom has deleted
    rows,          \* committed round_submissions rows with their submissions row
    nextRS,        \* sequence of round_submissions.id
    nextSub,       \* sequence of submissions.id
    solved,        \* round_participants.solved_problem_count
    hpc, hreq,     \* per handler: where it is, and its request with what it read
    ingress, egress,
    wpc, wmsg,     \* worker: where its loop is, and the message it holds
    lpc, lmsg,     \* egress listener: the same,
    lscore, luser, \* and scoreToAdd and lbUserID of ProcessSubmissionData
    redisPts,      \* <round>_leaderboard of Redis, points only
    sqlPts,        \* leaderboards.total_score by user
    firstLb,       \* the user of the first leaderboards row, NoUser if none
    faults,        \* the kinds of round trips that have failed
    crashes,
    queued,        \* history: ids published on the ingress queue
    handled,       \* history: ids whose processing has ended for good
    redisPaid,     \* history: times each submission was paid in Redis
    sqlPaid        \* history: times each submission was paid in SQL

tables == <<rows, nextRS, nextSub, solved>>
ledgers == <<redisPts, sqlPts, firstLb, redisPaid, sqlPaid>>
roundVars == <<roundStatus, dropped>>
handlerVars == <<hpc, hreq>>
workerVars == <<wpc, wmsg>>
listenerVars == <<lpc, lmsg, lscore, luser>>
vars == <<roundVars, tables, handlerVars, ingress, egress, workerVars, listenerVars,
          ledgers, faults, crashes, queued, handled>>

Request == [round : Rounds, user : Users, problem : Problems, verdict : Verdicts,
            payload : Payloads, score : Nat, rsID : Ids \cup {0}]
Row == [rsID : Ids, subID : Ids, round : Rounds, user : Users, problem : Problems,
        score : Nat, verdict : Verdicts]
IngressMsg == [id : Ids, verdict : Verdicts, payload : Payloads]
EgressMsg == [id : Ids, verdict : Verdicts]

-----------------------------------------------------------------------------
(* Queries *)

\* The round_submissions half of s still exists: deleteRoom deletes these
\* rows with their round, and no row can be added to a deleted round.
Live(s) == roundStatus[s.round] # "deleted"

\* The accepted submissions of u for p, over every round whose
\* round_submissions rows still exist (the joins lose the deleted ones).
AcceptedRows(u, p) ==
    {s \in rows : Live(s) /\ s.user = u /\ s.problem = p /\ s.verdict = Accepted}

DetermineScoreDelta(u, p) == IF AcceptedRows(u, p) # {} THEN 0 ELSE Score[p]

\* Mutant: the query is gone.
ExistingAcceptedNone(u, s) == {}

\* The accepted submissions of u for the problem of s, other than s.
ExistingAccepted(u, s) == AcceptedRows(u, s.problem) \ {s}

\* The listener looks a submissions row up by the id in the message, which
\* the handler filled with the id of the round_submissions row.
FoundRows(id) == {s \in rows : s.subID = id}

\* FirstOrCreate on leaderboards: a zero UserID is no condition at all, so
\* the first row of the table is taken; in an empty table the insert breaks
\* the foreign key to users, and Save fails (NoUser).
CreditedRow(u) == IF u = NoUser THEN firstLb ELSE u

-----------------------------------------------------------------------------
Init ==
    /\ roundStatus = [d \in Rounds |-> "started"]
    /\ dropped = {}
    /\ rows = {} /\ nextRS = 1 /\ nextSub = 1
    /\ solved = [x \in Rounds \X Users |-> 0]
    /\ hpc = [h \in Handlers |-> "idle"] /\ hreq = [h \in Handlers |-> NoMsg]
    /\ ingress = EmptyQueue /\ egress = EmptyQueue
    /\ wpc = "recovering" /\ wmsg = NoMsg
    /\ lpc = "recovering" /\ lmsg = NoMsg /\ lscore = 0 /\ luser = NoUser
    /\ redisPts = [x \in Rounds \X Users |-> 0]
    /\ sqlPts = [u \in Users |-> 0]
    /\ firstLb = NoUser
    /\ faults = {} /\ crashes = 0
    /\ queued = {} /\ handled = {}
    /\ redisPaid = [i \in Ids |-> 0] /\ sqlPaid = [i \in Ids |-> 0]

\* A round trip of the given kind fails.
Fails(kind) ==
    /\ kind \in Faults \ faults
    /\ Cardinality(faults) < MaxFaults
    /\ faults' = faults \cup {kind}

-----------------------------------------------------------------------------
(* Rooms: EndRoundByRoomID or the timer, and deleteRoom.                    *)

EndRound(d) ==
    /\ lpc # "down"
    /\ roundStatus[d] = "started"
    /\ roundStatus' = [roundStatus EXCEPT ![d] = "ended"]
    /\ UNCHANGED <<dropped, tables, handlerVars, ingress, egress, workerVars,
                   listenerVars, ledgers, faults, crashes, queued, handled>>

DeleteLeaderboard(d) ==
    /\ lpc # "down"
    /\ d \in Deletable \ dropped
    /\ dropped' = dropped \cup {d}
    /\ redisPts' = [x \in Rounds \X Users |-> IF x[1] = d THEN 0 ELSE redisPts[x]]
    /\ UNCHANGED <<roundStatus, tables, handlerVars, ingress, egress, workerVars,
                   listenerVars, sqlPts, firstLb, redisPaid, sqlPaid, faults,
                   crashes, queued, handled>>

\* The round_submissions and round_participants rows of the round are deleted
\* with it; the submissions rows stay, with an owner that no longer exists.
DeleteRows(d) ==
    /\ lpc # "down"
    /\ d \in dropped /\ roundStatus[d] # "deleted"
    /\ roundStatus' = [roundStatus EXCEPT ![d] = "deleted"]
    /\ solved' = [x \in Rounds \X Users |-> IF x[1] = d THEN 0 ELSE solved[x]]
    /\ UNCHANGED <<dropped, rows, nextRS, nextSub, handlerVars, ingress, egress,
                   workerVars, listenerVars, ledgers, faults, crashes, queued, handled>>

-----------------------------------------------------------------------------
(* A handler of CreateSubmissionEndpoint: CreateRoundSubmission.            *)

\* What a handler step that touches neither the rows, the rounds nor a queue
\* leaves alone.
HandlerFrame ==
    UNCHANGED <<roundVars, egress, workerVars, listenerVars, ledgers, crashes, handled>>

HandlerDone(h) ==
    /\ hpc' = [hpc EXCEPT ![h] = "idle"]
    /\ hreq' = [hreq EXCEPT ![h] = NoMsg]

\* The round has started, the problem is in its set, the user takes part.
\* A request that fails one of these checks changes nothing.
Admit(h, d, u, p, v, k) ==
    /\ lpc # "down" /\ hpc[h] = "idle" /\ nextRS <= MaxId
    /\ roundStatus[d] = "started"
    /\ hpc' = [hpc EXCEPT ![h] = "admitted"]
    /\ hreq' = [hreq EXCEPT ![h] = [round |-> d, user |-> u, problem |-> p,
                    verdict |-> v, payload |-> k, score |-> 0, rsID |-> 0]]
    /\ HandlerFrame /\ UNCHANGED <<tables, ingress, faults, queued>>

ScoreRequest(h) ==
    /\ hpc[h] = "admitted"
    /\ hpc' = [hpc EXCEPT ![h] = "scored"]
    /\ hreq' = [hreq EXCEPT ![h].score = DetermineScoreDelta(hreq[h].user, hreq[h].problem)]
    /\ HandlerFrame /\ UNCHANGED <<tables, ingress, faults, queued>>

\* First INSERT of the transaction db.Create opens.
InsertRoundSubmission(h) ==
    /\ hpc[h] = "scored"
    /\ nextRS <= MaxId
    /\ hpc' = [hpc EXCEPT ![h] = "inserting"]
    /\ hreq' = [hreq EXCEPT ![h].rsID = nextRS]
    /\ nextRS' = nextRS + 1
    /\ HandlerFrame /\ UNCHANGED <<rows, nextSub, solved, ingress, faults, queued>>

\* Second INSERT and COMMIT.
CommitSubmission(h) ==
    /\ hpc[h] = "inserting"
    /\ nextSub <= MaxId
    /\ roundStatus[hreq[h].round] # "deleted"
    /\ hpc' = [hpc EXCEPT ![h] = "stored"]
    /\ rows' = rows \cup {[rsID |-> hreq[h].rsID, subID |-> nextSub,
                    round |-> hreq[h].round, user |-> hreq[h].user,
                    problem |-> hreq[h].problem, score |-> hreq[h].score,
                    verdict |-> hreq[h].verdict]}
    /\ nextSub' = nextSub + 1
    /\ HandlerFrame /\ UNCHANGED <<hreq, nextRS, solved, ingress, faults, queued>>

\* ROLLBACK: the round is gone (foreign key) or the database failed.  The
\* sequences do not roll back; the second one may have been advanced.
RollbackSubmission(h) ==
    /\ hpc[h] = "inserting"
    /\ \/ roundStatus[hreq[h].round] = "deleted" /\ UNCHANGED <<faults, nextSub>>
       \/ /\ Fails("create")
          /\ nextSub' \in {nextSub, nextSub + 1}
          /\ nextSub' <= MaxId + 1
    /\ HandlerDone(h)
    /\ HandlerFrame /\ UNCHANGED <<rows, nextRS, solved, ingress, queued>>

\* Association("RoundSubmissions").Append fails: the handler answers with an
\* error, but the committed rows stay and are never published.
LinkFails(h) ==
    /\ hpc[h] = "stored"
    /\ Fails("link")
    /\ HandlerDone(h)
    /\ HandlerFrame /\ UNCHANGED <<tables, ingress, queued>>

\* AddSubmissionToQueue with the id of the round_submissions row
\* (NewSubmissionIngressDTO).  A failed RPUSH is only logged; the command
\* may have reached Redis although its reply was lost.
ToIngress(h) == [id |-> hreq[h].rsID, verdict |-> hreq[h].verdict, payload |-> hreq[h].payload]

Enqueue(h) ==
    /\ hpc[h] = "stored"
    /\ \/ /\ ingress' = Publish(ingress, ToIngress(h))
          /\ queued' = queued \cup {hreq[h].rsID}
          /\ (UNCHANGED faults \/ Fails("publish"))
       \/ Fails("publish") /\ UNCHANGED <<ingress, queued>>
    /\ hpc' = [hpc EXCEPT ![h] = "queued"]
    /\ HandlerFrame /\ UNCHANGED <<tables, hreq>>

\* solved_problem_count + 1 for a first accepted submission; the participant
\* row is gone when the room was deleted.
CountSolved(h) ==
    LET r == hreq[h]
        counts == r.verdict = Accepted /\ r.score > 0 /\ roundStatus[r.round] # "deleted"
    IN  /\ hpc[h] = "queued"
        /\ solved' = IF counts THEN [solved EXCEPT ![<<r.round, r.user>>] = @ + 1] ELSE solved
        /\ HandlerDone(h)
        /\ HandlerFrame /\ UNCHANGED <<rows, nextRS, nextSub, ingress, faults, queued>>

-----------------------------------------------------------------------------
(* The worker service.                                                      *)

WorkerFrame ==
    UNCHANGED <<roundVars, tables, handlerVars, listenerVars, ledgers, crashes, queued>>

WorkerIdle == wpc' = "idle" /\ wmsg' = NoMsg

\* The recover loop; an error ends it early with messages left behind.
WorkerRecover ==
    /\ wpc = "recovering"
    /\ \/ /\ ingress.processing # <<>>
          /\ ingress' = RecoverOne(ingress)
          /\ UNCHANGED <<workerVars, faults>>
       \/ ingress.processing = <<>> /\ WorkerIdle /\ UNCHANGED <<ingress, faults>>
       \/ Fails("recover") /\ WorkerIdle /\ UNCHANGED ingress
    /\ WorkerFrame /\ UNCHANGED <<egress, handled>>

\* A message that does not validate is dropped (acked), the others go on.
WorkerConsume ==
    /\ wpc = "idle" /\ ingress.main # <<>>
    /\ ingress' = Consume(ingress)
    /\ \/ /\ wmsg' = NextOut(ingress)
          /\ IF NextOut(ingress).payload = "poison"
                THEN wpc' = "acking" /\ handled' = handled \cup {NextOut(ingress).id}
                ELSE wpc' = "publishing" /\ UNCHANGED handled
          /\ UNCHANGED faults
       \/ Fails("consume") /\ UNCHANGED <<workerVars, handled>>
    /\ WorkerFrame /\ UNCHANGED egress

ToEgress(m) == [id |-> m.id, verdict |-> m.verdict]

\* Mutant: a failed publish is acked like a successful one.
WorkerPublishAckAlways ==
    /\ wpc = "publishing"
    /\ wpc' = "acking"
    /\ \/ egress' = Publish(egress, ToEgress(wmsg)) /\ UNCHANGED faults
       \/ Fails("egressPublish") /\ UNCHANGED egress
    /\ WorkerFrame /\ UNCHANGED <<wmsg, ingress, handled>>

\* Mutant: the error check is inverted, a successful publish is requeued.
WorkerPublishInverted ==
    /\ wpc = "publishing"
    /\ egress' = Publish(egress, ToEgress(wmsg))
    /\ wpc' = "requeueing"
    /\ WorkerFrame /\ UNCHANGED <<wmsg, ingress, handled, faults>>

WorkerPublish ==
    /\ wpc = "publishing"
    /\ \/ egress' = Publish(egress, ToEgress(wmsg)) /\ wpc' = "acking" /\ UNCHANGED faults
       \/ /\ Fails("egressPublish")
          /\ egress' \in {egress, Publish(egress, ToEgress(wmsg))}
          /\ wpc' = "requeueing"
    /\ WorkerFrame /\ UNCHANGED <<wmsg, ingress, handled>>

\* When the requeue fails too the message stays in the processing list.
WorkerRequeue ==
    /\ wpc = "requeueing"
    /\ \/ ingress' = Requeue(ingress, wmsg) /\ UNCHANGED faults
       \/ Fails("requeue") /\ UNCHANGED ingress
    /\ WorkerIdle
    /\ WorkerFrame /\ UNCHANGED <<egress, handled>>

WorkerAck ==
    /\ wpc = "acking"
    /\ \/ ingress' = Ack(ingress, wmsg) /\ UNCHANGED faults
       \/ Fails("ack") /\ UNCHANGED ingress
    /\ WorkerIdle
    /\ WorkerFrame /\ UNCHANGED <<egress, handled>>

WorkerCrash ==
    /\ wpc # "down" /\ crashes < MaxCrashes
    /\ crashes' = crashes + 1
    /\ wpc' = "down" /\ wmsg' = NoMsg
    /\ UNCHANGED <<roundVars, tables, handlerVars, ingress, egress, listenerVars,
                   ledgers, faults, queued, handled>>

WorkerRestart ==
    /\ wpc = "down" /\ wpc' = "recovering"
    /\ WorkerFrame /\ UNCHANGED <<wmsg, ingress, egress, faults, handled>>

-----------------------------------------------------------------------------
(* The egress listener: ListenForSubmissionData and ProcessSubmissionData.  *)

ListenerFrame ==
    UNCHANGED <<roundVars, nextRS, nextSub, solved, handlerVars, ingress, workerVars,
                crashes, queued>>

ListenerIdle == lpc' = "idle" /\ lmsg' = NoMsg /\ lscore' = 0 /\ luser' = NoUser

ListenerRecover ==
    /\ lpc = "recovering"
    /\ \/ /\ egress.processing # <<>>
          /\ egress' = RecoverOne(egress)
          /\ UNCHANGED <<listenerVars, faults>>
       \/ egress.processing = <<>> /\ ListenerIdle /\ UNCHANGED <<egress, faults>>
       \/ Fails("recover") /\ ListenerIdle /\ UNCHANGED egress
    /\ ListenerFrame /\ UNCHANGED <<rows, ledgers, handled>>

ListenerConsume ==
    /\ lpc = "idle" /\ egress.main # <<>>
    /\ egress' = Consume(egress)
    /\ \/ lpc' = "finding" /\ lmsg' = NextOut(egress) /\ UNCHANGED faults
       \/ Fails("consume") /\ UNCHANGED <<lpc, lmsg>>
    /\ ListenerFrame /\ UNCHANGED <<rows, lscore, luser, ledgers, handled>>

\* ProcessSubmissionData has returned nil or an error that is not retried.
Settle == lpc' = "acking" /\ handled' = handled \cup {lmsg.id}
GoOn(pc) == lpc' = pc /\ UNCHANGED handled

\* The submissions row, and for an accepted one the score and the user of
\* its round_submissions row.  "find": 500.  "owner": the error is
\* swallowed and no points are due.  "user": lbUserID stays 0.
FindSubmission ==
    /\ lpc = "finding"
    /\ \/ Fails("find") /\ GoOn("requeueing") /\ UNCHANGED <<lscore, luser>>
       \/ FoundRows(lmsg.id) = {} /\ Settle /\ UNCHANGED <<lscore, luser, faults>>
       \/ \E s \in FoundRows(lmsg.id) :
             IF lmsg.verdict = Accepted /\ Live(s)
               THEN \/ Fails("owner") /\ GoOn("updating") /\ UNCHANGED <<lscore, luser>>
                    \/ /\ lscore' = s.score
                       /\ \/ luser' = s.user /\ GoOn("checking") /\ UNCHANGED faults
                          \/ Fails("user") /\ GoOn("updating") /\ UNCHANGED luser
               ELSE GoOn("updating") /\ UNCHANGED <<lscore, luser, faults>>
    /\ ListenerFrame /\ UNCHANGED <<rows, lmsg, egress, ledgers>>

\* No points when another accepted submission of the user exists.  An error
\* of the query is logged and the score kept.
CheckExisting ==
    /\ lpc = "checking"
    /\ GoOn("updating")
    /\ \E s \in FoundRows(lmsg.id) :
         \/ /\ lscore' = IF ExistingAccepted(luser, s) # {} THEN 0 ELSE lscore
            /\ UNCHANGED faults
         \/ Fails("existing") /\ UNCHANGED lscore
    /\ ListenerFrame /\ UNCHANGED <<rows, lmsg, luser, egress, ledgers>>

WithVerdict(s, v) == [s EXCEPT !.verdict = v]

UpdateVerdict ==
    /\ lpc = "updating"
    /\ \/ /\ rows' = {IF s.subID = lmsg.id THEN WithVerdict(s, lmsg.verdict) ELSE s : s \in rows}
          /\ IF lmsg.verdict = Accepted /\ lscore > 0 THEN GoOn("paying") ELSE Settle
          /\ UNCHANGED faults
       \/ Fails("verdict") /\ GoOn("requeueing") /\ UNCHANGED rows
    /\ ListenerFrame /\ UNCHANGED <<lmsg, lscore, luser, egress, ledgers>>

\* Mutant: rounds that have ended are skipped.
UpdateLeaderboardScoreOpenRounds ==
    /\ lpc = "paying"
    /\ GoOn("saving")
    /\ \E s \in FoundRows(lmsg.id) :
         IF Live(s) /\ roundStatus[s.round] = "started"
           THEN /\ redisPts' = [redisPts EXCEPT ![<<s.round, s.user>>] = @ + lscore]
                /\ redisPaid' = [redisPaid EXCEPT ![lmsg.id] = @ + 1]
           ELSE UNCHANGED <<redisPts, redisPaid>>
    /\ ListenerFrame
    /\ UNCHANGED <<rows, lmsg, lscore, luser, egress, sqlPts, firstLb, sqlPaid, faults>>

\* UpdateLeaderboardScore, skipped when the round_submissions row is gone by
\* now; an error is only logged.
UpdateLeaderboardScore ==
    /\ lpc = "paying"
    /\ GoOn("saving")
    /\ \/ \E s \in FoundRows(lmsg.id) :
            /\ Live(s)
            /\ redisPts' = [redisPts EXCEPT ![<<s.round, s.user>>] = @ + lscore]
            /\ redisPaid' = [redisPaid EXCEPT ![lmsg.id] = @ + 1]
            /\ UNCHANGED faults
       \/ /\ \A s \in FoundRows(lmsg.id) : ~ Live(s)
          /\ UNCHANGED <<redisPts, redisPaid, faults>>
       \/ Fails("redis") /\ UNCHANGED <<redisPts, redisPaid>>
    /\ ListenerFrame
    /\ UNCHANGED <<rows, lmsg, lscore, luser, egress, sqlPts, firstLb, sqlPaid>>

\* An error of Save carries no status code: the message is dropped.
SaveLeaderboard ==
    /\ lpc = "saving"
    /\ Settle
    /\ LET u == CreditedRow(luser)
       IN  \/ /\ u # NoUser
              /\ sqlPts' = [sqlPts EXCEPT ![u] = @ + lscore]
              /\ sqlPaid' = [sqlPaid EXCEPT ![lmsg.id] = @ + 1]
              /\ firstLb' = IF firstLb = NoUser THEN u ELSE firstLb
              /\ UNCHANGED faults
           \/ /\ u = NoUser
              /\ UNCHANGED <<sqlPts, sqlPaid, firstLb, faults>>
           \/ Fails("save") /\ UNCHANGED <<sqlPts, sqlPaid, firstLb>>
    /\ ListenerFrame /\ UNCHANGED <<rows, lmsg, lscore, luser, egress, redisPts, redisPaid>>

ListenerRequeue ==
    /\ lpc = "requeueing"
    /\ \/ egress' = Requeue(egress, lmsg) /\ UNCHANGED faults
       \/ Fails("requeue") /\ UNCHANGED egress
    /\ ListenerIdle
    /\ ListenerFrame /\ UNCHANGED <<rows, ledgers, handled>>

ListenerAck ==
    /\ lpc = "acking"
    /\ \/ egress' = Ack(egress, lmsg) /\ UNCHANGED faults
       \/ Fails("ack") /\ UNCHANGED egress
    /\ ListenerIdle
    /\ ListenerFrame /\ UNCHANGED <<rows, ledgers, handled>>

\* central-service dies: its handlers and the listener with it.
CentralCrash ==
    /\ lpc # "down" /\ crashes < MaxCrashes
    /\ crashes' = crashes + 1
    /\ lpc' = "down" /\ lmsg' = NoMsg /\ lscore' = 0 /\ luser' = NoUser
    /\ hpc' = [h \in Handlers |-> "idle"] /\ hreq' = [h \in Handlers |-> NoMsg]
    /\ UNCHANGED <<roundVars, tables, ingress, egress, workerVars, ledgers, faults,
                   queued, handled>>

CentralRestart ==
    /\ lpc = "down" /\ lpc' = "recovering"
    /\ ListenerFrame
    /\ UNCHANGED <<rows, lmsg, lscore, luser, egress, ledgers, faults, handled>>

-----------------------------------------------------------------------------
RoundStep == \E d \in Rounds : EndRound(d) \/ DeleteLeaderboard(d) \/ DeleteRows(d)

HandlerStep(h) ==
    \/ \E d \in Rounds, u \in Users, p \in Problems, v \in Verdicts, k \in Payloads :
          Admit(h, d, u, p, v, k)
    \/ ScoreRequest(h) \/ InsertRoundSubmission(h) \/ CommitSubmission(h)
    \/ RollbackSubmission(h) \/ LinkFails(h) \/ Enqueue(h) \/ CountSolved(h)

WorkerStep ==
    \/ WorkerRecover \/ WorkerConsume \/ WorkerPublish \/ WorkerRequeue \/ WorkerAck

ListenerStep ==
    \/ ListenerRecover \/ ListenerConsume \/ FindSubmission \/ CheckExisting
    \/ UpdateVerdict \/ UpdateLeaderboardScore \/ SaveLeaderboard
    \/ ListenerRequeue \/ ListenerAck \/ CentralRestart

Next ==
    \/ RoundStep
    \/ \E h \in Handlers : HandlerStep(h)
    \/ WorkerStep \/ WorkerCrash \/ WorkerRestart
    \/ ListenerStep \/ CentralCrash

Spec == Init /\ [][Next]_vars

\* Both loops run for ever.  docker-compose restarts central-service (restart:
\* on-failure); it has no restart policy for the worker, so WorkerRestart is
\* somebody's decision and not fair.
FairSpec == Spec /\ WF_vars(WorkerStep) /\ WF_vars(ListenerStep)

-----------------------------------------------------------------------------
(* Properties *)

TablesOK ==
    /\ roundStatus \in [Rounds -> {"started", "ended", "deleted"}]
    /\ dropped \subseteq Rounds
    /\ rows \subseteq Row
    /\ nextRS \in 1 .. MaxId + 1 /\ nextSub \in 1 .. MaxId + 1
    /\ solved \in [Rounds \X Users -> Nat]

HandlersOK ==
    /\ hpc \in [Handlers -> {"idle", "admitted", "scored", "inserting", "stored", "queued"}]
    /\ hreq \in [Handlers -> Request \cup {NoMsg}]
    /\ \A h \in Handlers :
         /\ hpc[h] # "idle" => hreq[h] \in Request
         /\ hpc[h] \in {"inserting", "stored", "queued"} => hreq[h].rsID \in Ids

ConsumersOK ==
    /\ ingress \in QueueOf(IngressMsg) /\ egress \in QueueOf(EgressMsg)
    /\ wpc \in {"down", "recovering", "idle", "publishing", "requeueing", "acking"}
    /\ wpc \in {"publishing", "requeueing", "acking"} => wmsg \in IngressMsg
    /\ lpc \in {"down", "recovering", "idle", "finding", "checking", "updating",
                 "paying", "saving", "requeueing", "acking"}
    /\ lpc \notin {"down", "recovering", "idle"} => lmsg \in EgressMsg
    /\ lscore \in Nat /\ luser \in Users \cup {NoUser}

LedgersOK ==
    /\ redisPts \in [Rounds \X Users -> Nat]
    /\ sqlPts \in [Users -> Nat]
    /\ firstLb \in Users \cup {NoUser}
    /\ redisPaid \in [Ids -> Nat] /\ sqlPaid \in [Ids -> Nat]
    /\ faults \subseteq FaultKinds /\ crashes \in 0 .. MaxCrashes
    /\ queued \subseteq Ids /\ handled \subseteq Ids

\* The type invariant: what every variable holds, and that a handler, the
\* worker or the listener past its first step has a request or a message.
TypeOK == TablesOK /\ HandlersOK /\ ConsumersOK /\ LedgersOK

\* The ids still on their way through the two queues.
InFlight == {m.id : m \in Held(ingress) \cup Held(egress)}

\* Durability: a submission the ingress queue has taken is never lost.  Until
\* its processing has ended for good it is in one of the four lists, whatever
\* crashes, lost replies and failed acks or requeues happen in between.
NoSubmissionLost == queued \subseteq handled \cup InFlight

\* What a consumer holds is still in its processing list, so that a crash at
\* any point leaves it for the recovery of the next start.
HeldIsParked ==
    /\ wpc \in {"publishing", "requeueing", "acking"} => wmsg \in ToSet(ingress.processing)
    /\ lpc \notin {"down", "recovering", "idle"} => lmsg \in ToSet(egress.processing)

\* An ack never removes the last trace of a submission: the worker acks only
\* what it has passed on or dropped, the listener what it has dealt with.
AckAfterEffect ==
    /\ wpc = "acking" => wmsg.id \in handled \cup {m.id : m \in Held(egress)}
    /\ lpc = "acking" => lmsg.id \in handled

\* Why no submission is lost (the inductive invariant behind NoSubmissionLost):
\* at every moment a crash may come, the message a consumer works on is still
\* in its processing list, and an ack is only on its way for a submission that
\* has been passed on or dealt with.
DurabilityInv == TypeOK /\ NoSubmissionLost /\ HeldIsParked /\ AckAfterEffect

\* Redelivery: a submission is paid at most once more for every crash and
\* every failed round trip; without them, exactly-once at most.
PaidBounded ==
    \A i \in Ids : \A n \in {redisPaid[i], sqlPaid[i]} : n <= 1 + Cardinality(faults) + crashes

\* The round's leaderboard is paid first: while the round exists, a crash, or
\* a failure anywhere but in that payment, leaves the global leaderboard
\* behind, never ahead.  (A room deleted between the two is paid in SQL only.)
GlobalNeverAhead ==
    "redis" \notin faults =>
        \A s \in rows : Live(s) => sqlPaid[s.subID] <= redisPaid[s.subID]

\* The failures the two loops get over without a restart: a message is put
\* back, or its ack is left out.  After the others (the lost reply of the
\* blocking move, a failed requeue, a recovery cut short) it waits in the
\* processing list for the next start.
Retried == {"find", "verdict", "egressPublish", "ack"}

\* Every submission the ingress queue has taken is dealt with in the end,
\* unless a failure parks it until a restart; provided that a worker that died
\* does not stay down for ever.
EventuallyHandled ==
    []<>(wpc # "down") =>
        \A i \in Ids : i \in queued ~> i \in handled \/ ~ (faults \subseteq Retried)

\* The pairs the global leaderboard has been paid for.
PaidPairs == {<<s.user, s.problem>> : s \in {t \in rows : sqlPaid[t.subID] > 0}}

Ledger == INSTANCE PointsLedger WITH paid <- PaidPairs, points <- sqlPts

\* The pipeline implements the ledger: however handlers, worker and listener
\* interleave, each step of the global leaderboard pays one problem to one
\* user for the first time, with the score of that problem.
RefinesLedger == Ledger!LedgerSpec

=============================================================================
