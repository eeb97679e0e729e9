--------------------------- MODULE RoundLifecycle ---------------------------
(***************************************************************************)
(* The rounds of one room of central-service (services/round.go and the    *)
(* round operations of services/room.go): creating, editing, starting and  *)
(* ending a round, and joining a room while a round is played.             *)
(*                                                                         *)
(* Handlers and end-of-round tasks interleave at every round trip.  They   *)
(* share one RoundService, whose field db is the connection pool, except   *)
(* while InitiateRoundStart has put its transaction there: whatever any    *)
(* process then does through RoundService is done in that transaction,     *)
(* is rolled back with it, and fails once the transaction has ended.       *)
(***************************************************************************)
EXTENDS Integers, FiniteSets, Sequences, SequencesExt

CONSTANTS
    Handlers,    \* concurrent HTTP handlers
    Users,
    Durations,   \* the durations a round may be given
    Limit,       \* MaxNumRoundsPerRoom
    MaxRounds,   \* bound: ids of rounds
    Requests,    \* the kinds of requests that are made
    Faults,      \* the kinds of failing round trips that may happen
    MaxFaults,   \* bound: kinds of round trips that fail, once each
    MaxCrashes   \* bound: crashes of central-service

RoundIds == 1 .. MaxRounds
RequestKinds == {"create", "start", "end", "duration", "join", "leave"}
FaultKinds == {"generate", "recent", "update", "begin", "row", "commit", "schedule", "task", "rtc",
               "single"}

ASSUME HandlersAssumption == Handlers \cap {"pool", "dead"} = {}
ASSUME DurationsAssumption == Durations # {}
ASSUME BoundsAssumption ==
    /\ Limit \in Nat \ {0} /\ MaxRounds \in Nat \ {0}
    /\ MaxFaults \in Nat /\ MaxCrashes \in Nat
ASSUME InputAssumption == Requests \subseteq RequestKinds /\ Faults \subseteq FaultKinds

VARIABLES
    db,          \* the committed rows: status, filled, dur and parts of each round
    nextRound,   \* sequence of rounds.id
    present,     \* <room>_joinTimestamp in Redis: the members of the room
    rtc,         \* the Round that rtc-service keeps for the room
    timers,      \* number of tasks in the scheduler, by round and interval
    tpc,         \* per round: a task of it has ended it and tells rtc-service
    handle,      \* RoundService.db: "pool", the handler whose transaction it
                 \* is, or "dead": a transaction that has ended
    pend,        \* per handler: the writes of its open transaction
    pc, req,     \* per handler: where it is, and its request with what it read
    faults, crashes,
    overlapped   \* history: two transactions of InitiateRoundStart overlapped

tasks == <<timers, tpc>>
vars == <<db, nextRound, present, rtc, tasks, handle, pend, pc, req, faults, crashes,
          overlapped>>

AnyDur == CHOOSE x \in Durations : TRUE
AnyUser == CHOOSE u \in Users : TRUE

\* todo: the activeRoomParticipants without a row yet; user: who joins; tx:
\* the transaction the closure was given; saved: oldDBConnection; mark: the
\* writes before the savepoint of a nested transaction.
Blank == [round |-> 0, dur |-> AnyDur, todo |-> {}, user |-> AnyUser, tx |-> "pool",
          saved |-> "pool", mark |-> 0]

-----------------------------------------------------------------------------
(* SQL *)

\* One statement; an UPDATE of a row that is not there changes nothing.
Apply(t, w) ==
    CASE w.op = "insert" ->
            [t EXCEPT !.status[w.round] = "created", !.dur[w.round] = w.val]
      [] w.op = "fill" -> [t EXCEPT !.filled[w.round] = TRUE]
      [] w.op = "status" ->
            IF t.status[w.round] = "none" THEN t ELSE [t EXCEPT !.status[w.round] = w.val]
      [] w.op = "dur" ->
            IF t.status[w.round] = "none" THEN t ELSE [t EXCEPT !.dur[w.round] = w.val]
      [] w.op = "part" -> [t EXCEPT !.parts[w.round] = @ \cup {w.val}]

\* The writes of a transaction to row d by one of the operations ops.
To(ws, d, ops) == {i \in DOMAIN ws : ws[i].round = d /\ ws[i].op \in ops}

\* Those that find the row, which is in t or was inserted before.
Found(t, ws, d, op) ==
    {i \in To(ws, d, {"insert", op}) :
        t.status[d] # "none" \/ \E j \in To(ws, d, {"insert"}) : j <= i}

\* The rows t after the writes ws: the last one of a field stands.
Written(t, ws) ==
    [status |-> [d \in RoundIds |->
                   LET at == Found(t, ws, d, "status")
                   IN  IF at = {} THEN t.status[d]
                       ELSE IF ws[Max(at)].op = "insert" THEN "created" ELSE ws[Max(at)].val],
     filled |-> [d \in RoundIds |-> t.filled[d] \/ To(ws, d, {"fill"}) # {}],
     dur |-> [d \in RoundIds |->
                LET at == Found(t, ws, d, "dur") IN IF at = {} THEN t.dur[d] ELSE ws[Max(at)].val],
     parts |-> [d \in RoundIds |-> t.parts[d] \cup {ws[i].val : i \in To(ws, d, {"part"})}]]

\* What a statement sees on the pool, or in a transaction.
View(conn) == IF conn = "pool" THEN db ELSE Written(db, pend[conn])

\* A transaction other than conn has inserted row d, or locks it by an UPDATE.
Locked(conn, d) ==
    \E h \in Handlers \ {conn} : \E i \in DOMAIN pend[h] :
        pend[h][i].round = d /\ pend[h][i].op \in {"insert", "status", "dur"}

\* An UPDATE waits for the lock.  A write that a transaction has made before
\* and that changes nothing is not recorded again.
ExecOn(conn, w) ==
    /\ w.op \in {"status", "dur"} => ~Locked(conn, w.round)
    /\ IF conn = "pool"
         THEN db' = Apply(db, w) /\ UNCHANGED pend
         ELSE /\ pend' = IF Contains(pend[conn], w) /\ Apply(View(conn), w) = View(conn)
                           THEN pend ELSE [pend EXCEPT ![conn] = Append(@, w)]
              /\ UNCHANGED db

\* Bound: requests to start or edit a round arrive while no open transaction
\* has changed it.  Without it any number of them could find it still
\* CREATED and add their writes to the transaction.
Quiet(d) == ~Locked("pool", d)

\* A statement of RoundService.
Exec(w) == handle # "dead" /\ ExecOn(handle, w)

\* sql: transaction has already been committed or rolled back
Dead == handle = "dead" /\ UNCHANGED <<db, pend>>

\* A round trip of the given kind fails.
Fails(kind) ==
    /\ kind \in Faults \ faults
    /\ Cardinality(faults) < MaxFaults
    /\ faults' = faults \cup {kind}

\* Statement w of RoundService reports an error: it has not been executed, or
\* its reply is lost.  (In the transaction of somebody else it would abort that
\* transaction too; that is left out.)
Breaks(kind, w) ==
    /\ Fails(kind) /\ handle = "pool"
    /\ Exec(w) \/ UNCHANGED <<db, pend>>

Goto(h, l) == pc' = [pc EXCEPT ![h] = l] /\ UNCHANGED req
Return(h) == pc' = [pc EXCEPT ![h] = "idle"] /\ req' = [req EXCEPT ![h] = Blank]
Begin(h, kind, l, r) ==
    /\ kind \in Requests /\ pc[h] = "idle"
    /\ pc' = [pc EXCEPT ![h] = l]
    /\ req' = [req EXCEPT ![h] = r]
At(h, l) == pc[h] = l

Init ==
    /\ db = [status |-> [d \in RoundIds |-> IF d = 1 THEN "created" ELSE "none"],
             filled |-> [d \in RoundIds |-> d = 1],
             dur |-> [d \in RoundIds |-> AnyDur],
             parts |-> [d \in RoundIds |-> {}]]
    /\ nextRound = 2
    /\ present \in SUBSET Users \ {{}}
    /\ rtc = [round |-> 0, status |-> "not-started"]
    /\ timers = [x \in RoundIds \X Durations |-> 0]
    /\ tpc = [d \in RoundIds |-> "idle"]
    /\ handle = "pool" /\ pend = [h \in Handlers |-> <<>>]
    /\ pc = [h \in Handlers |-> "idle"] /\ req = [h \in Handlers |-> Blank]
    /\ faults = {} /\ crashes = 0 /\ overlapped = FALSE

-----------------------------------------------------------------------------
(* CreateRound.  The failure of a room's first round is RoomMembership's.   *)

Unfinished(t) == {d \in RoundIds : t.status[d] \in {"created", "started"}}

\* FindRoomByID and CheckRoundLimitExceeded, with RoomService.db.
CreateFind(h) ==
    /\ nextRound + Cardinality({g \in Handlers : At(g, "insert")}) \in RoundIds
    /\ Cardinality(Unfinished(db)) < Limit
    /\ \E x \in Durations : Begin(h, "create", "insert", [Blank EXCEPT !.dur = x])
    /\ UNCHANGED <<db, nextRound, present, rtc, tasks, handle, pend, faults, crashes, overlapped>>

CreateInsert(h) ==
    LET insert == [op |-> "insert", round |-> nextRound, val |-> req[h].dur]
    IN  /\ At(h, "insert")
        /\ \/ /\ Exec(insert)
              /\ nextRound' = nextRound + 1
              /\ pc' = [pc EXCEPT ![h] = "fill"]
              /\ req' = [req EXCEPT ![h].round = nextRound]
              /\ UNCHANGED faults
           \/ Dead /\ Return(h) /\ UNCHANGED <<nextRound, faults>>
           \/ Breaks("single", insert) /\ nextRound' = nextRound + 1 /\ Return(h)
        /\ UNCHANGED <<present, rtc, tasks, handle, crashes, overlapped>>

\* The problem set is generated and stored.  With too few problems, or when
\* the row is not visible, the error leaves the row behind without problems.
\* If the key <room>_mostRecentRound cannot be set, a complete round is left.
CreateFill(h) ==
    /\ At(h, "fill")
    /\ LET d == req[h].round IN
       \/ /\ handle # "dead" /\ View(handle).status[d] # "none"
          /\ Exec([op |-> "fill", round |-> d, val |-> TRUE])
          /\ \/ Goto(h, "append") /\ UNCHANGED faults
             \/ Fails("recent") /\ Return(h)
       \/ /\ handle # "dead" /\ View(handle).status[d] = "none"
          /\ Return(h) /\ UNCHANGED <<db, pend, faults>>
       \/ Dead /\ Return(h) /\ UNCHANGED faults
       \/ Fails("generate") /\ Return(h) /\ UNCHANGED <<db, pend>>
    /\ UNCHANGED <<nextRound, present, rtc, tasks, handle, crashes, overlapped>>

\* Append upserts the row with RoomService.db: it waits for a transaction
\* that has inserted the row, and inserts it if that was rolled back.
CreateAppend(h) ==
    /\ At(h, "append") /\ ~Locked("pool", req[h].round)
    /\ LET d == req[h].round IN
       \/ /\ db.status[d] = "none" /\ UNCHANGED faults
          /\ ExecOn("pool", [op |-> "insert", round |-> d, val |-> req[h].dur])
       \/ db.status[d] # "none" /\ UNCHANGED <<db, pend, faults>>
       \/ Fails("single") /\ UNCHANGED <<db, pend>>
    /\ Return(h)
    /\ UNCHANGED <<nextRound, present, rtc, tasks, handle, crashes, overlapped>>

-----------------------------------------------------------------------------
(* SetRoundDurationByRoomID *)

DurationFind(h) ==
    /\ \E d \in RoundIds, x \in Durations :
          /\ db.status[d] = "created" /\ Quiet(d)
          /\ Begin(h, "duration", "duration", [Blank EXCEPT !.round = d, !.dur = x])
    /\ UNCHANGED <<db, nextRound, present, rtc, tasks, handle, pend, faults, crashes, overlapped>>

UpdateRoundDuration(h) ==
    /\ At(h, "duration")
    /\ LET write == [op |-> "dur", round |-> req[h].round, val |-> req[h].dur]
       IN  \/ (Exec(write) \/ Dead) /\ UNCHANGED faults
           \/ Breaks("single", write)
    /\ Return(h)
    /\ UNCHANGED <<nextRound, present, rtc, tasks, handle, crashes, overlapped>>

-----------------------------------------------------------------------------
(* StartRoundByRoomID and InitiateRoundStart *)

\* The first round of the query that is in state CREATED; the query has no
\* order, so it may be any of them.
StartFind(h) ==
    /\ \E d \in RoundIds :
          /\ db.status[d] = "created" /\ Quiet(d)
          /\ Begin(h, "start", "users", [Blank EXCEPT !.round = d, !.dur = db.dur[d]])
    /\ UNCHANGED <<db, nextRound, present, rtc, tasks, handle, pend, faults, crashes, overlapped>>

StartUsers(h) ==
    /\ At(h, "users")
    /\ \/ /\ pc' = [pc EXCEPT ![h] = "problems"]
          /\ req' = [req EXCEPT ![h].todo = present]
          /\ UNCHANGED faults
       \/ Fails("single") /\ Return(h)
    /\ UNCHANGED <<db, nextRound, present, rtc, tasks, handle, pend, crashes, overlapped>>

\* A round without problems is refused.
StartProblems(h) ==
    /\ At(h, "problems")
    /\ \/ /\ IF handle # "dead" /\ View(handle).filled[req[h].round]
               THEN Goto(h, "update") ELSE Return(h)
          /\ UNCHANGED faults
       \/ Fails("single") /\ handle = "pool" /\ Return(h)
    /\ UNCHANGED <<db, nextRound, present, rtc, tasks, handle, pend, crashes, overlapped>>

\* The status that was read is not a condition of the UPDATE.
StartUpdate(h) ==
    /\ At(h, "update")
    /\ LET write == [op |-> "status", round |-> req[h].round, val |-> "started"] IN
       \/ Exec(write) /\ Goto(h, "rtc") /\ UNCHANGED faults
       \/ Dead /\ Return(h) /\ UNCHANGED faults
       \/ Breaks("update", write) /\ Return(h)
    /\ UNCHANGED <<nextRound, present, rtc, tasks, handle, crashes, overlapped>>

\* rtc-service replaces its round; a failure is only logged.
StartRtc(h) ==
    /\ At(h, "rtc")
    /\ \/ /\ rtc' = [round |-> req[h].round, status |-> "in-progress"]
          /\ UNCHANGED faults
       \/ Fails("rtc") /\ UNCHANGED rtc
    /\ Goto(h, "begin")
    /\ UNCHANGED <<db, nextRound, present, tasks, handle, pend, crashes, overlapped>>

InTransaction(h) == pc[h] \in {"swap", "rows", "restore", "commit", "undo", "rollback"}

\* service.db.Transaction: BEGIN on the pool, SAVEPOINT in a transaction.
StartBegin(h) ==
    /\ At(h, "begin")
    /\ \/ /\ handle # "dead"
          /\ pc' = [pc EXCEPT ![h] = "swap"]
          /\ req' = [req EXCEPT ![h].tx = IF handle = "pool" THEN h ELSE handle,
                                ![h].mark = IF handle = "pool" THEN 0 ELSE Len(pend[handle])]
          /\ overlapped' = (overlapped \/ \E g \in Handlers \ {h} : InTransaction(g))
          /\ UNCHANGED faults
       \/ handle = "dead" /\ Return(h) /\ UNCHANGED <<faults, overlapped>>
       \/ Fails("begin") /\ Return(h) /\ UNCHANGED overlapped
    /\ UNCHANGED <<db, nextRound, present, rtc, tasks, handle, pend, crashes>>

\* oldDBConnection := service.db; SetDBConnection(tx)
StartSwap(h) ==
    /\ At(h, "swap")
    /\ handle' = req[h].tx
    /\ pc' = [pc EXCEPT ![h] = "rows"]
    /\ req' = [req EXCEPT ![h].saved = handle]
    /\ UNCHANGED <<db, nextRound, present, rtc, tasks, pend, faults, crashes, overlapped>>

\* CreateRoundParticipant, through whatever service.db is by now, and
\* addLeaderboardMember for one user.
StartRow(h) ==
    /\ At(h, "rows")
    /\ \E u \in req[h].todo :
          \/ /\ Exec([op |-> "part", round |-> req[h].round, val |-> u])
             /\ pc' = [pc EXCEPT ![h] = IF req[h].todo = {u} THEN "restore" ELSE "rows"]
             /\ req' = [req EXCEPT ![h].todo = @ \ {u}]
             /\ UNCHANGED faults
          \/ Dead /\ Goto(h, "undo") /\ UNCHANGED faults
          \/ Fails("row") /\ Goto(h, "undo") /\ UNCHANGED <<db, pend>>
    /\ UNCHANGED <<nextRound, present, rtc, tasks, handle, crashes, overlapped>>

\* Mutant: the error path forgets the connection.
StartRestoreOnSuccess(h) ==
    /\ pc[h] \in {"restore", "undo"}
    /\ handle' = IF pc[h] = "restore" THEN req[h].saved ELSE handle
    /\ Goto(h, IF pc[h] = "restore" THEN "commit" ELSE "rollback")
    /\ UNCHANGED <<db, nextRound, present, rtc, tasks, pend, faults, crashes, overlapped>>

\* SetDBConnection(oldDBConnection), after the loop or on an error in it.
StartRestore(h) ==
    /\ pc[h] \in {"restore", "undo"}
    /\ handle' = req[h].saved
    /\ pc' = [pc EXCEPT ![h] = IF @ = "restore" THEN "commit" ELSE "rollback"]
    /\ req' = [req EXCEPT ![h].saved = "pool", ![h].todo = {}]
    /\ UNCHANGED <<db, nextRound, present, rtc, tasks, pend, faults, crashes, overlapped>>

\* conn, wherever it is kept, once transaction h has ended.
After(h, conn) == IF conn = h THEN "dead" ELSE conn

\* Transaction h ends: nobody can use it any more.
EndTransaction(h, l, after) ==
    /\ pend' = [pend EXCEPT ![h] = <<>>]
    /\ handle' = After(h, handle)
    /\ pc' = [pc EXCEPT ![h] = l]
    /\ req' = [g \in Handlers |->
                 IF g = h THEN after
                 ELSE [req[g] EXCEPT !.tx = After(h, @), !.saved = After(h, @)]]

\* A nested transaction has nothing to commit.  When COMMIT reports an error the
\* writes are lost, or only its reply is; the start ends without a task.
StartCommit(h) ==
    /\ At(h, "commit")
    /\ \/ /\ req[h].tx = h /\ db' = View(h) /\ UNCHANGED faults
          /\ EndTransaction(h, "timer", [req[h] EXCEPT !.tx = "pool"])
       \/ /\ req[h].tx = h /\ db' \in {db, View(h)} /\ Fails("commit")
          /\ EndTransaction(h, "idle", Blank)
       \/ /\ req[h].tx # h /\ UNCHANGED <<db, pend, handle, faults>>
          /\ pc' = [pc EXCEPT ![h] = "timer"]
          /\ req' = [req EXCEPT ![h].tx = "pool", ![h].mark = 0]
    /\ UNCHANGED <<nextRound, present, rtc, tasks, crashes, overlapped>>

\* ROLLBACK, or ROLLBACK TO SAVEPOINT of a nested transaction; the round
\* stays started, and has no end-of-round task.
StartRollback(h) ==
    /\ At(h, "rollback")
    /\ \/ req[h].tx = h /\ EndTransaction(h, "idle", Blank)
       \/ /\ req[h].tx \in Handlers \ {h}
          /\ pend' = [pend EXCEPT ![req[h].tx] = SubSeq(@, 1, Min({Len(@), req[h].mark}))]
          /\ Return(h) /\ UNCHANGED handle
       \/ req[h].tx = "dead" /\ Return(h) /\ UNCHANGED <<pend, handle>>
    /\ UNCHANGED <<db, nextRound, present, rtc, tasks, faults, crashes, overlapped>>

\* The interval is the duration that was read with the room.  When the
\* scheduler refuses the task, the round stays started without one.
StartTimer(h) ==
    /\ At(h, "timer")
    /\ \/ /\ timers' = [timers EXCEPT ![<<req[h].round, req[h].dur>>] = @ + 1]
          /\ UNCHANGED faults
       \/ Fails("schedule") /\ UNCHANGED timers
    /\ Return(h)
    /\ UNCHANGED <<db, nextRound, present, rtc, tpc, handle, pend, crashes, overlapped>>

-----------------------------------------------------------------------------
(* EndRoundByRoomID, and the task of InitiateRoundStart *)

EndFind(h) ==
    /\ \E d \in RoundIds :
          /\ db.status[d] = "started"
          /\ Begin(h, "end", "end", [Blank EXCEPT !.round = d])
    /\ UNCHANGED <<db, nextRound, present, rtc, tasks, handle, pend, faults, crashes, overlapped>>

\* With RoomService.db, which nobody replaces.
EndUpdate(h) ==
    /\ At(h, "end")
    /\ LET write == [op |-> "status", round |-> req[h].round, val |-> "ended"] IN
       \/ ExecOn("pool", write) /\ Goto(h, "endRtc") /\ UNCHANGED faults
       \/ Fails("single") /\ Return(h) /\ (ExecOn("pool", write) \/ UNCHANGED <<db, pend>>)
    /\ UNCHANGED <<nextRound, present, rtc, tasks, handle, crashes, overlapped>>

\* Room.EndRound of rtc-service: the message names the room, so whatever
\* round rtc-service has is marked ended.  A failure is logged.
RtcEnd ==
    \/ /\ rtc' = IF rtc.round = 0 THEN rtc ELSE [rtc EXCEPT !.status = "ended"]
       /\ UNCHANGED faults
    \/ Fails("rtc") /\ UNCHANGED rtc

EndRtc(h) ==
    /\ At(h, "endRtc") /\ RtcEnd /\ Return(h)
    /\ UNCHANGED <<db, nextRound, present, tasks, handle, pend, crashes, overlapped>>

\* The only run of a task of round d is used up.
Due(d) ==
    /\ tpc[d] = "idle"
    /\ \E x \in Durations :
          /\ timers[<<d, x>>] > 0
          /\ timers' = [timers EXCEPT ![<<d, x>>] = @ - 1]

\* Mutant: the task tells rtc-service and forgets the row.
TimerEndTellsOnly(d) ==
    /\ Due(d)
    /\ tpc' = [tpc EXCEPT ![d] = "tell"]
    /\ UNCHANGED <<db, pend, nextRound, present, rtc, handle, pc, req, faults, crashes, overlapped>>

\* Mutant: a round that has been ended already is not ended, or told, again.
TimerEndOnce(d) ==
    /\ Due(d)
    /\ \/ /\ handle # "dead" /\ View(handle).status[d] # "ended"
          /\ Exec([op |-> "status", round |-> d, val |-> "ended"])
          /\ tpc' = [tpc EXCEPT ![d] = "tell"]
       \/ handle # "dead" /\ View(handle).status[d] = "ended" /\ UNCHANGED <<db, pend, tpc>>
       \/ Dead /\ UNCHANGED tpc
    /\ UNCHANGED <<nextRound, present, rtc, handle, pc, req, faults, crashes, overlapped>>

\* The task runs once, whatever has become of the round since.  When its
\* statement reports an error it ends without telling rtc-service.
TimerEnd(d) ==
    /\ Due(d)
    /\ LET write == [op |-> "status", round |-> d, val |-> "ended"] IN
       \/ Exec(write) /\ tpc' = [tpc EXCEPT ![d] = "tell"] /\ UNCHANGED faults
       \/ Dead /\ UNCHANGED <<tpc, faults>>
       \/ Breaks("task", write) /\ UNCHANGED tpc
    /\ UNCHANGED <<nextRound, present, rtc, handle, pc, req, crashes, overlapped>>

TimerTell(d) ==
    /\ tpc[d] = "tell" /\ RtcEnd
    /\ tpc' = [tpc EXCEPT ![d] = "idle"]
    /\ UNCHANGED <<db, nextRound, present, timers, handle, pend, pc, req, crashes, overlapped>>

-----------------------------------------------------------------------------
(* JoinRoom and LeaveRoom, as far as the rounds are concerned *)

\* Mutant: only a round that waits to be started is joined.
JoinFindCreated(h) ==
    /\ \E u \in Users \ present, d \in RoundIds :
          /\ db.status[d] # "none"
          /\ Begin(h, "join", "joinAdd",
                   [Blank EXCEPT !.user = u, !.round = IF db.status[d] = "created" THEN d ELSE 0])
    /\ UNCHANGED <<db, nextRound, present, rtc, tasks, handle, pend, faults, crashes, overlapped>>

\* FindRoomByID: room.Rounds[len(room.Rounds)-1] is the last row of a query
\* without an order.  Its status is not read again.
JoinFind(h) ==
    /\ \E u \in Users \ present, d \in RoundIds :
          /\ db.status[d] # "none"
          /\ Begin(h, "join", "joinAdd",
                   [Blank EXCEPT !.user = u, !.round = IF db.status[d] = "started" THEN d ELSE 0])
    /\ UNCHANGED <<db, nextRound, present, rtc, tasks, handle, pend, faults, crashes, overlapped>>

\* addJoinMember, which refuses a member, and the join-room message.
JoinAdd(h) ==
    /\ At(h, "joinAdd")
    /\ \/ /\ req[h].user \notin present
          /\ present' = present \cup {req[h].user}
          /\ \/ UNCHANGED faults /\ IF req[h].round = 0 THEN Return(h) ELSE Goto(h, "joinPart")
             \/ Fails("rtc") /\ Return(h)
       \/ req[h].user \in present /\ Return(h) /\ UNCHANGED <<present, faults>>
       \/ Fails("single") /\ Return(h) /\ UNCHANGED present
    /\ UNCHANGED <<db, nextRound, rtc, tasks, handle, pend, crashes, overlapped>>

JoinPart(h) ==
    /\ At(h, "joinPart")
    /\ LET write == [op |-> "part", round |-> req[h].round, val |-> req[h].user]
       IN  \/ (Exec(write) \/ Dead) /\ UNCHANGED faults
           \/ Breaks("single", write)
    /\ Return(h)
    /\ UNCHANGED <<nextRound, present, rtc, tasks, handle, crashes, overlapped>>

\* One of several members leaves; the last one deletes the room.
Leave(u) ==
    /\ "leave" \in Requests /\ u \in present /\ present # {u}
    /\ present' = present \ {u}
    /\ UNCHANGED <<db, nextRound, rtc, tasks, handle, pend, pc, req, faults,
                   crashes, overlapped>>

\* central-service is restarted: open transactions are rolled back, and
\* nothing schedules the tasks again.
Crash ==
    /\ crashes < MaxCrashes /\ crashes' = crashes + 1
    /\ timers' = [x \in RoundIds \X Durations |-> 0]
    /\ tpc' = [d \in RoundIds |-> "idle"]
    /\ handle' = "pool" /\ pend' = [h \in Handlers |-> <<>>]
    /\ pc' = [h \in Handlers |-> "idle"] /\ req' = [h \in Handlers |-> Blank]
    /\ UNCHANGED <<db, nextRound, present, rtc, faults, overlapped>>

Arrival(h) == CreateFind(h) \/ DurationFind(h) \/ StartFind(h) \/ EndFind(h) \/ JoinFind(h)

Work(h) ==
    \/ CreateInsert(h) \/ CreateFill(h) \/ CreateAppend(h)
    \/ UpdateRoundDuration(h)
    \/ StartUsers(h) \/ StartProblems(h) \/ StartUpdate(h) \/ StartRtc(h) \/ StartBegin(h)
    \/ StartSwap(h) \/ StartRow(h) \/ StartRestore(h) \/ StartCommit(h) \/ StartRollback(h)
    \/ StartTimer(h)
    \/ EndUpdate(h) \/ EndRtc(h)
    \/ JoinAdd(h) \/ JoinPart(h)

Task(d) == TimerEnd(d) \/ TimerTell(d)

Next ==
    \/ \E h \in Handlers : Arrival(h) \/ Work(h)
    \/ \E d \in RoundIds : Task(d)
    \/ \E u \in Users : Leave(u)
    \/ Crash

Spec == Init /\ [][Next]_vars

\* A request that has arrived is served, and a task runs when it is due.
FairSpec ==
    /\ Spec
    /\ \A h \in Handlers : WF_vars(Work(h))
    /\ \A d \in RoundIds : WF_vars(Task(d))

-----------------------------------------------------------------------------
(* Properties *)

\* As long as no two transactions of InitiateRoundStart overlap, RoundService.db
\* (round.go:232-246) is only away from the pool while a start is between its
\* two calls of SetDBConnection: every way out of the loop puts it back.
HandleHome ==
    handle = "pool" \/ overlapped
        \/ \E h \in Handlers : pc[h] \in {"rows", "restore", "undo"} /\ handle = h

\* The round trips a played round needs to come to its end: the UPDATE of its
\* start, its transaction, the scheduling of its task and the UPDATE of the task.
EndNeeds == {"update", "begin", "row", "commit", "schedule", "task"}

\* Nothing has happened that leaves a started round without a task that ends
\* it: no restart, none of these failures, no overlapping starts.
Undisturbed == crashes = 0 /\ ~overlapped /\ faults \cap EndNeeds = {}

\* A transaction that is open will end round d.
EndPending(d) ==
    \E h \in Handlers : \E i \in DOMAIN pend[h] :
        pend[h][i] = [op |-> "status", round |-> d, val |-> "ended"]

\* A round that is played comes to its end (round.go:252-300), by its task or by
\* the leader, if nothing disturbs its start or its task: also when a start that
\* read the round before opens it again after its end.
EndsEventually ==
    \A d \in RoundIds : db.status[d] = "started" ~> (db.status[d] = "ended" \/ ~Undisturbed)

\* rtc-service (chatmanager/round.go:91) does not show a round as played for ever:
\* also when the leader ends it between the UPDATE and the announcement of its
\* start, so that the end is announced first; the task announces it again.
RtcEndsEventually ==
    rtc.status = "in-progress" ~> (rtc.status = "ended" \/ ~Undisturbed \/ "rtc" \in faults)

\* What round.go:252 says of the task, "Schedule task to change round state to
\* ended": when it has run, the round is ended, or about to be.
TimerEndsRound ==
    [][\A d \in RoundIds, x \in Durations :
          (timers'[<<d, x>>] < timers[<<d, x>>] /\ crashes' = crashes)
              => (db'.status[d] = "ended" \/ EndPending(d)')]_vars

\* What room.go:568-569 says: "Everyone in the room joins the round the moment it
\* starts. Users who arrive later get their join-round from JoinRoom
\* instead."  With nothing under way, nothing failed and no other round in the
\* room, all members of the room have a row of the round that is played.
EveryonePlays ==
    \A d \in RoundIds :
        /\ db.status[d] = "started" /\ \A e \in RoundIds \ {d} : db.status[e] = "none"
        /\ \A h \in Handlers : pc[h] = "idle"
        /\ Undisturbed /\ faults = {}
        => present \subseteq db.parts[d]
=============================================================================
